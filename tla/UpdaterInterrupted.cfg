SPECIFICATION Spec
CONSTANTS
    Runs = {manual, cron}
    Automatic = {cron}
    MaxVersion = 4
    Signed <- MCSigned
    Rewrites <- MCRewrites
    Nobody = nobody
INVARIANT
    KnownGood
