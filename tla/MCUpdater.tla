------------------------------ MODULE MCUpdater ------------------------------
(* Updater with a run by hand and one from cron, and three versions after the
   one installed: 2 has a new update.sh, 3 is not signed.                    *)
EXTENDS Updater

MCSigned == {1, 2, 4}
MCRewrites == {2}

=============================================================================
