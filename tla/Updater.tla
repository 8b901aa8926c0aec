------------------------------- MODULE Updater --------------------------------
(***************************************************************************)
(* update.sh: backup, fetch, verify, fast-forward, dependencies,           *)
(* migrations, health check, encryption of legacy data, and the rollback.  *)
(*                                                                         *)
(* Runs are started by hand and by cron (--auto), one at a time thanks to  *)
(* flock.  When the new version changes update.sh itself, the new script   *)
(* takes over and locks again.  Any command can fail, the machine can be   *)
(* rebooted at any point, and the remote branch moves on meanwhile.        *)
(* Versions are the commits of the branch, numbered in their order; what   *)
(* the running application does is left out.                               *)
(***************************************************************************)
EXTENDS Integers

CONSTANTS
    Runs,        \* the runs of the script that can overlap
    Automatic,   \* those started with --auto
    MaxVersion,  \* bound on the versions
    Signed,      \* versions whose commit has a valid trusted signature
    Rewrites,    \* versions that change update.sh
    Nobody       \* holds the lock when it is free

Versions == 1..MaxVersion
Torn == 0        \* dependencies or schema between two versions
Formats == {"plain", "gpg", "enc"}    \* of a backup: .tar.gz, .tar.gz.gpg, .tar.gz.enc

ASSUME UpdaterAssumption ==
    /\ MaxVersion \in Nat \ {0}
    /\ Automatic \subseteq Runs /\ Nobody \notin Runs
    /\ 1 \in Signed /\ Signed \subseteq Versions
    /\ Rewrites \subseteq Versions \ {1}

VARIABLES
    remote,    \* tip of the branch on the remote
    head,      \* HEAD, and the work tree
    deps,      \* version whose requirements.lock is installed, or Torn
    schema,    \* version whose migrations the database has had, or Torn
    format,    \* newest version whose encrypt-legacy converted the uploads
    archives,  \* the formats that some update_backup_* in backups/ has
    lock,      \* the run that holds instance/.update.lock
    run        \* each run: where it is and its shell variables

vars == <<remote, head, deps, schema, format, archives, lock, run>>
files == <<deps, schema, format, archives>>

-----------------------------------------------------------------------------
(* Runs.                                                                   *)

Rollback == {"reset", "depsBack", "restore", "report"}
Phases == {"lock", "check", "current", "backup", "prune", "fetch", "verify", "merge", "reexec",
           "deps", "migrate", "health", "encrypt", "restart"} \cup Rollback

Outcomes == {"none", "untouched", "restored", "lost"}    \* db_state

Run == [at: Phases, resume: BOOLEAN, prev: Versions, target: Versions,
        before: Versions \cup {Torn}, touched: BOOLEAN, db: Outcomes]

Off == [at |-> "off"]

\* The lock is gone for an instant while a resumed script opens it again.  That
\* instant is too short for another run to do more than take the lock.
Relocking == {p \in Runs : run[p].at = "lock" /\ run[p].resume}

At(p, phase) == run[p].at = phase /\ Relocking = {}

Goto(p, phase) == run' = [run EXCEPT ![p].at = phase]

\* Mutant: the lock is a file that stays.
ExitLocked(p) ==
    /\ run' = [run EXCEPT ![p] = Off]
    /\ UNCHANGED lock

\* The script ends: the lock goes with its last file descriptor.
Exit(p) ==
    /\ run' = [run EXCEPT ![p] = Off]
    /\ lock' = Nobody

\* rollback() is called
Fail(p) == Goto(p, "reset") /\ UNCHANGED lock

-----------------------------------------------------------------------------
(* Starting: the lock, and in --auto mode the question whether there is    *)
(* anything new.                                                           *)

Start(p) ==
    /\ run[p] = Off
    /\ run' = [run EXCEPT ![p] = [at |-> "lock", resume |-> FALSE, prev |-> head,
                    target |-> head, before |-> schema, touched |-> FALSE, db |-> "none"]]
    /\ UNCHANGED <<remote, head, files, lock>>

FirstPhase(p) ==
    IF p \in Automatic THEN "check" ELSE IF run[p].resume THEN "deps" ELSE "backup"

\* Mutant: the script that takes over relies on the lock it had.
LockInherited(p) ==
    /\ run[p].at = "lock"
    /\ IF lock = Nobody \/ run[p].resume
       THEN /\ lock' = p
            /\ run' = [run EXCEPT ![p].at = FirstPhase(p),
                                  ![p].prev = IF run[p].resume THEN @ ELSE head]
       ELSE run' = [run EXCEPT ![p] = Off] /\ UNCHANGED lock
    /\ UNCHANGED <<remote, head, files>>

\* flock -n: a run that finds the lock taken exits at once.
Lock(p) ==
    /\ run[p].at = "lock"
    /\ IF lock = Nobody
       THEN /\ lock' = p
            /\ run' = [run EXCEPT ![p].at = FirstPhase(p),
                                  ![p].prev = IF run[p].resume THEN @ ELSE head]
       ELSE run' = [run EXCEPT ![p] = Off] /\ UNCHANGED lock
    /\ UNCHANGED <<remote, head, files>>

\* fetch_target || exit 1, also in a script that resumes after the merge
Check(p) ==
    /\ At(p, "check")
    /\ \/ Exit(p)
       \/ /\ Goto(p, IF run[p].resume THEN "deps"
                     ELSE IF head = remote THEN "current" ELSE "backup")
          /\ UNCHANGED lock
    /\ UNCHANGED <<remote, head, files>>

\* encrypt_legacy: may fail; a format never goes back to an older one
Encrypted == format' \in {format, IF head > format THEN head ELSE format}

\* Already up to date: encrypt_legacy, pip-audit, exit 0
Current(p) ==
    /\ At(p, "current")
    /\ Encrypted
    /\ Exit(p)
    /\ UNCHANGED <<remote, head, deps, schema, archives>>

-----------------------------------------------------------------------------
(* Backup and code.                                                        *)

\* make_backup: the passphrase and gpg decide on the format.  What is left of an
\* encryption that failed is removed, what is left of a clear archive stays.
Backup(p) ==
    /\ At(p, "backup")
    /\ \/ archives' \in {archives, archives \cup {"plain"}} /\ Exit(p)
       \/ /\ \E f \in Formats : archives' = archives \cup {f}
          /\ Goto(p, "prune")
          /\ UNCHANGED lock
    /\ UNCHANGED <<remote, head, deps, schema, format>>

\* Its last pipeline keeps the newest archives.  ls fails when there is none of
\* one format, the pipeline with it (pipefail), and make_backup || exit 1.
\* Otherwise PREV_DB_REV is read.
Prune(p) ==
    /\ At(p, "prune")
    /\ archives' \in SUBSET archives \ {{}}
    /\ IF archives = Formats
       THEN /\ run' = [run EXCEPT ![p].at = "fetch", ![p].before = schema]
            /\ UNCHANGED lock
       ELSE Exit(p)
    /\ UNCHANGED <<remote, head, deps, schema, format>>

\* Local changes and a failed fetch end the run.
Fetch(p) ==
    /\ At(p, "fetch")
    /\ \/ Exit(p)
       \/ /\ run' = [run EXCEPT ![p].at = IF remote = head THEN "deps" ELSE "verify",
                                ![p].target = remote]
          /\ UNCHANGED lock
    /\ UNCHANGED <<remote, head, files>>

\* verify_target, with UPDATE_GPG_HOME set
Verify(p) ==
    /\ At(p, "verify")
    /\ IF run[p].target \in Signed THEN Goto(p, "merge") /\ UNCHANGED lock ELSE Exit(p)
    /\ UNCHANGED <<remote, head, files>>

\* git diff --quiet PREV_COMMIT HEAD -- update.sh
Rewritten(from, to) == \E v \in Rewrites : from < v /\ v <= to

\* Mutant: what is merged is fetched again.
MergeTip(p) ==
    /\ At(p, "merge")
    /\ \/ Fail(p) /\ UNCHANGED head
       \/ /\ head' = remote
          /\ Goto(p, IF Rewritten(run[p].prev, head') THEN "reexec" ELSE "deps")
          /\ UNCHANGED lock
    /\ UNCHANGED <<remote, files>>

Merge(p) ==
    /\ At(p, "merge")
    /\ \/ Fail(p) /\ UNCHANGED head
       \/ /\ head' = run[p].target
          /\ Goto(p, IF Rewritten(run[p].prev, head') THEN "reexec" ELSE "deps")
          /\ UNCHANGED lock
    /\ UNCHANGED <<remote, files>>

\* exec update.sh --resume-after-pull: exec 9> closes the descriptor that is
\* locked, flock asks again.
Reexec(p) ==
    /\ At(p, "reexec")
    /\ run' = [run EXCEPT ![p].at = "lock", ![p].resume = TRUE]
    /\ lock' = Nobody
    /\ UNCHANGED <<remote, head, files>>

-----------------------------------------------------------------------------
(* Dependencies, migrations, checks, conversion.                           *)

InstallDeps(p) ==
    /\ At(p, "deps")
    /\ \/ deps' = head /\ Goto(p, "migrate") /\ UNCHANGED lock
       \/ deps' \in {deps, Torn} /\ Fail(p)
    /\ UNCHANGED <<remote, head, schema, format, archives>>

\* Mutant: DB_TOUCHED is set once the migrations are done.
MigrateLate(p) ==
    /\ At(p, "migrate")
    /\ \/ /\ schema <= head
          /\ schema' = head
          /\ run' = [run EXCEPT ![p].at = "health", ![p].touched = TRUE]
       \/ /\ schema' \in {schema, Torn}
          /\ run' = [run EXCEPT ![p].at = "reset"]
    /\ UNCHANGED <<remote, head, deps, format, archives, lock>>

\* flask db upgrade; it does not know a schema newer than the code
Migrate(p) ==
    /\ At(p, "migrate")
    /\ \/ /\ schema <= head
          /\ schema' = head
          /\ run' = [run EXCEPT ![p].at = "health", ![p].touched = TRUE]
       \/ /\ schema' \in {schema, Torn}
          /\ run' = [run EXCEPT ![p].at = "reset", ![p].touched = TRUE]
    /\ UNCHANGED <<remote, head, deps, format, archives, lock>>

\* The application starts and its tests pass, or not.
Health(p) ==
    /\ At(p, "health")
    /\ \/ Goto(p, "encrypt") /\ UNCHANGED lock
       \/ Fail(p)
    /\ UNCHANGED <<remote, head, files>>

Encrypt(p) ==
    /\ At(p, "encrypt")
    /\ Encrypted
    /\ Goto(p, "restart")
    /\ UNCHANGED <<remote, head, deps, schema, archives, lock>>

\* Mutant: a failed restart is rolled back too.
RestartOrRollback(p) ==
    /\ At(p, "restart")
    /\ Exit(p) \/ Fail(p)
    /\ UNCHANGED <<remote, head, files>>

\* pip-audit, RESTART_CMD; a failed restart is only reported
Restart(p) ==
    /\ At(p, "restart")
    /\ Exit(p)
    /\ UNCHANGED <<remote, head, files>>

-----------------------------------------------------------------------------
(* rollback(): code, dependencies of the old code, database.               *)

\* git reset --hard; under set -e the script stops when it fails.
Reset(p) ==
    /\ At(p, "reset")
    /\ \/ Exit(p) /\ UNCHANGED head
       \/ /\ head' = run[p].prev
          /\ Goto(p, "depsBack")
          /\ UNCHANGED lock
    /\ UNCHANGED <<remote, files>>

\* install_deps || true
DepsBack(p) ==
    /\ At(p, "depsBack")
    /\ deps' \in {head, deps, Torn}
    /\ run' = [run EXCEPT ![p].at = IF run[p].touched THEN "restore" ELSE "report",
                          ![p].db = IF run[p].touched THEN @ ELSE "untouched"]
    /\ UNCHANGED <<remote, head, schema, format, archives, lock>>

\* restore_db_from_backup: the archive may be missing or unreadable
Restore(p) ==
    /\ At(p, "restore")
    /\ \/ schema' = run[p].before
          /\ run' = [run EXCEPT ![p].at = "report", ![p].db = "restored"]
       \/ UNCHANGED schema
          /\ run' = [run EXCEPT ![p].at = "report", ![p].db = "lost"]
    /\ UNCHANGED <<remote, head, deps, format, archives, lock>>

Report(p) ==
    /\ At(p, "report")
    /\ Exit(p)
    /\ UNCHANGED <<remote, head, files>>

-----------------------------------------------------------------------------
\* New commits are pushed to the branch.
Push ==
    /\ Relocking = {}
    /\ \E v \in Versions : v > remote /\ remote' = v
    /\ UNCHANGED <<head, files, lock, run>>

\* The machine goes down with the runs on it.
Reboot ==
    /\ \E p \in Runs : run[p] # Off
    /\ run' = [p \in Runs |-> Off]
    /\ lock' = Nobody
    /\ UNCHANGED <<remote, head, files>>

Init ==
    /\ remote = 1 /\ head = 1 /\ deps = 1 /\ schema = 1 /\ format = 1
    /\ archives = {}
    /\ lock = Nobody
    /\ run = [p \in Runs |-> Off]

Step(p) ==
    \/ Start(p) \/ Lock(p) \/ Check(p) \/ Current(p)
    \/ Backup(p) \/ Prune(p) \/ Fetch(p) \/ Verify(p) \/ Merge(p) \/ Reexec(p)
    \/ InstallDeps(p) \/ Migrate(p) \/ Health(p) \/ Encrypt(p) \/ Restart(p)
    \/ Reset(p) \/ DepsBack(p) \/ Restore(p) \/ Report(p)

Next == (\E p \in Runs : Step(p)) \/ Push \/ Reboot

Spec == Init /\ [][Next]_vars

-----------------------------------------------------------------------------
(* Properties.                                                             *)

(* Types; the lock is free or belongs to a run at work.                    *)
TypeOK ==
    /\ remote \in Versions /\ head \in Versions
    /\ deps \in Versions \cup {Torn} /\ schema \in Versions \cup {Torn}
    /\ format \in Versions /\ archives \subseteq Formats
    /\ run \in [Runs -> Run \cup {Off}]
    /\ lock \in {p \in Runs : run[p] # Off /\ run[p].at # "lock"} \cup {Nobody}

(* "Only a fast-forward to a commit signed by a trusted key is accepted"
   (update.sh:13): whatever is pushed while a run is at work, the code in the
   work tree is a signed version.                                          *)
VerifiedCode == head \in Signed

(* "Only one update at a time (cron + manual run)" (update.sh:389): past the
   lock there is one run, also when a script hands over to its new version.  *)
OneUpdateAtATime ==
    \A p, q \in Runs :
        (/\ run[p] # Off /\ run[p].at # "lock"
         /\ run[q] # Off /\ run[q].at # "lock") => p = q

(* "From here on there is no rollback, because the previous version could not
   read encrypted uploads" (update.sh:486): no version is checked out that is
   older than the format of the uploads.                                   *)
ReadableUploads == format <= head

(* What a rollback reports of the database is true (update.sh:344): unless it
   says that the restoration failed, code and schema are those of before.   *)
RollbackExact ==
    \A p \in Runs : (run[p].at = "report" /\ run[p].db # "lost") =>
        head = run[p].prev /\ schema = run[p].before

(* "a timestamped backup of the database + uploads is taken first", then the
   code is fetched (update.sh:10, 426): a run that made its backup goes on,
   unless the machine goes down.                                           *)
BackupGoesOn ==
    [][\A p \in Runs : run[p].at = "prune" => run'[p] # Off \/ Reboot]_vars

(* "The running version is the installed, known-good one: safe to run."
   (update.sh:414)                                                         *)
KnownGood ==
    \A p \in Runs : run[p].at = "current" => deps = head /\ schema = head

=============================================================================
