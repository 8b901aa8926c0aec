------------------------------- MODULE Backup -------------------------------
(***************************************************************************)
(* backup.sh run while the site works on its uploads: the databases are    *)
(* copied first, at one moment each (sqlite3 backup), then cp -a lists     *)
(* uploads/ and copies file after file.  A restored site has the rows of   *)
(* the snapshot and the files of the copy.  Encryption of the archive, its *)
(* MAC and the number of archives kept are left out.                       *)
(***************************************************************************)
EXTENDS Uploads, Sequences

CONSTANT Parallel   \* bound on the requests and commands at work during a backup

ASSUME BackupAssumption == Parallel \in Nat

VARIABLES
    phase,     \* index of the next phase of the run
    rows,      \* the snapshot: file -> the form its row names, if it was there
    todo,      \* files that cp still has to copy
    copied,    \* paths copied
    vanished   \* history: paths removed from uploads/ between the snapshot and the list

backupVars == <<phase, rows, todo, copied, vanished>>

\* Mutant: the files are listed before the databases are copied.
PhasesFilesFirst == <<"list", "snapshot", "copy", "done", "failed">>

\* The last two are the outcomes.
Phases == <<"snapshot", "list", "copy", "done", "failed">>

At(name) == Phases[phase] = name
Ended == At("done") \/ At("failed")
Running == phase # 1 /\ ~Ended

InitBackup ==
    /\ phase = 1
    /\ rows = [f \in Files |-> "none"]
    /\ todo = {} /\ copied = {} /\ vanished = {}

Busy == Cardinality({w \in Workers : job[w] # Idle})

Snapshot ==
    /\ At("snapshot")
    /\ Busy <= Parallel
    /\ rows' = [f \in Files |-> IF Resolves(f) THEN ref[f] ELSE "none"]
    /\ phase' = phase + 1
    /\ UNCHANGED <<todo, copied, vanished>>

List ==
    /\ At("list")
    /\ todo' = {p \in Paths : p[2] \in disk[p[1]]}
    /\ phase' = phase + 1
    /\ UNCHANGED <<rows, copied, vanished>>

Copy ==
    /\ At("copy")
    /\ \E p \in todo :
          /\ p[2] \in disk[p[1]]
          /\ todo' = todo \ {p}
          /\ copied' = copied \cup {p}
    /\ UNCHANGED <<phase, rows, vanished>>

\* cp fails on a file removed since it was listed, and set -e ends the script.
Abort ==
    /\ At("copy")
    /\ \E p \in todo : p[2] \notin disk[p[1]]
    /\ phase' = Len(Phases)
    /\ UNCHANGED <<rows, todo, copied, vanished>>

Finish ==
    /\ At("copy") /\ todo = {}
    /\ phase' = phase + 1
    /\ UNCHANGED <<rows, todo, copied, vanished>>

BackupStep == (Snapshot \/ List \/ Copy \/ Abort \/ Finish) /\ UNCHANGED vars

\* The site goes on working; what it does after the run changes no archive.
SiteStep ==
    /\ ~Ended
    /\ Next
    /\ Running => Busy' <= Parallel
    /\ vanished' = IF ~At("list") THEN vanished
                   ELSE vanished \cup {p \in Paths : p[2] \in disk[p[1]] \ disk'[p[1]]}
    /\ UNCHANGED <<phase, rows, todo, copied>>

BackupInit == Init /\ InitBackup

BackupNext == SiteStep \/ BackupStep

BackupSpec == BackupInit /\ [][BackupNext]_<<vars, backupVars>>

-----------------------------------------------------------------------------
(* A backup that reports success is complete although its two halves are of
   different moments: every row of the snapshot that found its file finds it
   in the copy too, unless the site removed or renamed that file before the
   files were listed.                                                      *)
BackupComplete ==
    At("done") =>
        \A f \in Files : rows[f] \in Forms => <<f, rows[f]>> \in copied \cup vanished

=============================================================================
