---------------------------- MODULE Updater_proofs ----------------------------
(* Proofs about Updater, for any number of runs and versions, and any choice
   of signed versions and of versions that rewrite the script.               *)
EXTENDS Updater, TLAPS

-----------------------------------------------------------------------------
(* The invariant, in parts.                                                *)

\* Past the lock
Working(p) == run[p].at \notin {"off", "lock"}

\* At work, or resumed and about to lock again
Engaged(p) == Working(p) \/ p \in Relocking

Exclusive == \A p \in Runs : Working(p) => lock = p

\* A run goes back to a signed version, and forward to one it has verified.
Trusted(p) ==
    run[p] # Off =>
        /\ run[p].prev \in Signed
        /\ run[p].at = "merge" => run[p].target \in Signed

\* Neither the version a run would go back to nor the one it goes forward to
\* is older than the format of the uploads; once a run has converted them it
\* does not go back.
Readable(p) ==
    /\ run[p].prev <= remote
    /\ run[p].at # "restart" => format <= run[p].prev
    /\ run[p].at \in {"verify", "merge"} => head <= run[p].target /\ run[p].target <= remote

\* From the backup to the migrations
Unmigrated == {"fetch", "verify", "merge", "reexec", "lock", "deps", "migrate"}

\* What a run remembers of the database is what the database is, until the run
\* has noted that it touches it.
Restorable(p) ==
    /\ \/ run[p].at \in Unmigrated
       \/ run[p].at = "check" /\ run[p].resume
       \/ run[p].at \in {"reset", "depsBack"} /\ ~run[p].touched
       \/ run[p].at = "report" /\ run[p].db # "lost"
       => schema = run[p].before
    /\ run[p].at \in {"depsBack", "restore", "report"} => head = run[p].prev
    /\ run[p].at = "health" => run[p].touched

UpdaterInv ==
    /\ TypeOK
    /\ Exclusive
    /\ head \in Signed /\ format <= head /\ head <= remote
    /\ \A p \in Runs : Trusted(p)
    /\ \A p \in Runs : Engaged(p) => Readable(p) /\ Restorable(p)
-----------------------------------------------------------------------------
(* Runs.                                                                   *)

LEMMA RunFields ==
    ASSUME TypeOK, NEW p \in Runs, run[p].at # "off"
    PROVE  /\ run[p] \in Run
           /\ run[p].at \in Phases /\ run[p].resume \in BOOLEAN /\ run[p].touched \in BOOLEAN
           /\ run[p].prev \in Versions /\ run[p].target \in Versions
           /\ run[p].before \in Versions \cup {Torn} /\ run[p].db \in Outcomes
BY DEF TypeOK, Run, Off

LEMMA OffOrAt ==
    ASSUME TypeOK, NEW p \in Runs
    PROVE  run[p].at = "off" <=> run[p] = Off
BY DEF TypeOK, Run, Off, Phases, Rollback

(* A step of a run that is past the lock: it holds the lock, and nobody else
   is at work.                                                               *)
LEMMA Alone ==
    ASSUME UpdaterInv, NEW p \in Runs, NEW ph, At(p, ph), ph \notin {"off", "lock"}
    PROVE  /\ lock = p /\ Working(p) /\ Relocking = {}
           /\ \A q \in Runs \ {p} : ~Engaged(q)
BY DEF UpdaterInv, Exclusive, At, Working, Engaged

LEMMA InitInv == Init => UpdaterInv
<1> SUFFICES ASSUME Init PROVE UpdaterInv
  OBVIOUS
<1>1. 1 \in Versions
  BY UpdaterAssumption DEF Versions
<1>2. TypeOK
  BY <1>1, UpdaterAssumption DEF Init, TypeOK
<1>3. \A p \in Runs : run[p].at = "off" /\ run[p] = Off
  BY DEF Init, Off
<1> QED
  BY <1>1, <1>2, <1>3, UpdaterAssumption
  DEF Init, UpdaterInv, Exclusive, Working, Engaged, Relocking, Trusted
-----------------------------------------------------------------------------
(* Types.                                                                  *)

\* A run other than p has not moved.
Others(p) == \A q \in Runs \ {p} : run'[q] = run[q]

LEMMA GotoStep ==
    ASSUME TypeOK, NEW p \in Runs, run[p].at # "off", NEW ph \in Phases, Goto(p, ph)
    PROVE  /\ run' \in [Runs -> Run \cup {Off}] /\ Others(p)
           /\ run'[p] \in Run /\ run'[p] = [run[p] EXCEPT !.at = ph]
<1>1. run[p] \in Run
  BY RunFields
<1>2. [run[p] EXCEPT !.at = ph] \in Run
  BY <1>1 DEF Run
<1> QED BY <1>1, <1>2 DEF Goto, TypeOK, Others

LEMMA ExitStep ==
    ASSUME TypeOK, NEW p \in Runs, Exit(p)
    PROVE  /\ run' \in [Runs -> Run \cup {Off}] /\ Others(p)
           /\ run'[p] = Off /\ ~Engaged(p)' /\ lock' = Nobody
BY DEF Exit, TypeOK, Others, Off, Engaged, Working, Relocking

(* What is left of TypeOK when the types of the run itself are known.        *)
LEMMA LockStep ==
    ASSUME TypeOK, NEW p \in Runs, Others(p), lock' \in {lock, p, Nobody},
           lock' = p => run'[p] # Off /\ run'[p].at # "lock"
    PROVE  lock' \in {q \in Runs : run'[q] # Off /\ run'[q].at # "lock"} \cup {Nobody}
BY DEF TypeOK, Others

LEMMA Past ==
    ASSUME NEW r \in Run, r.at # "lock"
    PROVE  r # Off
BY DEF Run, Off, Phases, Rollback

LEMMA TypeStep == UpdaterInv /\ [Next]_vars => TypeOK'
<1> SUFFICES ASSUME UpdaterInv, [Next]_vars PROVE TypeOK'
  OBVIOUS
<1> USE DEF files
<1>0. TypeOK
  BY DEF UpdaterInv
<1>1. ASSUME NEW p \in Runs, Start(p) PROVE TypeOK'
  <2>1. run'[p] \in Run /\ run'[p].at = "lock"
    BY <1>0, <1>1 DEF Start, TypeOK, Run, Phases, Outcomes
  <2>2. run' \in [Runs -> Run \cup {Off}] /\ Others(p)
    BY <1>0, <1>1, <2>1 DEF Start, TypeOK, Others
  <2>3. lock # p
    BY <1>0, <1>1, UpdaterAssumption DEF Start, TypeOK
  <2>4. lock' \in {q \in Runs : run'[q] # Off /\ run'[q].at # "lock"} \cup {Nobody}
    <3>1. lock' = lock
      BY <1>1 DEF Start
    <3> QED BY <1>0, <2>2, <2>3, <3>1, LockStep
  <2> QED BY <1>0, <1>1, <2>2, <2>4 DEF Start, TypeOK
<1>2. ASSUME NEW p \in Runs, Lock(p) PROVE TypeOK'
  <2>1. run[p] \in Run
    BY <1>0, <1>2, RunFields DEF Lock
  <2>2. FirstPhase(p) \in Phases /\ FirstPhase(p) # "lock"
    BY DEF FirstPhase, Phases
  <2>3. CASE lock = Nobody
    <3>1. run'[p] \in Run /\ run'[p].at = FirstPhase(p)
      BY <1>0, <1>2, <2>1, <2>2, <2>3 DEF Lock, TypeOK, Run
    <3>2. run' \in [Runs -> Run \cup {Off}] /\ Others(p)
      BY <1>0, <1>2, <2>3, <3>1 DEF Lock, TypeOK, Others
    <3>3. lock' = p /\ run'[p] # Off
      BY <1>2, <2>2, <2>3, <3>1, Past DEF Lock
    <3> QED BY <1>0, <1>2, <2>2, <3>1, <3>2, <3>3, LockStep DEF Lock, TypeOK
  <2>4. CASE lock # Nobody
    <3>1. run' \in [Runs -> Run \cup {Off}] /\ Others(p) /\ lock' = lock
      BY <1>0, <1>2, <2>4 DEF Lock, TypeOK, Others
    <3>2. lock # p
      BY <1>0, <1>2, UpdaterAssumption DEF Lock, TypeOK
    <3>3. lock' \in {q \in Runs : run'[q] # Off /\ run'[q].at # "lock"} \cup {Nobody}
      BY <1>0, <3>1, <3>2, LockStep
    <3> QED BY <1>0, <1>2, <3>1, <3>3 DEF Lock, TypeOK
  <2> QED BY <2>3, <2>4
(* A run past the lock ends, moves on, or also changes its variables.        *)
<1>3. ASSUME NEW p \in Runs, Exit(p), remote' \in Versions, head' \in Versions,
             deps' \in Versions \cup {Torn}, schema' \in Versions \cup {Torn},
             format' \in Versions, archives' \subseteq Formats
      PROVE  TypeOK'
  BY <1>0, <1>3, ExitStep DEF TypeOK
<1>4. ASSUME NEW p \in Runs, NEW r \in Run, r.at # "lock", run' = [run EXCEPT ![p] = r],
             lock = p, lock' = p, remote' \in Versions, head' \in Versions,
             deps' \in Versions \cup {Torn}, schema' \in Versions \cup {Torn},
             format' \in Versions, archives' \subseteq Formats
      PROVE  TypeOK'
  <2>1. run' \in [Runs -> Run \cup {Off}] /\ Others(p) /\ run'[p] = r
    BY <1>0, <1>4 DEF TypeOK, Others
  <2>2. lock' \in {q \in Runs : run'[q] # Off /\ run'[q].at # "lock"} \cup {Nobody}
    BY <1>0, <1>4, <2>1, Past, LockStep
  <2> QED BY <1>4, <2>1, <2>2 DEF TypeOK
<1>5. ASSUME NEW p \in Runs, NEW a \in Phases, Working(p), lock = p, Goto(p, a), a # "lock",
             UNCHANGED lock, remote' \in Versions, head' \in Versions,
             deps' \in Versions \cup {Torn}, schema' \in Versions \cup {Torn},
             format' \in Versions, archives' \subseteq Formats
      PROVE  TypeOK'
  <2>1. run[p] \in Run /\ [run[p] EXCEPT !.at = a] \in Run
    BY <1>0, <1>5, RunFields DEF Working, Run
  <2>2. run' = [run EXCEPT ![p] = [run[p] EXCEPT !.at = a]]
    BY <1>5 DEF Goto
  <2>3. [run[p] EXCEPT !.at = a].at # "lock"
    BY <1>5, <2>1 DEF Run
  <2> QED BY <1>4, <1>5, <2>1, <2>2, <2>3
<1>6. ASSUME NEW p \in Runs, NEW ph, At(p, ph), ph \notin {"off", "lock"}
      PROVE  lock = p /\ Working(p) /\ run[p] \in Run
  BY <1>0, <1>6, Alone, RunFields DEF At
<1>7. ASSUME NEW p \in Runs, Check(p) PROVE TypeOK'
  <2>1. lock = p /\ Working(p)
    BY <1>6, <1>7 DEF Check
  <2> QED BY <1>0, <1>3, <1>5, <1>7, <2>1 DEF Check, TypeOK, Phases
<1>8. ASSUME NEW p \in Runs, Current(p) PROVE TypeOK'
  BY <1>0, <1>3, <1>8 DEF Current, Encrypted, TypeOK
<1>9. ASSUME NEW p \in Runs, Backup(p) PROVE TypeOK'
  <2>1. lock = p /\ Working(p)
    BY <1>6, <1>9 DEF Backup
  <2>2. archives' \subseteq Formats
    BY <1>0, <1>9 DEF Backup, TypeOK, Formats
  <2> QED BY <1>0, <1>3, <1>5, <1>9, <2>1, <2>2 DEF Backup, TypeOK, Phases
<1>10. ASSUME NEW p \in Runs, Prune(p) PROVE TypeOK'
  <2>1. lock = p /\ Working(p) /\ run[p] \in Run
    BY <1>6, <1>10 DEF Prune
  <2>2. archives' \subseteq Formats
    BY <1>0, <1>10 DEF Prune, TypeOK
  <2>3. CASE Exit(p)
    BY <1>0, <1>3, <1>10, <2>2, <2>3 DEF Prune, TypeOK
  <2>4. CASE /\ run' = [run EXCEPT ![p].at = "fetch", ![p].before = schema]
             /\ UNCHANGED lock
    <3> DEFINE r == [run[p] EXCEPT !.at = "fetch", !.before = schema]
    <3>1. r \in Run /\ r.at # "lock"
      BY <1>0, <2>1 DEF Run, Phases, TypeOK
    <3>2. run' = [run EXCEPT ![p] = r]
      BY <1>0, <2>4 DEF TypeOK
    <3> HIDE DEF r
    <3> QED BY <1>0, <1>4, <1>10, <2>1, <2>2, <2>4, <3>1, <3>2 DEF Prune, TypeOK
  <2> QED BY <1>10, <2>3, <2>4 DEF Prune
<1>11. ASSUME NEW p \in Runs, Fetch(p) PROVE TypeOK'
  <2>1. lock = p /\ Working(p) /\ run[p] \in Run
    BY <1>6, <1>11 DEF Fetch
  <2>2. CASE Exit(p)
    BY <1>0, <1>3, <1>11, <2>2 DEF Fetch, TypeOK
  <2>3. CASE ~Exit(p)
    <3> DEFINE r == [run[p] EXCEPT !.at = IF remote = head THEN "deps" ELSE "verify",
                                   !.target = remote]
    <3>1. r \in Run /\ r.at # "lock"
      BY <1>0, <2>1 DEF Run, Phases, TypeOK
    <3>2. run' = [run EXCEPT ![p] = r]
      BY <1>0, <1>11, <2>3 DEF Fetch, TypeOK
    <3> HIDE DEF r
    <3> QED BY <1>0, <1>4, <1>11, <2>1, <2>3, <3>1, <3>2 DEF Fetch, TypeOK
  <2> QED BY <2>2, <2>3
<1>12. ASSUME NEW p \in Runs, Verify(p) PROVE TypeOK'
  <2>1. lock = p /\ Working(p)
    BY <1>6, <1>12 DEF Verify
  <2> QED BY <1>0, <1>3, <1>5, <1>12, <2>1 DEF Verify, TypeOK, Phases
<1>13. ASSUME NEW p \in Runs, Merge(p) PROVE TypeOK'
  <2>1. lock = p /\ Working(p) /\ run[p] \in Run
    BY <1>6, <1>13 DEF Merge
  <2>2. head' \in Versions
    BY <1>0, <1>13, <2>1 DEF Merge, TypeOK, Run
  <2> QED BY <1>0, <1>5, <1>13, <2>1, <2>2 DEF Merge, Fail, TypeOK, Phases, Rollback
<1>14. ASSUME NEW p \in Runs, Reexec(p) PROVE TypeOK'
  <2>1. run[p] \in Run
    BY <1>6, <1>14 DEF Reexec
  <2>2. run' \in [Runs -> Run \cup {Off}]
    BY <1>0, <1>14, <2>1 DEF Reexec, TypeOK, Run, Phases
  <2> QED BY <1>0, <1>14, <2>2 DEF Reexec, TypeOK
<1>15. ASSUME NEW p \in Runs, InstallDeps(p) PROVE TypeOK'
  <2>1. lock = p /\ Working(p)
    BY <1>6, <1>15 DEF InstallDeps
  <2> QED BY <1>0, <1>5, <1>15, <2>1 DEF InstallDeps, Fail, TypeOK, Phases, Rollback
<1>16. ASSUME NEW p \in Runs, Migrate(p) PROVE TypeOK'
  <2>1. lock = p /\ Working(p) /\ run[p] \in Run
    BY <1>6, <1>16 DEF Migrate
  <2>2. PICK a \in {"health", "reset"} :
            run' = [run EXCEPT ![p].at = a, ![p].touched = TRUE]
    BY <1>16 DEF Migrate
  <2> DEFINE r == [run[p] EXCEPT !.at = a, !.touched = TRUE]
  <2>3. r \in Run /\ r.at # "lock"
    BY <2>1 DEF Run, Phases, Rollback
  <2>4. run' = [run EXCEPT ![p] = r]
    BY <1>0, <2>2 DEF TypeOK
  <2>5. schema' \in Versions \cup {Torn}
    BY <1>0, <1>16 DEF Migrate, TypeOK
  <2> HIDE DEF r
  <2> QED BY <1>0, <1>4, <1>16, <2>1, <2>3, <2>4, <2>5 DEF Migrate, TypeOK
<1>17. ASSUME NEW p \in Runs, Health(p) PROVE TypeOK'
  <2>1. lock = p /\ Working(p)
    BY <1>6, <1>17 DEF Health
  <2> QED BY <1>0, <1>5, <1>17, <2>1 DEF Health, Fail, TypeOK, Phases, Rollback
<1>18. ASSUME NEW p \in Runs, Encrypt(p) PROVE TypeOK'
  <2>1. lock = p /\ Working(p)
    BY <1>6, <1>18 DEF Encrypt
  <2> QED BY <1>0, <1>5, <1>18, <2>1 DEF Encrypt, Encrypted, TypeOK, Phases
<1>19. ASSUME NEW p \in Runs, Restart(p) \/ Report(p) PROVE TypeOK'
  BY <1>0, <1>3, <1>19 DEF Restart, Report, TypeOK
<1>20. ASSUME NEW p \in Runs, Reset(p) PROVE TypeOK'
  <2>1. lock = p /\ Working(p) /\ run[p] \in Run
    BY <1>6, <1>20 DEF Reset
  <2>2. head' \in Versions
    BY <1>0, <1>20, <2>1 DEF Reset, TypeOK, Run
  <2> QED BY <1>0, <1>3, <1>5, <1>20, <2>1, <2>2 DEF Reset, TypeOK, Phases, Rollback
<1>21. ASSUME NEW p \in Runs, DepsBack(p) PROVE TypeOK'
  <2>1. lock = p /\ Working(p) /\ run[p] \in Run
    BY <1>6, <1>21 DEF DepsBack
  <2> DEFINE r == [run[p] EXCEPT !.at = IF run[p].touched THEN "restore" ELSE "report",
                                 !.db = IF run[p].touched THEN @ ELSE "untouched"]
  <2>2. r \in Run /\ r.at # "lock"
    BY <2>1 DEF Run, Phases, Rollback, Outcomes
  <2>3. run' = [run EXCEPT ![p] = r]
    BY <1>0, <1>21, <2>1 DEF DepsBack, TypeOK, Run
  <2> HIDE DEF r
  <2> QED BY <1>0, <1>4, <1>21, <2>1, <2>2, <2>3 DEF DepsBack, TypeOK
<1>22. ASSUME NEW p \in Runs, Restore(p) PROVE TypeOK'
  <2>1. lock = p /\ Working(p) /\ run[p] \in Run
    BY <1>6, <1>22 DEF Restore
  <2>2. PICK d \in {"restored", "lost"} :
            run' = [run EXCEPT ![p].at = "report", ![p].db = d]
    BY <1>22 DEF Restore
  <2> DEFINE r == [run[p] EXCEPT !.at = "report", !.db = d]
  <2>3. r \in Run /\ r.at # "lock"
    BY <2>1 DEF Run, Phases, Rollback, Outcomes
  <2>4. run' = [run EXCEPT ![p] = r]
    BY <1>0, <2>2 DEF TypeOK
  <2>5. schema' \in Versions \cup {Torn}
    BY <1>0, <1>22, <2>1 DEF Restore, TypeOK, Run
  <2> HIDE DEF r
  <2> QED BY <1>0, <1>4, <1>22, <2>1, <2>3, <2>4, <2>5 DEF Restore, TypeOK
<1>23. CASE Push \/ Reboot \/ UNCHANGED vars
  BY <1>0, <1>23 DEF Push, Reboot, vars, TypeOK
<1> QED
  BY <1>1, <1>2, <1>7, <1>8, <1>9, <1>10, <1>11, <1>12, <1>13, <1>14, <1>15, <1>16, <1>17,
     <1>18, <1>19, <1>20, <1>21, <1>22, <1>23 DEF Next, Step

-----------------------------------------------------------------------------
(* The other parts.                                                        *)

(* After a step of the run that holds the lock only that run is to be looked
   at: nobody else was at work, and nobody else has moved.                   *)
LEMMA AloneStep ==
    ASSUME UpdaterInv, TypeOK', NEW p \in Runs, NEW ph, At(p, ph), ph \notin {"off", "lock"},
           Others(p), Working(p)' => lock' = p,
           head' \in Signed, format' <= head', head' <= remote',
           Trusted(p)', Engaged(p)' => Readable(p)' /\ Restorable(p)'
    PROVE  UpdaterInv'
<1>1. \A q \in Runs \ {p} : run'[q] = run[q] /\ ~Engaged(q)'
  BY Alone DEF Others, Engaged, Working, Relocking
<1>2. Exclusive'
  BY <1>1 DEF Exclusive, Engaged
<1>3. \A q \in Runs : Trusted(q)'
  BY <1>1 DEF UpdaterInv, Trusted
<1> QED BY <1>1, <1>2, <1>3 DEF UpdaterInv

(* A run that ends leaves code and uploads as they should be.                *)
LEMMA ExitInv ==
    ASSUME UpdaterInv, TypeOK', NEW p \in Runs, NEW ph, At(p, ph), ph \notin {"off", "lock"},
           Exit(p), head' \in Signed, format' <= head', head' <= remote'
    PROVE  UpdaterInv'
<1>1. TypeOK
  BY DEF UpdaterInv
<1>2. /\ Others(p) /\ run'[p] = Off /\ ~Engaged(p)'
  BY <1>1, ExitStep
<1>3. Trusted(p)' /\ ~Working(p)'
  BY <1>2 DEF Trusted, Engaged
<1> QED BY <1>2, <1>3, AloneStep

(* A run that only moves to phase a, with code and database as they are.     *)
LEMMA GotoInv ==
    ASSUME UpdaterInv, TypeOK', NEW p \in Runs, NEW ph, At(p, ph), ph \notin {"off", "lock"},
           NEW a \in Phases, Goto(p, a), UNCHANGED <<lock, remote>>,
           head' \in Signed, format' <= head', head' <= remote',
           a = "merge" => run[p].target \in Signed,
           [run[p] EXCEPT !.at = a] = run'[p] => Readable(p)' /\ Restorable(p)'
    PROVE  UpdaterInv'
<1>1. TypeOK /\ lock = p /\ Working(p) /\ run[p] \in Run
  BY Alone, RunFields DEF UpdaterInv, At
<1>2. /\ Others(p) /\ run'[p] \in Run /\ run'[p] = [run[p] EXCEPT !.at = a]
  BY <1>1, GotoStep DEF At, Working
<1>3. run'[p].prev = run[p].prev /\ run'[p].target = run[p].target /\ run'[p].at = a
  BY <1>1, <1>2 DEF Run
<1>4. run[p] # Off
  BY <1>1, Past DEF Working
<1>5. Trusted(p)'
  BY <1>3, <1>4 DEF UpdaterInv, Trusted
<1> QED BY <1>1, <1>2, <1>5, AloneStep

LEMMA InvStep == UpdaterInv /\ [Next]_vars => UpdaterInv'
<1> SUFFICES ASSUME UpdaterInv, [Next]_vars PROVE UpdaterInv'
  OBVIOUS
<1> USE DEF files
<1>0. TypeOK /\ TypeOK' /\ head \in Signed /\ format <= head /\ head <= remote
  BY TypeStep DEF UpdaterInv
<1>1. ASSUME NEW p \in Runs, Start(p) PROVE UpdaterInv'
  <2>1. Others(p) /\ run'[p].at = "lock" /\ ~run'[p].resume /\ run'[p].prev = head
    BY <1>0, <1>1 DEF Start, TypeOK, Others
  <2>2. ~Engaged(p)' /\ Trusted(p)' /\ ~Working(p)
    BY <1>0, <1>1, <2>1 DEF Engaged, Working, Relocking, Trusted, Start, Off
  <2>3. \A q \in Runs \ {p} : /\ run'[q] = run[q] /\ (Engaged(q)' <=> Engaged(q))
                              /\ (Working(q)' <=> Working(q))
    BY <2>1 DEF Others, Engaged, Working, Relocking
  <2>4. UNCHANGED <<remote, head, deps, schema, format, archives, lock>>
    BY <1>1 DEF Start
  <2>5. Exclusive'
    BY <2>2, <2>3, <2>4 DEF UpdaterInv, Exclusive, Engaged
  <2>6. \A q \in Runs : Trusted(q)'
    BY <2>2, <2>3 DEF UpdaterInv, Trusted
  <2>7. \A q \in Runs : Engaged(q)' => Readable(q)' /\ Restorable(q)'
    BY <2>2, <2>3, <2>4 DEF UpdaterInv, Readable, Restorable
  <2> QED BY <1>0, <2>4, <2>5, <2>6, <2>7 DEF UpdaterInv
<1>2. ASSUME NEW p \in Runs, Lock(p) PROVE UpdaterInv'
  <2>1. run[p] \in Run /\ run[p].at = "lock" /\ run[p] # Off
    BY <1>0, <1>2, RunFields DEF Lock, Off
  <2>2. UNCHANGED <<remote, head, deps, schema, format, archives>> /\ Others(p)
    BY <1>0, <1>2 DEF Lock, TypeOK, Others
  <2>3. \A q \in Runs \ {p} : /\ run'[q] = run[q] /\ (Engaged(q)' <=> Engaged(q))
                              /\ (Working(q)' <=> Working(q))
    BY <2>2 DEF Others, Engaged, Working, Relocking
  <2>4. \A q \in Runs \ {p} : Engaged(q)' => Readable(q)' /\ Restorable(q)'
    BY <2>2, <2>3 DEF UpdaterInv, Readable, Restorable
  <2>5. CASE lock = Nobody
    <3>1. /\ lock' = p
          /\ run'[p] = [run[p] EXCEPT !.at = FirstPhase(p),
                                      !.prev = IF run[p].resume THEN @ ELSE head]
      BY <1>0, <1>2, <2>1, <2>5 DEF Lock, TypeOK, Run
    <3>2. \A q \in Runs : ~Working(q)
      BY <2>5, UpdaterAssumption DEF UpdaterInv, Exclusive
    <3>3. Exclusive'
      BY <2>3, <3>1, <3>2 DEF Exclusive
    <3>4. Trusted(p)'
      BY <1>0, <2>1, <3>1 DEF UpdaterInv, Trusted, Run, FirstPhase
    <3>5. Readable(p)' /\ Restorable(p)'
      <4>1. CASE run[p].resume
        <5>1. Readable(p) /\ Restorable(p)
          BY <2>1, <4>1 DEF UpdaterInv, Engaged, Relocking
        <5> QED BY <2>1, <2>2, <3>1, <4>1, <5>1
            DEF Readable, Restorable, Unmigrated, Run, FirstPhase
      <4>2. CASE ~run[p].resume
        BY <1>0, <2>1, <2>2, <3>1, <4>2
        DEF Readable, Restorable, Unmigrated, Run, FirstPhase, TypeOK
      <4> QED BY <4>1, <4>2
    <3>6. \A q \in Runs : Trusted(q)'
      BY <2>3, <3>4 DEF UpdaterInv, Trusted
    <3> QED BY <1>0, <2>2, <2>4, <3>3, <3>5, <3>6 DEF UpdaterInv
  <2>6. CASE lock # Nobody
    <3>1. run'[p] = Off /\ lock' = lock
      BY <1>0, <1>2, <2>6 DEF Lock, TypeOK
    <3>2. ~Engaged(p)' /\ ~Working(p)' /\ Trusted(p)'
      BY <3>1 DEF Engaged, Working, Relocking, Trusted, Off
    <3>3. Exclusive' /\ \A q \in Runs : Trusted(q)'
      BY <2>3, <3>1, <3>2 DEF UpdaterInv, Exclusive, Trusted
    <3> QED BY <1>0, <2>2, <2>4, <3>2, <3>3 DEF UpdaterInv
  <2> QED BY <2>5, <2>6
<1>3. ASSUME NEW p \in Runs, Check(p) PROVE UpdaterInv'
  <2>1. At(p, "check") /\ UNCHANGED <<remote, head, schema, format>> /\ Readable(p) /\ Restorable(p)
    BY <1>3, Alone DEF Check, UpdaterInv, Engaged
  <2>2. CASE Exit(p)
    BY <1>0, <2>1, <2>2, ExitInv
  <2>3. ASSUME NEW a \in {"deps", "current", "backup"}, a = "deps" => run[p].resume,
               Goto(p, a), UNCHANGED lock
        PROVE  UpdaterInv'
    <3>1. run[p] \in Run /\ run[p].at = "check"
      BY <1>0, <2>1, RunFields DEF At
    <3>2. ASSUME [run[p] EXCEPT !.at = a] = run'[p] PROVE Readable(p)' /\ Restorable(p)'
      BY <2>1, <2>3, <3>1, <3>2 DEF Readable, Restorable, Unmigrated, Run
    <3> QED BY <1>0, <2>1, <2>3, <3>2, GotoInv DEF Phases
  <2> QED BY <1>3, <2>2, <2>3 DEF Check
<1>4. ASSUME NEW p \in Runs, Current(p) PROVE UpdaterInv'
  <2>1. At(p, "current") /\ Exit(p) /\ UNCHANGED <<remote, head>>
    BY <1>4 DEF Current
  <2>2. format' <= head
    BY <1>0, <1>4 DEF Current, Encrypted, TypeOK, Versions
  <2> QED BY <1>0, <2>1, <2>2, ExitInv
<1>5. ASSUME NEW p \in Runs, Backup(p) PROVE UpdaterInv'
  <2>1. At(p, "backup") /\ UNCHANGED <<remote, head, schema, format>> /\ Readable(p) /\ Restorable(p)
    BY <1>5, Alone DEF Backup, UpdaterInv, Engaged
  <2>2. CASE Exit(p)
    BY <1>0, <2>1, <2>2, ExitInv
  <2>3. CASE Goto(p, "prune") /\ UNCHANGED lock
    <3>1. run[p] \in Run /\ run[p].at = "backup"
      BY <1>0, <2>1, RunFields DEF At
    <3>2. ASSUME [run[p] EXCEPT !.at = "prune"] = run'[p] PROVE Readable(p)' /\ Restorable(p)'
      BY <2>1, <3>1, <3>2 DEF Readable, Restorable, Unmigrated, Run
    <3> QED BY <1>0, <2>1, <2>3, <3>2, GotoInv DEF Phases
  <2> QED BY <1>5, <2>2, <2>3 DEF Backup
<1>6. ASSUME NEW p \in Runs, Prune(p) PROVE UpdaterInv'
  <2>1. At(p, "prune") /\ UNCHANGED <<remote, head, schema, format>> /\ Readable(p) /\ lock = p
    BY <1>6, Alone DEF Prune, UpdaterInv, Engaged
  <2>2. CASE Exit(p)
    BY <1>0, <2>1, <2>2, ExitInv
  <2>3. CASE run' = [run EXCEPT ![p].at = "fetch", ![p].before = schema] /\ UNCHANGED lock
    <3>1. run[p] \in Run /\ run[p].at = "prune" /\ run[p] # Off
      BY <1>0, <2>1, RunFields, Past DEF At
    <3>2. Others(p) /\ run'[p] = [run[p] EXCEPT !.at = "fetch", !.before = schema]
      BY <1>0, <2>3, <3>1 DEF TypeOK, Others
    <3>3. Trusted(p)' /\ Readable(p)' /\ Restorable(p)'
      BY <2>1, <3>1, <3>2 DEF UpdaterInv, Trusted, Readable, Restorable, Run
    <3> QED BY <1>0, <2>1, <2>3, <3>2, <3>3, AloneStep
  <2> QED BY <1>6, <2>2, <2>3 DEF Prune
<1>7. ASSUME NEW p \in Runs, Fetch(p) PROVE UpdaterInv'
  <2>1. /\ At(p, "fetch") /\ UNCHANGED <<remote, head, schema, format>>
        /\ Readable(p) /\ Restorable(p) /\ lock = p
    BY <1>7, Alone DEF Fetch, UpdaterInv, Engaged
  <2>2. CASE Exit(p)
    BY <1>0, <2>1, <2>2, ExitInv
  <2>3. CASE /\ run' = [run EXCEPT ![p].at = IF remote = head THEN "deps" ELSE "verify",
                                   ![p].target = remote]
             /\ UNCHANGED lock
    <3>1. run[p] \in Run /\ run[p].at = "fetch" /\ run[p] # Off
      BY <1>0, <2>1, RunFields, Past DEF At
    <3>2. Others(p) /\ run'[p] = [run[p] EXCEPT !.at = IF remote = head THEN "deps" ELSE "verify",
                                                !.target = remote]
      BY <1>0, <2>3, <3>1 DEF TypeOK, Others
    <3>3. Trusted(p)' /\ Restorable(p)'
      BY <2>1, <3>1, <3>2 DEF UpdaterInv, Trusted, Restorable, Unmigrated, Run
    <3>4. Readable(p)'
      BY <1>0, <2>1, <3>1, <3>2 DEF Readable, Run, TypeOK, Versions
    <3> QED BY <1>0, <2>1, <2>3, <3>2, <3>3, <3>4, AloneStep
  <2> QED BY <1>7, <2>2, <2>3 DEF Fetch
<1>8. ASSUME NEW p \in Runs, Verify(p) PROVE UpdaterInv'
  <2>1. At(p, "verify") /\ UNCHANGED <<remote, head, schema, format>> /\ Readable(p) /\ Restorable(p)
    BY <1>8, Alone DEF Verify, UpdaterInv, Engaged
  <2>2. CASE Exit(p)
    BY <1>0, <2>1, <2>2, ExitInv
  <2>3. CASE Goto(p, "merge") /\ UNCHANGED lock /\ run[p].target \in Signed
    <3>1. run[p] \in Run /\ run[p].at = "verify"
      BY <1>0, <2>1, RunFields DEF At
    <3>2. ASSUME [run[p] EXCEPT !.at = "merge"] = run'[p] PROVE Readable(p)' /\ Restorable(p)'
      BY <2>1, <3>1, <3>2 DEF Readable, Restorable, Unmigrated, Run
    <3> QED BY <1>0, <2>1, <2>3, <3>2, GotoInv DEF Phases
  <2> QED BY <1>8, <2>2, <2>3 DEF Verify
<1>9. ASSUME NEW p \in Runs, Merge(p) PROVE UpdaterInv'
  <2>1. /\ At(p, "merge") /\ UNCHANGED <<remote, schema, format>> /\ lock' = lock
        /\ Readable(p) /\ Restorable(p)
    BY <1>9, Alone DEF Merge, Fail, UpdaterInv, Engaged
  <2>2. run[p] \in Run /\ run[p].at = "merge" /\ run[p].target \in Signed
    BY <1>0, <2>1, RunFields, Past DEF At, UpdaterInv, Trusted
  <2>3. PICK a \in {"reset", "reexec", "deps"} :
            Goto(p, a) /\ IF a = "reset" THEN head' = head ELSE head' = run[p].target
    BY <1>9 DEF Merge, Fail
  <2>4. head' \in Signed /\ format' <= head' /\ head' <= remote'
    BY <1>0, <2>1, <2>2, <2>3 DEF Readable, TypeOK, Run, Versions
  <2>5. ASSUME [run[p] EXCEPT !.at = a] = run'[p] PROVE Readable(p)' /\ Restorable(p)'
    BY <2>1, <2>2, <2>3, <2>5 DEF Readable, Restorable, Unmigrated, Run
  <2> QED BY <1>0, <2>1, <2>3, <2>4, <2>5, GotoInv DEF Phases, Rollback
<1>10. ASSUME NEW p \in Runs, Reexec(p) PROVE UpdaterInv'
  <2>1. /\ At(p, "reexec") /\ UNCHANGED <<remote, head, schema, format>>
        /\ Readable(p) /\ Restorable(p)
    BY <1>10, Alone DEF Reexec, UpdaterInv, Engaged
  <2>2. run[p] \in Run /\ run[p].at = "reexec" /\ run[p] # Off
    BY <1>0, <2>1, RunFields, Past DEF At
  <2>3. Others(p) /\ run'[p] = [run[p] EXCEPT !.at = "lock", !.resume = TRUE]
    BY <1>0, <1>10, <2>2 DEF Reexec, TypeOK, Others
  <2>4. ~Working(p)' /\ Trusted(p)' /\ Readable(p)' /\ Restorable(p)'
    BY <2>1, <2>2, <2>3
    DEF Working, UpdaterInv, Trusted, Readable, Restorable, Unmigrated, Run
  <2> QED BY <1>0, <2>1, <2>3, <2>4, AloneStep
<1>11. ASSUME NEW p \in Runs, InstallDeps(p) PROVE UpdaterInv'
  <2>1. /\ At(p, "deps") /\ UNCHANGED <<remote, head, schema, format, lock>>
        /\ Readable(p) /\ Restorable(p)
    BY <1>11, Alone DEF InstallDeps, Fail, UpdaterInv, Engaged
  <2>2. run[p] \in Run /\ run[p].at = "deps"
    BY <1>0, <2>1, RunFields DEF At
  <2>3. PICK a \in {"migrate", "reset"} : Goto(p, a)
    BY <1>11 DEF InstallDeps, Fail
  <2>4. ASSUME [run[p] EXCEPT !.at = a] = run'[p] PROVE Readable(p)' /\ Restorable(p)'
    BY <2>1, <2>2, <2>4 DEF Readable, Restorable, Unmigrated, Run
  <2> QED BY <1>0, <2>1, <2>3, <2>4, GotoInv DEF Phases, Rollback
<1>12. ASSUME NEW p \in Runs, Migrate(p) PROVE UpdaterInv'
  <2>1. At(p, "migrate") /\ UNCHANGED <<remote, head, format>> /\ Readable(p) /\ lock' = p
    BY <1>12, Alone DEF Migrate, UpdaterInv, Engaged
  <2>2. run[p] \in Run /\ run[p].at = "migrate" /\ run[p] # Off
    BY <1>0, <2>1, RunFields, Past DEF At
  <2>3. PICK a \in {"health", "reset"} :
            run' = [run EXCEPT ![p].at = a, ![p].touched = TRUE]
    BY <1>12 DEF Migrate
  <2>4. Others(p) /\ run'[p] = [run[p] EXCEPT !.at = a, !.touched = TRUE]
    BY <1>0, <2>2, <2>3 DEF TypeOK, Others
  <2>5. Trusted(p)' /\ Readable(p)' /\ Restorable(p)'
    BY <2>1, <2>2, <2>4 DEF UpdaterInv, Trusted, Readable, Restorable, Unmigrated, Run
  <2> QED BY <1>0, <2>1, <2>4, <2>5, AloneStep
<1>13. ASSUME NEW p \in Runs, Health(p) PROVE UpdaterInv'
  <2>1. /\ At(p, "health") /\ UNCHANGED <<remote, head, schema, format, lock>>
        /\ Readable(p) /\ Restorable(p)
    BY <1>13, Alone DEF Health, Fail, UpdaterInv, Engaged
  <2>2. run[p] \in Run /\ run[p].at = "health"
    BY <1>0, <2>1, RunFields DEF At
  <2>3. PICK a \in {"encrypt", "reset"} : Goto(p, a)
    BY <1>13 DEF Health, Fail
  <2>4. ASSUME [run[p] EXCEPT !.at = a] = run'[p] PROVE Readable(p)' /\ Restorable(p)'
    BY <2>1, <2>2, <2>4 DEF Readable, Restorable, Unmigrated, Run
  <2> QED BY <1>0, <2>1, <2>3, <2>4, GotoInv DEF Phases, Rollback
<1>14. ASSUME NEW p \in Runs, Encrypt(p) PROVE UpdaterInv'
  <2>1. /\ At(p, "encrypt") /\ UNCHANGED <<remote, head, schema, lock>>
        /\ Readable(p) /\ Restorable(p)
    BY <1>14, Alone DEF Encrypt, UpdaterInv, Engaged
  <2>2. run[p] \in Run /\ run[p].at = "encrypt"
    BY <1>0, <2>1, RunFields DEF At
  <2>3. format' <= head
    BY <1>0, <1>14 DEF Encrypt, Encrypted, TypeOK, Versions
  <2>4. ASSUME [run[p] EXCEPT !.at = "restart"] = run'[p] PROVE Readable(p)' /\ Restorable(p)'
    BY <2>1, <2>2, <2>4 DEF Readable, Restorable, Unmigrated, Run
  <2> QED BY <1>0, <1>14, <2>1, <2>3, <2>4, GotoInv DEF Encrypt, Phases
<1>15. ASSUME NEW p \in Runs, Restart(p) \/ Report(p) PROVE UpdaterInv'
  BY <1>0, <1>15, ExitInv DEF Restart, Report
<1>16. ASSUME NEW p \in Runs, Reset(p) PROVE UpdaterInv'
  <2>1. /\ At(p, "reset") /\ UNCHANGED <<remote, schema, format>>
        /\ Readable(p) /\ Restorable(p)
    BY <1>16, Alone DEF Reset, UpdaterInv, Engaged
  <2>2. run[p] \in Run /\ run[p].at = "reset" /\ run[p].prev \in Signed
    BY <1>0, <2>1, RunFields, Past DEF At, UpdaterInv, Trusted
  <2>3. CASE Exit(p) /\ UNCHANGED head
    BY <1>0, <2>1, <2>3, ExitInv
  <2>4. CASE head' = run[p].prev /\ Goto(p, "depsBack") /\ UNCHANGED lock
    <3>1. head' \in Signed /\ format' <= head' /\ head' <= remote'
      BY <2>1, <2>2, <2>4 DEF Readable
    <3>2. ASSUME [run[p] EXCEPT !.at = "depsBack"] = run'[p] PROVE Readable(p)' /\ Restorable(p)'
      BY <2>1, <2>2, <2>4, <3>2 DEF Readable, Restorable, Unmigrated, Run
    <3> QED BY <1>0, <2>1, <2>4, <3>1, <3>2, GotoInv DEF Phases, Rollback
  <2> QED BY <1>16, <2>3, <2>4 DEF Reset
<1>17. ASSUME NEW p \in Runs, DepsBack(p) PROVE UpdaterInv'
  <2>1. /\ At(p, "depsBack") /\ UNCHANGED <<remote, head, schema, format>>
        /\ Readable(p) /\ Restorable(p) /\ lock' = p
    BY <1>17, Alone DEF DepsBack, UpdaterInv, Engaged
  <2>2. run[p] \in Run /\ run[p].at = "depsBack" /\ run[p] # Off
    BY <1>0, <2>1, RunFields, Past DEF At
  <2>3. Others(p) /\ run'[p] = [run[p] EXCEPT
                          !.at = IF run[p].touched THEN "restore" ELSE "report",
                          !.db = IF run[p].touched THEN @ ELSE "untouched"]
    BY <1>0, <1>17, <2>2 DEF DepsBack, TypeOK, Others, Run
  <2>4. Trusted(p)' /\ Readable(p)' /\ Restorable(p)'
    BY <2>1, <2>2, <2>3 DEF UpdaterInv, Trusted, Readable, Restorable, Unmigrated, Run
  <2> QED BY <1>0, <2>1, <2>3, <2>4, AloneStep
<1>18. ASSUME NEW p \in Runs, Restore(p) PROVE UpdaterInv'
  <2>1. /\ At(p, "restore") /\ UNCHANGED <<remote, head, format>>
        /\ Readable(p) /\ Restorable(p) /\ lock' = p
    BY <1>18, Alone DEF Restore, UpdaterInv, Engaged
  <2>2. run[p] \in Run /\ run[p].at = "restore" /\ run[p] # Off
    BY <1>0, <2>1, RunFields, Past DEF At
  <2>3. PICK d \in {"restored", "lost"} :
            /\ run' = [run EXCEPT ![p].at = "report", ![p].db = d]
            /\ d = "restored" => schema' = run[p].before
    BY <1>18 DEF Restore
  <2>4. Others(p) /\ run'[p] = [run[p] EXCEPT !.at = "report", !.db = d]
    BY <1>0, <2>2, <2>3 DEF TypeOK, Others
  <2>5. /\ run'[p].at = "report" /\ run'[p].db = d
        /\ run'[p].prev = run[p].prev /\ run'[p].before = run[p].before
    BY <2>2, <2>4 DEF Run
  <2>6. Trusted(p)' /\ Readable(p)'
    BY <2>1, <2>2, <2>5 DEF UpdaterInv, Trusted, Readable
  <2>7. Restorable(p)'
    BY <2>1, <2>2, <2>3, <2>5 DEF Restorable, Unmigrated
  <2> QED BY <1>0, <2>1, <2>4, <2>6, <2>7, AloneStep
<1>19. CASE Push
  <2>1. /\ UNCHANGED <<head, deps, schema, format, archives, lock, run>>
        /\ remote \in Nat /\ remote' \in Nat /\ remote < remote'
    BY <1>0, <1>19 DEF Push, TypeOK, Versions
  <2>2. Exclusive' /\ \A p \in Runs : Trusted(p)'
    BY <2>1 DEF UpdaterInv, Exclusive, Working, Trusted
  <2>3. ASSUME NEW p \in Runs, Engaged(p)' PROVE Readable(p)' /\ Restorable(p)'
    <3>1. Engaged(p)
      BY <2>1, <2>3 DEF Engaged, Working, Relocking
    <3>2. run[p].prev \in Nat /\ run[p].target \in Nat
      <4>1. run[p].at # "off"
        BY <3>1 DEF Engaged, Working, Relocking
      <4> QED BY <1>0, <4>1, RunFields DEF Versions
    <3> QED BY <2>1, <3>1, <3>2 DEF UpdaterInv, Readable, Restorable
  <2>4. head \in Nat
    BY <1>0 DEF TypeOK, Versions
  <2> QED BY <1>0, <2>1, <2>2, <2>3, <2>4 DEF UpdaterInv
<1>20. CASE Reboot
  <2>1. UNCHANGED <<remote, head, format>> /\ \A p \in Runs : run'[p] = Off
    BY <1>20 DEF Reboot
  <2> QED BY <1>0, <2>1
      DEF UpdaterInv, Exclusive, Trusted, Engaged, Working, Relocking, Off
<1>21. CASE UNCHANGED vars
  BY <1>0, <1>21
  DEF vars, UpdaterInv, Exclusive, Trusted, Engaged, Working, Relocking, Readable, Restorable
<1> QED
  BY <1>1, <1>2, <1>3, <1>4, <1>5, <1>6, <1>7, <1>8, <1>9, <1>10, <1>11, <1>12, <1>13,
     <1>14, <1>15, <1>16, <1>17, <1>18, <1>19, <1>20, <1>21 DEF Next, Step

(* Every variable holds what the comments of the module say.                 *)
THEOREM TypeCorrect == Spec => []TypeOK
<1>1. UpdaterInv => TypeOK
  BY DEF UpdaterInv
<1> QED BY <1>1, InitInv, InvStep, PTL DEF Spec

(* "Only one update at a time (cron + manual run)" (update.sh:389), also when a
   script hands over to its new version and lets go of the lock for a moment. *)
THEOREM OneAtATime == Spec => []OneUpdateAtATime
<1>1. UpdaterInv => OneUpdateAtATime
  BY OffOrAt DEF UpdaterInv, OneUpdateAtATime, Exclusive, Working
<1> QED BY <1>1, InitInv, InvStep, PTL DEF Spec

(* "Only a fast-forward to a commit signed by a trusted key is accepted"
   (update.sh:13): rollbacks included, only signed versions are checked out.   *)
THEOREM OnlyVerifiedCode == Spec => []VerifiedCode
<1>1. UpdaterInv => VerifiedCode
  BY DEF UpdaterInv, VerifiedCode
<1> QED BY <1>1, InitInv, InvStep, PTL DEF Spec

(* The code can always read the uploads: no rollback goes behind the version
   whose encrypt-legacy has run (update.sh:486).                              *)
THEOREM UploadsStayReadable == Spec => []ReadableUploads
<1>1. UpdaterInv => ReadableUploads
  BY DEF UpdaterInv, ReadableUploads
<1> QED BY <1>1, InitInv, InvStep, PTL DEF Spec

(* What a rollback reports of the database is true (update.sh:344).          *)
THEOREM RollbackIsExact == Spec => []RollbackExact
<1>1. UpdaterInv => RollbackExact
  BY DEF UpdaterInv, RollbackExact, Engaged, Working, Restorable
<1> QED BY <1>1, InitInv, InvStep, PTL DEF Spec

=============================================================================
