--------------------------- MODULE SiteText_proofs ----------------------------
(* Proofs about SiteText, for any number of editors, any keys and texts and
   any length of the history.                                                *)
EXTENDS SiteText, FiniteSetTheorems, TLAPS

-----------------------------------------------------------------------------
(* Texts, rows and jobs.                                                   *)

LEMMA InPartial ==
    ASSUME NEW D, NEW R, NEW f
    PROVE  f \in Partial(D, R) <=> DOMAIN f \subseteq D /\ f \in [DOMAIN f -> R]
BY DEF Partial

(* The marker of "no row" is not a row.                                      *)
LEMMA NoRowApart == NoRow \notin Pairs /\ NoText \in Pairs
BY SiteTextAssumption DEF NoRow, NoText, Pairs

LEMMA FingerprintPair ==
    ASSUME NEW r \in Rows
    PROVE  Fingerprint(r) \in Pairs
BY NoRowApart DEF Fingerprint, Rows

LEMMA TargetPair == Targets \subseteq Pairs
BY DEF Targets, EffectivePair, Effective, Fields, Pairs

LEMMA RevertedPair ==
    ASSUME NEW p \in Pairs
    PROVE  EffectivePair(p) \in Pairs
BY DEF EffectivePair, Effective, Pairs

LEMMA JobFields ==
    ASSUME TypeOK, NEW e \in Editors
    PROVE  /\ job[e].at \in {"idle", "page", "find", "write"}
           /\ job[e].at = "page" => job[e].shown \in Shown
           /\ job[e].at \in {"find", "write"} =>
                /\ job[e].op \in {"save", "revert", "import"}
                /\ job[e].plan \in Plans /\ job[e].seen \in Seen /\ job[e].shown \in Shown
           /\ job[e].at = "find" =>
                job[e] \in [at: {"find"}, op: {"save", "revert", "import"},
                            plan: Plans, seen: Seen, shown: Shown]
           /\ job[e].at = "write" => job[e].first \in Keys /\ job[e].found \in Rows
BY DEF TypeOK, JobType, Idle

(* Retention keeps the newest revision, and no more than Kept.               *)
LEMMA PruneLast ==
    ASSUME NEW s \in Seq(Pairs), s # <<>>
    PROVE  /\ Prune(s) \in Seq(Pairs) /\ Len(Prune(s)) <= Kept /\ Prune(s) # <<>>
           /\ Prune(s)[Len(Prune(s))] = s[Len(s)]
<1>1. Len(s) \in Nat \ {0} /\ Kept \in Nat \ {0}
  BY SiteTextAssumption
<1>2. CASE Len(s) <= Kept
  BY <1>1, <1>2 DEF Prune
<1>3. CASE Len(s) > Kept
  <2> DEFINE t == SubSeq(s, Len(s) - Kept + 1, Len(s))
  <2>1. Len(s) - Kept + 1 \in 1..Len(s)
    BY <1>1, <1>3
  <2>2. t \in Seq(Pairs) /\ Len(t) = Kept
    BY <1>1, <2>1
  <2>3. t[Kept] = s[Len(s)]
    BY <1>1, <2>1
  <2>4. Prune(s) = t
    BY <1>1, <1>3 DEF Prune
  <2> HIDE DEF t
  <2> QED BY <1>1, <2>2, <2>3, <2>4
<1> QED BY <1>1, <1>2, <1>3

LEMMA RecordLast ==
    ASSUME TypeOK, NEW k \in Keys, NEW p \in Pairs
    PROVE  LET s == Record(k, p) IN
           s \in Seq(Pairs) /\ Len(s) <= Kept /\ s # <<>> /\ s[Len(s)] = p
<1> DEFINE s == Append(revs[k], p)
<1>1. s \in Seq(Pairs) /\ s # <<>> /\ s[Len(s)] = p
  BY DEF TypeOK
<1> HIDE DEF s
<1>2. Record(k, p) = Prune(s)
  BY DEF Record, s
<1> QED BY <1>1, <1>2, PruneLast

-----------------------------------------------------------------------------
(* Types.                                                                  *)

LEMMA TypeInit == Init => TypeOK
<1> SUFFICES ASSUME Init PROVE TypeOK
  OBVIOUS
<1> USE DEF TypeOK
<1>1. PICK old \in [Keys \ Known -> {p \in Pairs : Valid(p)} \ {NoText}] :
        /\ row = [k \in Keys |-> IF k \in Known THEN NoRow ELSE old[k]]
        /\ revs = [k \in Keys |-> IF k \in Known THEN <<>> ELSE <<old[k]>>]
        /\ job = [e \in Editors |-> Idle]
        /\ raced = [e \in Editors |-> {}]
        /\ torn = {}
  BY DEF Init
<1>2. \A k \in Keys : revs[k] \in Seq(Pairs) /\ Len(revs[k]) <= Kept
  <2> SUFFICES ASSUME NEW k \in Keys PROVE revs[k] \in Seq(Pairs) /\ Len(revs[k]) <= Kept
    OBVIOUS
  <2>1. CASE k \in Known
    BY <1>1, <2>1, SiteTextAssumption
  <2>2. CASE k \notin Known
    <3>1. revs[k] = <<old[k]>> /\ old[k] \in Pairs
      BY <1>1, <2>2
    <3> QED BY <3>1, SiteTextAssumption
  <2> QED BY <2>1, <2>2
<1> QED BY <1>1, <1>2 DEF JobType, Rows

LEMMA TurnType ==
    ASSUME TypeOK, NEW e, NEW j \in JobType, Turn(e, j)
    PROVE  job' \in [Editors -> JobType]
BY DEF TypeOK, Turn

LEMMA RequestType ==
    ASSUME NEW op \in {"save", "revert", "import"}, NEW plan \in Plans, NEW seen \in Seen,
           NEW shown \in Shown
    PROVE  Request(op, plan, seen, shown) \in JobType
BY DEF Request, JobType

LEMMA EmptyPartial == <<>> \in Partial(Keys, Pairs)
<1>1. DOMAIN <<>> = {} /\ <<>> \in [{} -> Pairs]
  OBVIOUS
<1> QED BY <1>1, InPartial

(* The rows a session holds when it is given all rows there are.             *)
LEMMA SeenType ==
    ASSUME TypeOK
    PROVE  [k \in Existing |-> row[k]] \in Seen
<1>1. \A k \in Existing : k \in Keys /\ row[k] \in Pairs
  BY DEF Existing, TypeOK, Rows
<1> QED BY <1>1, InPartial DEF Seen, Existing

(* A row after the flush, when the one found is there as long as the key's
   row is.                                                                   *)
LEMMA WrittenType ==
    ASSUME TypeOK, NEW k \in Keys, NEW target \in Pairs, NEW found,
           target = NoText \/ found = NoRow \/ row[k] # NoRow
    PROVE  Written(k, found, target) \in Rows
<1>1. row[k] \in Rows
  BY DEF TypeOK
<1>2. CASE target = NoText \/ found = NoRow
  BY <1>2 DEF Written, Rows
<1>3. CASE row[k] # NoRow
  BY <1>1, <1>3 DEF Written, Set, Rows, Pairs
<1> QED BY <1>2, <1>3

LEMMA LoadedKeys ==
    ASSUME TypeOK, NEW f \in Editors
    PROVE  Loaded(f) \subseteq Keys
BY JobFields DEF Loaded

(* The rows a Write finds, and those it writes.                              *)
Found(e, found) ==
    /\ found \in [DOMAIN job[e].plan -> Rows]
    /\ found[job[e].first] = job[e].found
    /\ \A k \in DOMAIN job[e].plan \ {job[e].first} : found[k] \in Answers(e, k)

Writes(e, found) == {k \in DOMAIN job[e].plan : Differs(found[k], job[e].plan[k])}

LEMMA WriteCases ==
    ASSUME NEW e, Write(e)
    PROVE  \/ UNCHANGED <<row, revs, torn>>
           \/ \E found :
                /\ Found(e, found)
                /\ ~FlushFails(job[e].first, job[e].found, job[e].plan[job[e].first])
                /\ row' = [k \in Keys |-> IF k \in Writes(e, found)
                                          THEN Written(k, found[k], job[e].plan[k]) ELSE row[k]]
                /\ revs' = [k \in Keys |-> IF k \in Writes(e, found)
                                           THEN Record(k, job[e].plan[k]) ELSE revs[k]]
                /\ torn' = (torn \ Writes(e, found)) \cup (Writes(e, found) \cap raced[e])
BY DEF Write, Found, Writes

LEMMA TypeStep == TypeOK /\ [Next]_vars => TypeOK'
<1> SUFFICES ASSUME TypeOK, [Next]_vars PROVE TypeOK'
  OBVIOUS
<1>1. ASSUME NEW e \in Editors, OpenPage(e) PROVE TypeOK'
  <2>1. PICK filter \in SUBSET (Known \cup Existing) :
            Turn(e, Page([k \in filter |-> Fingerprint(row[k])]))
    BY <1>1 DEF OpenPage
  <2>2. filter \subseteq Keys
    BY SiteTextAssumption DEF Existing
  <2>3. \A k \in filter : Fingerprint(row[k]) \in Pairs
    BY <2>2, FingerprintPair DEF TypeOK
  <2>4. [k \in filter |-> Fingerprint(row[k])] \in Shown
    BY <2>2, <2>3, InPartial DEF Shown
  <2>5. Page([k \in filter |-> Fingerprint(row[k])]) \in JobType
    BY <2>4 DEF Page, JobType
  <2> QED BY <1>1, <2>1, <2>5, TurnType DEF OpenPage, TypeOK
<1>2. ASSUME NEW e \in Editors, Save(e) PROVE TypeOK'
  <2>1. job[e].shown \in Shown
    BY <1>2, JobFields DEF Save
  <2>2. PICK form \in Forms(job[e].shown) :
          Turn(e, Request("save", [k \in Changed(job[e].shown, form) |-> form[k]],
                          [k \in Existing |-> row[k]],
                          [k \in Changed(job[e].shown, form) |-> job[e].shown[k]]))
    BY <1>2 DEF Save
  <2>3. /\ Changed(job[e].shown, form) \subseteq DOMAIN form
        /\ DOMAIN form \subseteq Keys
        /\ \A k \in DOMAIN form : form[k] \in Pairs /\ job[e].shown[k] \in Pairs
    BY <2>1, InPartial, TargetPair, SiteTextAssumption DEF Forms, Changed, Shown, Existing
  <2>4. [k \in Changed(job[e].shown, form) |-> form[k]] \in Plans
    BY <2>3, InPartial DEF Plans
  <2>5. [k \in Changed(job[e].shown, form) |-> job[e].shown[k]] \in Shown
    BY <2>3, InPartial DEF Shown
  <2>6. Request("save", [k \in Changed(job[e].shown, form) |-> form[k]],
                [k \in Existing |-> row[k]],
                [k \in Changed(job[e].shown, form) |-> job[e].shown[k]]) \in JobType
    BY <2>4, <2>5, SeenType, RequestType
  <2> QED BY <1>2, <2>2, <2>6, TurnType DEF Save, TypeOK
<1>3. ASSUME NEW e \in Editors, Revert(e) PROVE TypeOK'
  <2>1. PICK k \in Keys : \E i \in DOMAIN revs[k] :
          Turn(e, Request("revert", [x \in {k} |-> EffectivePair(revs[k][i])], <<>>, <<>>))
    BY <1>3 DEF Revert
  <2>2. PICK i \in DOMAIN revs[k] :
          Turn(e, Request("revert", [x \in {k} |-> EffectivePair(revs[k][i])], <<>>, <<>>))
    BY <2>1
  <2>3. revs[k][i] \in Pairs
    BY <2>2 DEF TypeOK
  <2>4. [x \in {k} |-> EffectivePair(revs[k][i])] \in Plans
    BY <2>3, RevertedPair, InPartial DEF Plans
  <2>5. Request("revert", [x \in {k} |-> EffectivePair(revs[k][i])], <<>>, <<>>) \in JobType
    BY <2>4, EmptyPartial, RequestType DEF Seen, Shown
  <2> QED BY <1>3, <2>5, <2>2, TurnType DEF Revert, TypeOK
<1>4. ASSUME NEW e \in Editors, Import(e) PROVE TypeOK'
  <2>1. PICK plan \in Partial(Known, {p \in Targets : Valid(p)}) :
          Turn(e, Request("import", plan, <<>>, <<>>))
    BY <1>4 DEF Import
  <2>2. DOMAIN plan \subseteq Known /\ plan \in [DOMAIN plan -> {p \in Targets : Valid(p)}]
    BY <2>1, InPartial
  <2>3. DOMAIN plan \subseteq Keys /\ plan \in [DOMAIN plan -> Pairs]
    BY <2>2, TargetPair, SiteTextAssumption
  <2>4. plan \in Plans
    BY <2>3, InPartial DEF Plans
  <2>5. Request("import", plan, <<>>, <<>>) \in JobType
    BY <2>4, EmptyPartial, RequestType DEF Seen, Shown
  <2> QED BY <1>4, <2>1, <2>5, TurnType DEF Import, TypeOK
<1>5. ASSUME NEW e \in Editors, Find(e) PROVE TypeOK'
  <2> DEFINE plan == job[e].plan
  <2>1. /\ plan \in Plans /\ job[e].seen \in Seen /\ job[e].shown \in Shown
        /\ job[e].op \in {"save", "revert", "import"}
        /\ job[e] \in [at: {"find"}, op: {"save", "revert", "import"},
                       plan: Plans, seen: Seen, shown: Shown]
    BY <1>5, JobFields DEF Find
  <2>2. CASE plan = <<>>
    <3>1. Turn(e, Idle) /\ Idle \in JobType
      BY <1>5, <2>2 DEF Find, JobType
    <3> QED BY <1>5, <3>1, TurnType DEF Find, TypeOK
  <2>3. CASE plan # <<>>
    <3>0. PICK k \in DOMAIN plan : \E found \in Answers(e, k) :
            IF Differs(found, plan[k])
            THEN Turn(e, [at |-> "write", op |-> job[e].op, plan |-> plan,
                          seen |-> job[e].seen, shown |-> job[e].shown,
                          first |-> k, found |-> found])
            ELSE Turn(e, [job[e] EXCEPT !.plan = [x \in DOMAIN plan \ {k} |-> plan[x]]])
      BY <1>5, <2>3 DEF Find
    <3>1. PICK found \in Answers(e, k) :
            IF Differs(found, plan[k])
            THEN Turn(e, [at |-> "write", op |-> job[e].op, plan |-> plan,
                          seen |-> job[e].seen, shown |-> job[e].shown,
                          first |-> k, found |-> found])
            ELSE Turn(e, [job[e] EXCEPT !.plan = [x \in DOMAIN plan \ {k} |-> plan[x]]])
      BY <3>0
    <3>2. DOMAIN plan \subseteq Keys /\ plan \in [DOMAIN plan -> Pairs]
      BY <2>1, InPartial DEF Plans
    <3>3. found \in Rows
      <4>1. k \in DOMAIN job[e].seen => job[e].seen[k] \in Pairs
        BY <2>1, InPartial DEF Seen
      <4>2. row[k] \in Rows
        BY <3>2 DEF TypeOK
      <4> QED BY <4>1, <4>2 DEF Answers, Rows
    <3>4. [at |-> "write", op |-> job[e].op, plan |-> plan, seen |-> job[e].seen,
           shown |-> job[e].shown, first |-> k, found |-> found] \in JobType
      BY <2>1, <3>2, <3>3 DEF JobType
    <3>5. [x \in DOMAIN plan \ {k} |-> plan[x]] \in Plans
      BY <3>2, InPartial DEF Plans
    <3>6. [job[e] EXCEPT !.plan = [x \in DOMAIN plan \ {k} |-> plan[x]]] \in JobType
      BY <2>1, <3>5 DEF JobType
    <3> QED BY <1>5, <3>1, <3>4, <3>6, TurnType DEF Find, TypeOK
  <2> QED BY <2>2, <2>3
<1>6. ASSUME NEW e \in Editors, Write(e) PROVE TypeOK'
  <2>1. job' \in [Editors -> JobType]
    BY <1>6, TurnType DEF Write, JobType
  <2>4. raced' \in [Editors -> SUBSET Keys]
    BY <1>6, LoadedKeys DEF Write, TypeOK
  <2>2. CASE UNCHANGED <<row, revs, torn>>
    BY <2>1, <2>2, <2>4 DEF TypeOK
  <2>3. ASSUME NEW found, Found(e, found),
               ~FlushFails(job[e].first, job[e].found, job[e].plan[job[e].first]),
               row' = [k \in Keys |-> IF k \in Writes(e, found)
                                      THEN Written(k, found[k], job[e].plan[k]) ELSE row[k]],
               revs' = [k \in Keys |-> IF k \in Writes(e, found)
                                       THEN Record(k, job[e].plan[k]) ELSE revs[k]],
               torn' = (torn \ Writes(e, found)) \cup (Writes(e, found) \cap raced[e])
        PROVE  TypeOK'
    <3>1. \A k \in Writes(e, found) : job[e].plan[k] \in Pairs
      BY <1>6, JobFields, InPartial DEF Write, Writes, Plans
    <3>2. \A k \in Keys : row'[k] \in Rows
      <4> SUFFICES ASSUME NEW k \in Keys, k \in Writes(e, found)
                   PROVE  Written(k, found[k], job[e].plan[k]) \in Rows
        BY <2>3 DEF TypeOK
      <4>1. job[e].plan[k] = NoText \/ found[k] = NoRow \/ row[k] # NoRow
        BY <2>3 DEF Found, FlushFails, Answers, Writes
      <4> QED BY <3>1, <4>1, WrittenType
    <3>3. \A k \in Keys : revs'[k] \in Seq(Pairs) /\ Len(revs'[k]) <= Kept
      BY <2>3, <3>1, RecordLast DEF TypeOK
    <3>4. torn' \subseteq Keys
      BY <2>3 DEF TypeOK
    <3> QED BY <2>1, <2>3, <2>4, <3>2, <3>3, <3>4 DEF TypeOK
  <2> QED BY <1>6, <2>2, <2>3, WriteCases
<1>7. CASE UNCHANGED vars
  BY <1>7 DEF vars, TypeOK
<1> QED BY <1>1, <1>2, <1>3, <1>4, <1>5, <1>6, <1>7 DEF Next, Step

(* Rows, revisions and jobs keep their types, and no history grows longer than
   REVISIONS_KEPT (site_text.py), whatever the requests do to each other.      *)
THEOREM TypeCorrect == Spec => []TypeOK
<1> QED BY TypeInit, TypeStep, PTL DEF Spec

-----------------------------------------------------------------------------
(* The history and the conflicts of a save, whatever overlaps.              *)

Working == {e \in Editors : job[e].at \in {"find", "write"}}

\* What a request holds is what the table has, but for the keys it is raced on.
Fresh(e) ==
    LET j == job[e] IN
    /\ j.op # "save" => j.seen = <<>>
    /\ \A k \in DOMAIN j.seen \ raced[e] : j.seen[k] = row[k]
    /\ j.op = "save" => \A k \in DOMAIN j.plan \ raced[e] : Fingerprint(row[k]) = j.shown[k]
    /\ j.at = "write" =>
         /\ j.first \in DOMAIN j.plan
         /\ j.first \notin raced[e] => j.found = row[j.first]

HistInv == TypeOK /\ HistoryTellsUntorn /\ \A e \in Working : Fresh(e)

(* On the row as it is, a change leaves a row that reads as its target.      *)
LEMMA WrittenReads ==
    ASSUME TypeOK, NEW k \in Keys, NEW target \in Pairs
    PROVE  Fingerprint(Written(k, row[k], target)) = target
<1>1. row[k] \in Rows
  BY DEF TypeOK
<1>2. CASE target = NoText
  BY <1>2 DEF Written, Fingerprint
<1>3. CASE target # NoText /\ row[k] = NoRow
  BY <1>3, NoRowApart DEF Written, Fingerprint
<1>4. CASE target # NoText /\ row[k] # NoRow
  <2>1. Written(k, row[k], target) = [en |-> target.en, fr |-> target.fr]
    BY <1>4 DEF Written, Set
  <2>2. [en |-> target.en, fr |-> target.fr] = target
    BY DEF Pairs
  <2> QED BY <2>1, <2>2, NoRowApart DEF Fingerprint
<1> QED BY <1>2, <1>3, <1>4

LEMMA HistInit == Init => HistInv
<1> SUFFICES ASSUME Init PROVE HistInv
  OBVIOUS
<1>1. PICK old \in [Keys \ Known -> {p \in Pairs : Valid(p)} \ {NoText}] :
        /\ row = [k \in Keys |-> IF k \in Known THEN NoRow ELSE old[k]]
        /\ revs = [k \in Keys |-> IF k \in Known THEN <<>> ELSE <<old[k]>>]
        /\ job = [e \in Editors |-> Idle]
  BY DEF Init
<1>2. HistoryTellsUntorn
  <2> SUFFICES ASSUME NEW k \in Keys, revs[k] # <<>>
               PROVE  revs[k][Len(revs[k])] = Fingerprint(row[k])
    BY DEF HistoryTellsUntorn, LastTells
  <2>1. revs[k] = <<old[k]>> /\ row[k] = old[k] /\ old[k] \in Pairs
    BY <1>1
  <2> QED BY <2>1, NoRowApart DEF Fingerprint
<1>3. Working = {}
  BY <1>1 DEF Working, Idle
<1> QED BY <1>2, <1>3, TypeInit DEF HistInv

(* A request finds the rows as they are, but for the keys it is raced on.    *)
LEMMA FoundFresh ==
    ASSUME NEW e, Fresh(e), job[e].at = "write", NEW found, Found(e, found)
    PROVE  \A k \in DOMAIN job[e].plan \ raced[e] : found[k] = row[k]
BY DEF Fresh, Found, Answers

(* A request in flight while another one commits, or while nothing changes in
   the table, is raced on what changes of what it has loaded.                 *)
LEMMA FreshKept ==
    ASSUME TypeOK, NEW f \in Working, Fresh(f), job'[f] = job[f],
           raced[f] \subseteq raced'[f],
           \A k \in Loaded(f) \ raced'[f] : row'[k] = row[k]
    PROVE  Fresh(f)'
<1> DEFINE j == job[f]
<1>0. f \in Editors /\ j.at \in {"find", "write"}
  BY DEF Working
<1>1. j.plan \in Plans /\ j.seen \in Seen
  BY <1>0, JobFields
<1>2. DOMAIN j.plan \subseteq Keys /\ DOMAIN j.seen \subseteq Keys
  BY <1>1, InPartial DEF Plans, Seen
<1>3. CASE j.op = "save"
  <2>1. \A k \in Keys \ raced'[f] : row'[k] = row[k]
    BY <1>0, <1>3 DEF Loaded
  <2> QED BY <1>2, <1>3, <2>1 DEF Fresh, Fingerprint
<1>4. CASE j.op # "save"
  <2>1. j.seen = <<>> /\ DOMAIN <<>> = {}
    BY <1>4 DEF Fresh
  <2>2. j.at = "write" => j.first \in raced'[f] \/ row'[j.first] = row[j.first]
    BY <1>4 DEF Loaded
  <2> QED BY <1>4, <2>1, <2>2 DEF Fresh
<1> QED BY <1>3, <1>4

(* A step of one editor that does not touch the tables                       *)
LEMMA TurnInv ==
    ASSUME HistInv, TypeOK', NEW e \in Editors, NEW j, Turn(e, j),
           UNCHANGED <<row, revs, torn>>,
           \A f \in Editors \ {e} : raced'[f] = raced[f],
           j.at \in {"find", "write"} => Fresh(e)'
    PROVE  HistInv'
<1>1. job'[e] = j /\ \A f \in Editors \ {e} : job'[f] = job[f]
  BY DEF HistInv, TypeOK, Turn
<1>2. HistoryTellsUntorn'
  BY DEF HistInv, HistoryTellsUntorn, LastTells, Fingerprint
<1>3. \A f \in Working' : Fresh(f)'
  <2> SUFFICES ASSUME NEW f \in Working', f # e PROVE Fresh(f)'
    BY <1>1 DEF Working
  <2>1. f \in Working /\ job'[f] = job[f] /\ raced'[f] = raced[f]
    BY <1>1 DEF Working
  <2> QED BY <2>1, FreshKept DEF HistInv
<1> QED BY <1>2, <1>3 DEF HistInv

LEMMA HistStep ==
    ASSUME HistInv, [Next]_vars
    PROVE  HistInv'
<1>0. TypeOK /\ TypeOK'
  BY TypeStep DEF HistInv
<1>1. ASSUME NEW e \in Editors, OpenPage(e) PROVE HistInv'
  BY <1>0, <1>1, TurnInv DEF OpenPage, Page
<1>2. ASSUME NEW e \in Editors, Save(e) PROVE HistInv'
  <2>1. PICK form \in Forms(job[e].shown) :
          /\ Conflicts(job[e].shown, form) = {}
          /\ Turn(e, Request("save", [k \in Changed(job[e].shown, form) |-> form[k]],
                             [k \in Existing |-> row[k]],
                             [k \in Changed(job[e].shown, form) |-> job[e].shown[k]]))
    BY <1>2 DEF Save
  <2> DEFINE j == Request("save", [k \in Changed(job[e].shown, form) |-> form[k]],
                          [k \in Existing |-> row[k]],
                          [k \in Changed(job[e].shown, form) |-> job[e].shown[k]])
  <2>2. job'[e] = j /\ UNCHANGED <<row, revs, raced, torn>>
    BY <1>0, <1>2, <2>1 DEF Save, Turn, TypeOK
  <2>3. Fresh(e)'
    BY <2>1, <2>2 DEF Fresh, Request, Conflicts, Fingerprint
  <2> HIDE DEF j
  <2> QED BY <1>0, <2>1, <2>2, <2>3, TurnInv DEF j
<1>3. ASSUME NEW e \in Editors, NEW op \in {"revert", "import"}, NEW plan,
             Turn(e, Request(op, plan, <<>>, <<>>)), UNCHANGED <<row, revs, raced, torn>>
      PROVE  HistInv'
  <2>1. job'[e] = Request(op, plan, <<>>, <<>>)
    BY <1>0, <1>3 DEF Turn, TypeOK
  <2>2. Fresh(e)'
    BY <2>1 DEF Fresh, Request
  <2> QED BY <1>0, <1>3, <2>1, <2>2, TurnInv
<1>4. ASSUME NEW e \in Editors, Revert(e) PROVE HistInv'
  <2>1. PICK k \in Keys : \E i \in DOMAIN revs[k] :
          Turn(e, Request("revert", [x \in {k} |-> EffectivePair(revs[k][i])], <<>>, <<>>))
    BY <1>4 DEF Revert
  <2> QED BY <1>3, <1>4, <2>1 DEF Revert
<1>5. ASSUME NEW e \in Editors, Import(e) PROVE HistInv'
  BY <1>3, <1>5 DEF Import
<1>6. ASSUME NEW e \in Editors, Find(e) PROVE HistInv'
  <2> DEFINE plan == job[e].plan
  <2>1. /\ e \in Working /\ Fresh(e) /\ job[e].at = "find"
        /\ UNCHANGED <<row, revs, torn>>
        /\ \A f \in Editors \ {e} : raced'[f] = raced[f]
    BY <1>0, <1>6 DEF Find, Working, HistInv, TypeOK
  <2>2. job[e] \in [at: {"find"}, op: {"save", "revert", "import"},
                    plan: Plans, seen: Seen, shown: Shown]
    BY <1>0, <1>6, JobFields DEF Find
  <2>3. CASE plan = <<>>
    BY <1>0, <1>6, <2>1, <2>3, TurnInv DEF Find, Idle
  <2>4. ASSUME raced' = raced, NEW k \in DOMAIN plan, NEW found \in Answers(e, k),
               Turn(e, [at |-> "write", op |-> job[e].op, plan |-> plan,
                        seen |-> job[e].seen, shown |-> job[e].shown,
                        first |-> k, found |-> found])
        PROVE  HistInv'
    <3>1. k \notin raced[e] => found = row[k]
      BY <2>1 DEF Answers, Fresh
    <3>2. job'[e] = [at |-> "write", op |-> job[e].op, plan |-> plan,
                     seen |-> job[e].seen, shown |-> job[e].shown,
                     first |-> k, found |-> found]
      BY <1>0, <2>4 DEF Turn, TypeOK
    <3>3. Fresh(e)'
      BY <2>1, <2>4, <3>1, <3>2 DEF Fresh, Fingerprint
    <3> QED BY <1>0, <2>1, <2>4, <3>3, TurnInv
  <2>5. ASSUME raced' = raced, NEW k \in DOMAIN plan,
               Turn(e, [job[e] EXCEPT !.plan = [x \in DOMAIN plan \ {k} |-> plan[x]]])
        PROVE  HistInv'
    <3>1. job'[e] = [job[e] EXCEPT !.plan = [x \in DOMAIN plan \ {k} |-> plan[x]]]
      BY <1>0, <2>5 DEF Turn, TypeOK
    <3>2. /\ job'[e].at = "find" /\ job'[e].op = job[e].op
          /\ job'[e].seen = job[e].seen /\ job'[e].shown = job[e].shown
          /\ job'[e].plan = [x \in DOMAIN plan \ {k} |-> plan[x]]
      BY <2>2, <3>1
    <3>3. Fresh(e)'
      BY <2>1, <2>5, <3>2 DEF Fresh, Fingerprint
    <3> QED BY <1>0, <2>1, <2>5, <3>3, TurnInv
  <2> QED
    <3>1. plan # <<>> =>
            /\ raced' = raced
            /\ \E k \in DOMAIN plan : \E found \in Answers(e, k) :
              IF Differs(found, plan[k])
              THEN Turn(e, [at |-> "write", op |-> job[e].op, plan |-> plan,
                            seen |-> job[e].seen, shown |-> job[e].shown,
                            first |-> k, found |-> found])
              ELSE Turn(e, [job[e] EXCEPT !.plan = [x \in DOMAIN plan \ {k} |-> plan[x]]])
      BY <1>6 DEF Find
    <3> HIDE DEF plan
    <3> QED BY <2>3, <2>4, <2>5, <3>1
<1>7. ASSUME NEW e \in Editors, Write(e) PROVE HistInv'
  <2>1. /\ job[e].at = "write" /\ job[e].plan \in Plans
        /\ e \in Working /\ Fresh(e)
    BY <1>0, <1>7, JobFields DEF Write, Working, HistInv
  <2>2. /\ job'[e] = Idle
        /\ \A f \in Editors \ {e} :
             /\ job'[f] = job[f]
             /\ raced'[f] = raced[f] \cup {k \in Loaded(f) : row'[k] # row[k]}
    BY <1>0, <1>7 DEF Write, Turn, TypeOK
  <2>3. \A f \in Working' : Fresh(f)'
    <3> SUFFICES ASSUME NEW f \in Working' PROVE Fresh(f)'
      OBVIOUS
    <3>1. f \in Working /\ f \in Editors \ {e}
      BY <2>2 DEF Working, Idle
    <3> QED BY <1>0, <2>2, <3>1, FreshKept DEF HistInv
  <2>4. CASE UNCHANGED <<row, revs, torn>>
    BY <1>0, <2>3, <2>4 DEF HistInv, HistoryTellsUntorn, LastTells, Fingerprint
  <2>5. ASSUME NEW found, Found(e, found),
               row' = [k \in Keys |-> IF k \in Writes(e, found)
                                      THEN Written(k, found[k], job[e].plan[k]) ELSE row[k]],
               revs' = [k \in Keys |-> IF k \in Writes(e, found)
                                       THEN Record(k, job[e].plan[k]) ELSE revs[k]],
               torn' = (torn \ Writes(e, found)) \cup (Writes(e, found) \cap raced[e])
        PROVE  HistInv'
    <3>1. HistoryTellsUntorn'
      <4> SUFFICES ASSUME NEW k \in Keys, k \notin torn', revs'[k] # <<>>
                   PROVE  revs'[k][Len(revs'[k])] = Fingerprint(row'[k])
        BY DEF HistoryTellsUntorn, LastTells, Fingerprint
      <4>1. CASE k \notin Writes(e, found)
        BY <2>5, <4>1 DEF HistInv, HistoryTellsUntorn, LastTells
      <4>2. CASE k \in Writes(e, found)
        <5>1. job[e].plan[k] \in Pairs /\ found[k] = row[k]
          BY <2>1, <2>5, <4>2, FoundFresh, InPartial DEF Writes, Plans
        <5>2. Fingerprint(row'[k]) = job[e].plan[k]
          BY <1>0, <2>5, <4>2, <5>1, WrittenReads
        <5>3. revs'[k] = Record(k, job[e].plan[k])
          BY <2>5, <4>2
        <5> QED BY <1>0, <5>1, <5>2, <5>3, RecordLast
      <4> QED BY <4>1, <4>2
    <3> QED BY <1>0, <2>3, <3>1 DEF HistInv
  <2> QED BY <1>7, <2>4, <2>5, WriteCases
<1>8. CASE UNCHANGED vars
  <2>1. UNCHANGED <<row, revs, job, raced, torn>>
    BY <1>8 DEF vars
  <2>2. \A f \in Working' : f \in Working /\ Fresh(f)'
    BY <1>0, <2>1, FreshKept DEF HistInv, Working
  <2> QED BY <1>0, <2>1, <2>2 DEF HistInv, HistoryTellsUntorn, LastTells, Fingerprint
<1> QED BY <1>1, <1>2, <1>4, <1>5, <1>6, <1>7, <1>8 DEF Next, Step

(* The last revision of a text tells what the site shows (models.py:377), however
   many requests overlap, unless the one that wrote it was raced on that text.  *)
THEOREM HistoryIsTrue == Spec => []HistoryTellsUntorn
<1>1. HistInv => HistoryTellsUntorn
  BY DEF HistInv
<1>2. HistInv /\ [Next]_vars => HistInv'
  BY HistStep
<1> QED BY <1>1, <1>2, HistInit, PTL DEF Spec

(* "Une cle modifiee entre-temps par quelqu'un d'autre est signalee comme
   conflit au lieu d'etre ecrasee" (routes.py:446), as the code keeps it for any
   number of pages, editors and overlapping requests: a save changes a text that
   is not what its page showed only if another request changed that text between
   the load of the save and its commit.                                         *)
THEOREM SavesDoNotOverwrite == Spec => OverwritesOnlyRaced
<1> DEFINE Guarded == \A e \in Editors : \A k \in Keys \ raced[e] :
        Overwrites(e, k) => Fingerprint(row[k]) = job[e].shown[k]
<1>1. HistInv /\ [Next]_vars => [Guarded]_vars
  <2> SUFFICES ASSUME HistInv, Next, NEW e \in Editors, NEW k \in Keys \ raced[e],
                      Overwrites(e, k)
               PROVE  Fingerprint(row[k]) = job[e].shown[k]
    OBVIOUS
  <2>1. PICK f \in Editors : Write(f)
    BY DEF Next, Step, OpenPage, Save, Revert, Import, Find, Overwrites
  <2>2. e = f
    BY <2>1 DEF HistInv, TypeOK, Overwrites, Write, Turn
  <2>3. Fresh(e) /\ job[e].op = "save"
    BY DEF HistInv, Working, Overwrites
  <2>4. k \in DOMAIN job[e].plan
    BY <2>1, <2>2, WriteCases DEF Writes, Overwrites
  <2> QED BY <2>3, <2>4 DEF Fresh
<1>2. HistInv /\ [Next]_vars => HistInv'
  BY HistStep
<1> QED BY <1>1, <1>2, HistInit, PTL DEF Spec, OverwritesOnlyRaced
=============================================================================
