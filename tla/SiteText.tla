------------------------------- MODULE SiteText -------------------------------
(***************************************************************************)
(* The editor of the site's fixed texts: tables site_text and              *)
(* site_text_revision (app/models.py), apply_change and its helpers        *)
(* (app/site_text.py), and the handlers that save a form, revert to a      *)
(* revision and import a file (app/routes.py).                             *)
(*                                                                         *)
(* A page carries a fingerprint of every text it shows.  The save compares *)
(* it with the rows it loads first, and then calls apply_change for each   *)
(* change, all in one transaction.  SQLite takes its write lock at the     *)
(* first flush, so other requests can commit between the load and that     *)
(* flush, and the identity map of the session keeps answering with the     *)
(* rows as they were loaded.                                               *)
(***************************************************************************)
EXTENDS Sequences, FiniteSets, Integers

CONSTANTS
    Editors,    \* the administrators, each with one page or request at a time
    Keys,       \* keys with a row, or that may get one
    Known,      \* those in DEFAULTS; the others are orphans
    Texts,      \* texts a field can hold and the table can store
    Invalid,    \* those of them validate_value refuses
    Default,    \* the text of DEFAULTS
    Blank,      \* nothing but spaces and control characters
    None,       \* NULL
    Kept        \* REVISIONS_KEPT

ASSUME SiteTextAssumption ==
    /\ IsFiniteSet(Editors)
    /\ Known \subseteq Keys
    /\ Invalid \subseteq Texts
    /\ {Default, Blank, None} \cap Texts = {} /\ None \notin {Default, Blank}
    /\ Kept \in Nat \ {0}

VARIABLES
    row,    \* table site_text: key -> its two texts, or NoRow
    revs,   \* table site_text_revision: key -> its revisions, oldest first
    job,    \* editor -> the page open or the request in flight, or Idle
    raced,  \* history: editor -> the keys another request changed in the table
            \* since the session of its request loaded them
    torn    \* history: keys last written by a request that was raced on them

vars == <<row, revs, job, raced, torn>>

-----------------------------------------------------------------------------
(* Texts, rows, fingerprints.                                              *)

Pairs == [en: Texts \cup {None}, fr: Texts \cup {None}]
NoText == [en |-> None, fr |-> None]
NoRow == [en |-> Blank, fr |-> Blank]     \* no row has these values
Rows == Pairs \cup {NoRow}

Partial(D, R) == UNION {[S -> R] : S \in SUBSET D}

\* What a field of the form can hold
Fields == Texts \cup {Default, Blank}

\* effective_override: a blank text or a copy of the default is no customisation
Effective(v) == IF v \in {Default, Blank} THEN None ELSE v
EffectivePair(f) == [en |-> Effective(f.en), fr |-> Effective(f.fr)]
Targets == {EffectivePair(f) : f \in [en: Fields, fr: Fields]}

\* validate_value of each language
Valid(p) == p.en \notin Invalid /\ p.fr \notin Invalid

\* fingerprint(row): '-' for no row and for a row of two NULLs
Fingerprint(r) == IF r = NoRow THEN NoText ELSE r

Idle == [at |-> "idle"]
Page(shown) == [at |-> "page", shown |-> shown]

\* A request that has decided on its changes; seen: the rows its session holds,
\* shown: what the page showed of the texts it changes
Request(op, plan, seen, shown) ==
    [at |-> "find", op |-> op, plan |-> plan, seen |-> seen, shown |-> shown]

Existing == {k \in Keys : row[k] # NoRow}

Turn(e, j) == job' = [job EXCEPT ![e] = j]

\* What the session of a request has loaded: a save begins with the whole table,
\* the others with the key they find something to write for.
Loaded(f) ==
    IF job[f].at \notin {"find", "write"} THEN {}
    ELSE IF job[f].op = "save" THEN Keys
    ELSE IF job[f].at = "write" THEN {job[f].first} ELSE {}

-----------------------------------------------------------------------------
(* GET /admin/texts: all known keys and the orphans, or those of a filter. *)

OpenPage(e) ==
    /\ job[e].at \in {"idle", "page"}
    /\ \E filter \in SUBSET (Known \cup Existing) :
        Turn(e, Page([k \in filter |-> Fingerprint(row[k])]))
    /\ UNCHANGED <<row, revs, raced, torn>>

\* Mutant: the fingerprints are not compared with the rows.
ConflictsUnchecked(shown, form) == {}

(* POST /admin/texts with form: key -> the pair wanted, for the keys shown. *)

\* The fields that were changed, and are not already as wanted
Changed(shown, form) ==
    {k \in DOMAIN form : form[k] # shown[k] /\ form[k] # Fingerprint(row[k])}

Conflicts(shown, form) ==
    {k \in Changed(shown, form) : shown[k] # Fingerprint(row[k])}

\* What the form asks for: an orphan can only be left alone or reset, and is
\* not looked at when it is gone.
Forms(shown) ==
    {form \in [DOMAIN shown \cap (Known \cup Existing) -> Targets] :
        \A k \in DOMAIN form \ Known : form[k] \in {shown[k], NoText}}

\* A preview, a conflict or an invalid text: the same page again, with the
\* fingerprints it had.  Otherwise the changes go on.
Save(e) ==
    /\ job[e].at = "page"
    /\ \E form \in Forms(job[e].shown) :
        LET shown == job[e].shown
            changed == Changed(shown, form)
        IN  /\ Conflicts(shown, form) = {}
            /\ \A k \in changed : Valid(form[k])
            /\ Turn(e, Request("save", [k \in changed |-> form[k]],
                               [k \in Existing |-> row[k]],
                               [k \in changed |-> shown[k]]))
    /\ UNCHANGED <<row, revs, raced, torn>>

\* POST /admin/texts/revert/<id>
Revert(e) ==
    /\ job[e].at = "idle"
    /\ \E k \in Keys : \E i \in DOMAIN revs[k] :
        LET target == EffectivePair(revs[k][i]) IN
            /\ Valid(target)
            /\ Turn(e, Request("revert", [x \in {k} |-> target], <<>>, <<>>))
    /\ UNCHANGED <<row, revs, raced, torn>>

\* POST /admin/texts/import: known keys only, refused when one text is invalid
Import(e) ==
    /\ job[e].at = "idle"
    /\ \E plan \in Partial(Known, {p \in Targets : Valid(p)}) :
        Turn(e, Request("import", plan, <<>>, <<>>))
    /\ UNCHANGED <<row, revs, raced, torn>>

-----------------------------------------------------------------------------
(* apply_change.                                                           *)

\* The answers to SELECT ... WHERE key = k: nothing when the row is gone; the
\* copy the session holds; or the row itself, when there is no copy or when it
\* is another row, inserted since under another id.
Answers(e, k) ==
    IF row[k] = NoRow THEN {NoRow}
    ELSE IF k \in DOMAIN job[e].seen THEN {job[e].seen[k], row[k]}
    ELSE {row[k]}

\* Whether there is something to write, for the row found
Differs(found, target) == IF target = NoText THEN found # NoRow ELSE found # target

Set(new, old, now) == IF new = old THEN now ELSE new

\* The row after the flush.  An UPDATE writes the columns that differ from the
\* row found.
Written(k, found, target) ==
    IF target = NoText THEN NoRow
    ELSE IF found = NoRow THEN target
    ELSE [en |-> Set(target.en, found.en, row[k].en),
          fr |-> Set(target.fr, found.fr, row[k].fr)]

\* The flush of an INSERT whose key is taken, or of an UPDATE whose row is gone
FlushFails(k, found, target) ==
    target # NoText /\ (found = NoRow) # (row[k] = NoRow)

\* Mutant: one revision too many is kept.
PruneLate(s) == IF Len(s) > Kept + 1 THEN SubSeq(s, Len(s) - Kept + 1, Len(s)) ELSE s

\* Retention: the most recent revisions
Prune(s) == IF Len(s) > Kept THEN SubSeq(s, Len(s) - Kept + 1, Len(s)) ELSE s

\* Mutant: a reset leaves no revision.
RecordChanges(k, target) ==
    IF target = NoText THEN revs[k] ELSE Prune(Append(revs[k], target))

Record(k, target) == Prune(Append(revs[k], target))

\* The SELECT of the next key while no lock is held: a key with nothing to
\* write is passed over, the first that has something begins the transaction.
Find(e) ==
    LET plan == job[e].plan IN
    /\ job[e].at = "find"
    /\ IF plan = <<>>
       THEN /\ Turn(e, Idle)
            /\ raced' = [raced EXCEPT ![e] = {}]
       ELSE /\ UNCHANGED raced
            /\ \E k \in DOMAIN plan : \E found \in Answers(e, k) :
                IF Differs(found, plan[k])
                THEN Turn(e, [at |-> "write", op |-> job[e].op, plan |-> plan,
                              seen |-> job[e].seen, shown |-> job[e].shown,
                              first |-> k, found |-> found])
                ELSE Turn(e, [job[e] EXCEPT !.plan =
                                 [x \in DOMAIN plan \ {k} |-> plan[x]]])
    /\ UNCHANGED <<row, revs, torn>>

\* The first flush takes the lock; the other keys follow under it, and the
\* commit.  An error of the first flush is a rollback and an error page.
Write(e) ==
    LET plan == job[e].plan
        first == job[e].first
    IN
    /\ job[e].at = "write"
    /\ Turn(e, Idle)
    /\ IF FlushFails(first, job[e].found, plan[first])
       THEN UNCHANGED <<row, revs, torn>>
       ELSE \E found \in [DOMAIN plan -> Rows] :
              LET writes == {k \in DOMAIN plan : Differs(found[k], plan[k])} IN
              /\ found[first] = job[e].found
              /\ \A k \in DOMAIN plan \ {first} : found[k] \in Answers(e, k)
              /\ row' = [k \in Keys |-> IF k \in writes
                                        THEN Written(k, found[k], plan[k]) ELSE row[k]]
              /\ revs' = [k \in Keys |-> IF k \in writes
                                         THEN Record(k, plan[k]) ELSE revs[k]]
              /\ torn' = (torn \ writes) \cup (writes \cap raced[e])
    /\ raced' = [f \in Editors |-> IF f = e THEN {} ELSE
                     raced[f] \cup {k \in Loaded(f) : row'[k] # row[k]}]

-----------------------------------------------------------------------------
\* The texts start at their defaults; an orphan still has its last text.
Init ==
    \E old \in [Keys \ Known -> {p \in Pairs : Valid(p)} \ {NoText}] :
        /\ row = [k \in Keys |-> IF k \in Known THEN NoRow ELSE old[k]]
        /\ revs = [k \in Keys |-> IF k \in Known THEN <<>> ELSE <<old[k]>>]
        /\ job = [e \in Editors |-> Idle]
        /\ raced = [e \in Editors |-> {}]
        /\ torn = {}

Step(e) == OpenPage(e) \/ Save(e) \/ Revert(e) \/ Import(e) \/ Find(e) \/ Write(e)

Next == \E e \in Editors : Step(e)

Spec == Init /\ [][Next]_vars

-----------------------------------------------------------------------------
(* Properties.                                                             *)

Shown == Partial(Keys, Pairs)
Seen == Partial(Keys, Pairs)
Plans == Partial(Keys, Pairs)

JobType ==
    {Idle}
    \cup [at: {"page"}, shown: Shown]
    \cup [at: {"find"}, op: {"save", "revert", "import"},
          plan: Plans, seen: Seen, shown: Shown]
    \cup [at: {"write"}, op: {"save", "revert", "import"},
          plan: Plans, seen: Seen, shown: Shown, first: Keys, found: Rows]

(* Types, and the bound of the history: REVISIONS_KEPT per key.            *)
TypeOK ==
    /\ row \in [Keys -> Rows]
    /\ \A k \in Keys : revs[k] \in Seq(Pairs) /\ Len(revs[k]) <= Kept
    /\ job \in [Editors -> JobType]
    /\ raced \in [Editors -> SUBSET Keys]
    /\ torn \subseteq Keys

\* The save of editor e commits a change of text k.
Overwrites(e, k) ==
    job[e].at = "write" /\ job'[e].at = "idle" /\ job[e].op = "save" /\ row'[k] # row[k]

(* "Une cle modifiee entre-temps par quelqu'un d'autre est signalee comme
   conflit au lieu d'etre ecrasee" (routes.py:446): a save changes a text only
   if it still is what the page of the editor showed.  Requests that overlap
   refute it; OverwritesOnlyRaced is what holds.                           *)
NoSilentOverwrite ==
    [][\A e \in Editors : \A k \in Keys :
        Overwrites(e, k) => Fingerprint(row[k]) = job[e].shown[k]]_vars

(* What the fingerprints of manage_site_texts do guarantee, however the requests
   of any number of editors overlap: a save changes a text that is not what its
   page showed only if another request changed that very text between the load
   of the save and its commit; however old the page is, and whatever happens to
   the other texts it saves.                                               *)
OverwritesOnlyRaced ==
    [][\A e \in Editors : \A k \in Keys \ raced[e] :
        Overwrites(e, k) => Fingerprint(row[k]) = job[e].shown[k]]_vars

(* A revision is "etat APRES le changement" (models.py:377): the last one tells
   what the site shows, whatever was saved, reset, reverted or imported since.
   Requests that overlap refute it; HistoryTellsUntorn is what holds.          *)
LastTells(k) == revs[k] # <<>> => revs[k][Len(revs[k])] = Fingerprint(row[k])

HistoryTellsState == \A k \in Keys : LastTells(k)

(* What apply_change does guarantee under any overlap: the last revision of a
   text tells what the site shows unless the request that wrote it was raced on
   that text, and again from the next write on that was not.               *)
HistoryTellsUntorn == \A k \in Keys \ torn : LastTells(k)

=============================================================================
