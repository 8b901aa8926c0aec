--------------------------- MODULE Uploads_proofs ---------------------------
(* Proofs about Uploads and Backup, for any number of workers, users, images
   and files.                                                                *)
EXTENDS Backup, TLAPS

-----------------------------------------------------------------------------
(* The invariant, in parts.                                                *)

Listed(f, x, w) == <<f, x>> \in job[w].list

\* A worker whose file is f; one that rewrites it in its encrypted form
On(f, w) == job[w].f = f
Rewriting(f, w) == On(f, w) /\ job[w].op = "legacy"

\* What excuses a file: it was raced for, left by a dead request, or quarantined.
Excused(f) == f \in raced \cup cut \cup quarantine

\* An upload is alone with its file, which no row and no list names yet.
UploadOK(w) ==
    LET f == job[w].f   u == about[f].owner IN
    /\ f \in Existing \ Legacy
    /\ ref[f] = "none"
    /\ u \in gone => f \in raced
    /\ \A v \in Workers \ {w} : ~On(f, v)
    /\ \A v \in Workers, x \in Forms : ~Listed(f, x, v)
    /\ \A p \in job[w].list :
          /\ p \in Existing \X Forms
          /\ about[p[1]].kind = "picture" /\ about[p[1]].owner = u
    /\ job[w].list # {} => about[f].kind = "picture"
    /\ f \in quarantine <=> job[w].at = "ban"
    /\ \/ job[w].at = "save" /\ disk[f] = {}
       \/ job[w].at \in {"screen", "seal"} /\ disk[f] = {"plain"}
       \/ job[w].at = "ban" /\ disk[f] = {}
       \/ job[w].at = "remove" /\ disk[f] = Forms
       \/ job[w].at = "swap" /\ disk[f] = {"enc"}
       \/ /\ job[w].at = "commit" /\ disk[f] = {"enc"}
          /\ \A p \in job[w].list : p[2] \notin disk[p[1]]

\* A legacy file is rewritten by one worker at a time from its removal on.
LegacyOK(w) ==
    LET f == job[w].f IN
    /\ f \in Legacy /\ job[w].u = about[f].owner /\ job[w].list = {}
    /\ job[w].at \in {"seal", "remove", "commit"}
    /\ job[w].at = "remove" /\ "plain" \in disk[f] => "enc" \in disk[f]
    /\ job[w].at = "commit" =>
          /\ disk[f] = {"enc"} /\ f \notin quarantine
          /\ \A v \in Workers \ {w} : ~(Rewriting(f, v) /\ job[v].at = "commit")

FlagOK(w) ==
    LET f == job[w].f IN
    /\ f \in Existing /\ about[f].kind = "message"
    /\ \E x \in Forms : job[w].list = {<<f, x>>}
    /\ \/ job[w].at = "move"
       \/ job[w].at = "record" /\ f \in quarantine

\* A deletion lists the owner's files by the paths their rows named.
DeleteOK(w) ==
    LET u == job[w].u IN
    /\ job[w].f = 0 /\ u \in Users
    /\ \A p \in job[w].list :
          /\ p \in Existing \X (Forms \cup {"detached"})
          /\ about[p[1]].owner = u
          /\ p[2] = "detached" => p[1] \in quarantine
    /\ \/ /\ job[w].at = "commit"
          /\ \A f \in OwnedBy(u) :
                Named(f) /\ f \notin FilesIn(job[w].list) =>
                    f \in raced \/ about[f].kind = "message"
          /\ \A p \in job[w].list :
                ~Excused(p[1]) /\ (\A v \in Workers : ~Rewriting(p[1], v))
                    => disk[p[1]] \subseteq {p[2]}
       \/ /\ job[w].at = "unlink" /\ u \in gone
          /\ \A p \in job[w].list :
                /\ ref[p[1]] = "none"
                /\ ~Excused(p[1]) =>
                      disk[p[1]] \subseteq {p[2]} /\ \A v \in Workers : ~On(p[1], v)

JobOK(w) ==
    \/ job[w] = Idle
    \/ job[w].op = "upload" /\ UploadOK(w)
    \/ job[w].op = "legacy" /\ LegacyOK(w)
    \/ job[w].op = "flag" /\ FlagOK(w)
    \/ job[w].op = "delete" /\ DeleteOK(w)

\* Only legacy files are named in plaintext, and a file once named by its
\* ciphertext has no plaintext left, nor a worker about to name it again.
FormsOK(f) ==
    /\ ref[f] = "plain" => f \in Legacy
    /\ (\E w \in Workers : Listed(f, "plain", w)) => f \in Legacy
    /\ ref[f] = "enc" \/ (\E w \in Workers : Listed(f, "enc", w)) =>
          /\ "plain" \notin disk[f]
          /\ \A w \in Workers : Rewriting(f, w) => job[w].at # "commit"
    /\ ref[f] = "plain" /\ f \notin cut /\ (\A w \in Workers : ~Rewriting(f, w))
          => "enc" \notin disk[f]

QuarantineOK(f) ==
    /\ f \in quarantine => "plain" \notin disk[f] /\ ~Resolves(f)
    /\ ref[f] = "detached" => f \in quarantine

\* A file that no row names and nobody works on or will remove is gone.
NoOrphan(f) ==
    /\ ref[f] = "none" /\ ~Excused(f)
    /\ \A w \in Workers : ~On(f, w)
    /\ \A w \in Workers : job[w].at = "unlink" => f \notin FilesIn(job[w].list)
    => disk[f] = {}

\* Files that were never stored
Unused(f) == disk[f] = {} /\ ref[f] = "none"

UploadsInv ==
    /\ TypeOK
    /\ \A w \in Workers : JobOK(w)
    /\ \A f \in Existing : FormsOK(f) /\ QuarantineOK(f) /\ NoOrphan(f)
    /\ \A f \in Files \ Existing : Unused(f)
    /\ NoBytesLost /\ RowsResolve /\ EncryptedAtRest /\ ErasedWithAccount

-----------------------------------------------------------------------------
(* Workers and files.                                                      *)

Jobs == [Workers -> Job \cup {Idle}]

LEMMA WorkerFields ==
    ASSUME TypeOK, NEW w \in Workers
    PROVE  /\ job[w] = Idle <=> job[w].op = "idle"
           /\ job[w] = Idle <=> job[w].at = "idle"
           /\ job[w] \in Job \cup {Idle}
           /\ job[w] # Idle => /\ job[w] \in Job
                              /\ job[w].op \in {"upload", "legacy", "flag", "delete"}
                              /\ job[w].u \in Users \cup {NoUser}
           /\ job[w].f \in 0..MaxFile /\ job[w].list \subseteq Paths
BY UploadsAssumption DEF TypeOK, Job, Idle

LEMMA KindOfJob ==
    ASSUME UploadsInv, NEW w \in Workers
    PROVE  /\ job[w].op = "upload" => UploadOK(w)
           /\ job[w].op = "legacy" => LegacyOK(w)
           /\ job[w].op = "flag" => FlagOK(w)
           /\ job[w].op = "delete" => DeleteOK(w)
BY WorkerFields DEF UploadsInv, JobOK

LEMMA Stored ==
    ASSUME TypeOK
    PROVE  /\ used \in Nat /\ used >= 1 /\ used <= MaxFile
           /\ Existing \subseteq Files /\ Legacy \subseteq Existing /\ 0 \notin Files
           /\ \A f \in Files : disk[f] \subseteq Forms /\ about[f] \in About
BY UploadsAssumption DEF TypeOK, Files, Existing, Legacy

\* What a job works on was stored.
LEMMA InHand ==
    ASSUME UploadsInv, NEW w \in Workers
    PROVE  /\ job[w].f \in Existing \cup {0}
           /\ FilesIn(job[w].list) \subseteq Existing
           /\ job[w].op \in {"upload", "legacy", "flag"} => job[w].f \in Existing
<1>1. TypeOK /\ JobOK(w)
  BY DEF UploadsInv
<1>2. Legacy \subseteq Existing
  BY <1>1, Stored
<1> QED BY <1>1, <1>2 DEF JobOK, UploadOK, LegacyOK, FlagOK, DeleteOK, FilesIn, Idle

LEMMA PathOfNamed ==
    ASSUME NEW S, NEW f \in S, ref[f] # "none"
    PROVE  <<f, ref[f]>> \in PathsOf(S)
BY DEF PathsOf

\* The other workers do not move.
Others(w) == \A v \in Workers \ {w} : job'[v] = job[v]

LEMMA GotoStep ==
    ASSUME TypeOK, NEW w \in Workers, job[w] # Idle,
           NEW at \in {"save", "screen", "ban", "seal", "remove", "swap", "commit", "move", "record", "unlink"},
           Goto(w, at)
    PROVE  /\ job' \in Jobs /\ Others(w) /\ job'[w] # Idle
           /\ job'[w].op = job[w].op /\ job'[w].at = at /\ job'[w].f = job[w].f
           /\ job'[w].u = job[w].u /\ job'[w].list = job[w].list
<1>1. job[w] \in Job /\ job[w].op # "idle"
  BY WorkerFields
<1>2. [job[w] EXCEPT !.at = at] \in Job
  BY <1>1 DEF Job
<1>3. job' \in Jobs /\ Others(w) /\ job'[w] = [job[w] EXCEPT !.at = at]
  BY <1>2 DEF Goto, TypeOK, Jobs, Others
<1> QED BY <1>1, <1>3 DEF Idle, Job

LEMMA EndStep ==
    ASSUME TypeOK, NEW w \in Workers, End(w)
    PROVE  /\ job' \in Jobs /\ Others(w) /\ job'[w] = Idle
           /\ job'[w].op = "idle" /\ job'[w].at = "idle" /\ job'[w].f = 0 /\ job'[w].list = {}
BY DEF End, TypeOK, Jobs, Others, Idle

LEMMA StartStep ==
    ASSUME TypeOK, NEW w \in Workers, NEW j \in Job, Start(w, j)
    PROVE  job' \in Jobs /\ Others(w) /\ job'[w] = j
BY DEF Start, TypeOK, Jobs, Others

-----------------------------------------------------------------------------
(* Requests and commands that begin: nothing but the job changes.          *)

\* A worker takes up a named file, or lists files by the paths that name them.
TakesUp(w) ==
    /\ job[w] = Idle /\ Others(w) /\ job' \in Jobs
    /\ job'[w].at \in {"seal", "move", "commit"}
    /\ job'[w].f = 0 \/ Named(job'[w].f)
    /\ job'[w].op = "legacy" => job'[w].at = "seal" /\ ref[job'[w].f] = "plain"
    /\ \A p \in job'[w].list : p[1] \in Existing /\ p[2] = ref[p[1]] /\ ref[p[1]] # "none"
    /\ UNCHANGED <<disk, about, ref, blocked, quarantine, banned, gone, used, histories>>

LEMMA TakesUpInv ==
    ASSUME UploadsInv, NEW w \in Workers, TakesUp(w), job'[w].op # "upload", JobOK(w)'
    PROVE  UploadsInv'
<1>1. TypeOK /\ Existing \subseteq Files /\ Existing' = Existing
  BY Stored DEF UploadsInv, TakesUp, Existing
<1>2. /\ job[w].at = "idle" /\ job[w].f = 0 /\ job[w].list = {} /\ job[w].op = "idle"
      /\ UNCHANGED <<disk, about, ref, blocked, quarantine, banned, gone, used, cut, dropped, raced>>
  BY DEF TakesUp, Idle, histories
<1>3. TypeOK'
  BY <1>1, <1>2 DEF TakesUp, TypeOK, Jobs, Existing
<1>4. \A v \in Workers : JobOK(v)'
  <2> SUFFICES ASSUME NEW v \in Workers, v # w PROVE JobOK(v)'
    OBVIOUS
  <2>1. job'[v] = job[v]
    BY DEF TakesUp, Others
  <2>2. CASE job[v] = Idle
    BY <2>1, <2>2 DEF JobOK, Idle
  <2>3. CASE job[v].op = "upload"
    <3>1. UploadOK(v)
      BY <2>3, KindOfJob
    <3>2. job'[w].f # job[v].f /\ \A x \in Forms : <<job[v].f, x>> \notin job'[w].list
      BY <3>1 DEF UploadOK, TakesUp, Named, Existing, Legacy, Forms
    <3>3. UploadOK(v)'
      BY <1>1, <1>2, <2>1, <3>1, <3>2 DEF UploadOK, On, Listed, TakesUp, Others
    <3> QED BY <2>1, <2>3, <3>3 DEF JobOK
  <2>4. CASE job[v].op = "legacy"
    <3>1. LegacyOK(v)
      BY <2>4, KindOfJob
    <3>2. LegacyOK(v)'
      BY <1>2, <2>1, <3>1 DEF LegacyOK, Rewriting, On, TakesUp, Others
    <3> QED BY <2>1, <2>4, <3>2 DEF JobOK
  <2>5. CASE job[v].op = "flag"
    <3>1. FlagOK(v)
      BY <2>5, KindOfJob
    <3>2. FlagOK(v)'
      BY <1>1, <1>2, <2>1, <3>1 DEF FlagOK
    <3> QED BY <2>1, <2>5, <3>2 DEF JobOK
  <2>6. CASE job[v].op = "delete"
    <3>1. DeleteOK(v)
      BY <2>6, KindOfJob
    <3>2. DeleteOK(v)'
      <4>1. CASE job[v].at = "commit"
        BY <1>1, <1>2, <2>1, <3>1, <4>1
        DEF DeleteOK, OwnedBy, Named, Excused, FilesIn, Rewriting, On, TakesUp, Others
      <4>2. CASE job[v].at = "unlink"
        <5>1. \A p \in job[v].list : job'[w].f # p[1]
          BY <1>1, <3>1, <4>2, Stored DEF DeleteOK, TakesUp, Named, Forms
        <5> QED BY <1>1, <1>2, <2>1, <3>1, <4>2, <5>1
            DEF DeleteOK, OwnedBy, Named, Excused, On, TakesUp, Others
      <4> QED BY <3>1, <4>1, <4>2 DEF DeleteOK
    <3> QED BY <2>1, <2>6, <3>2 DEF JobOK
  <2> QED BY <1>1, <2>2, <2>3, <2>4, <2>5, <2>6, WorkerFields
<1>5. \A f \in Existing : FormsOK(f)'
  <2> SUFFICES ASSUME NEW f \in Existing PROVE FormsOK(f)'
    OBVIOUS
  <2>1. FormsOK(f)
    BY DEF UploadsInv
  <2>2. \A x : Listed(f, x, w)' => ref[f] = x
    BY DEF Listed, TakesUp
  <2>3. \A v \in Workers \ {w} : \A x : Listed(f, x, v)' <=> Listed(f, x, v)
    BY DEF Listed, TakesUp, Others
  <2>4. ~Rewriting(f, w) /\ (Rewriting(f, w)' => job'[w].at = "seal")
    BY <1>2 DEF Rewriting, TakesUp
  <2>5. \A v \in Workers \ {w} : (Rewriting(f, v)' <=> Rewriting(f, v)) /\ job'[v] = job[v]
    BY DEF Rewriting, On, TakesUp, Others
  <2> QED BY <1>2, <2>1, <2>2, <2>3, <2>4, <2>5 DEF FormsOK
<1>6. \A f \in Existing : QuarantineOK(f)' /\ NoOrphan(f)'
  <2> SUFFICES ASSUME NEW f \in Existing PROVE QuarantineOK(f)' /\ NoOrphan(f)'
    OBVIOUS
  <2>1. QuarantineOK(f) /\ NoOrphan(f)
    BY DEF UploadsInv
  <2>2. ~On(f, w) /\ FilesIn(job[w].list) = {}
    BY <1>1, <1>2, Stored DEF On, FilesIn
  <2> QED BY <1>2, <2>1, <2>2
      DEF QuarantineOK, Resolves, Named, NoOrphan, Excused, On, TakesUp, Others
<1>7. \A f \in Files \ Existing : Unused(f)'
  BY <1>2 DEF UploadsInv, Unused
<1>8. NoBytesLost' /\ RowsResolve' /\ EncryptedAtRest'
  BY <1>1, <1>2, Stored
  DEF UploadsInv, NoBytesLost, RowsResolve, EncryptedAtRest, Named, Resolves, TakesUp, Others
<1>9. ErasedWithAccount'
  BY <1>1, <1>2 DEF UploadsInv, ErasedWithAccount, Named, TakesUp, Others
<1> QED BY <1>1, <1>3, <1>4, <1>5, <1>6, <1>7, <1>8, <1>9 DEF UploadsInv


-----------------------------------------------------------------------------
(* What any step of a worker leaves true of everything else.               *)

\* Nothing that was stored, recorded or excused is forgotten.
Grows ==
    /\ Existing \subseteq Existing' /\ \A f \in Existing : about'[f] = about[f]
    /\ quarantine \subseteq quarantine' /\ gone \subseteq gone'
    /\ cut \subseteq cut' /\ dropped \subseteq dropped' /\ raced \subseteq raced'

\* The worker keeps its file, leaves it or stores a new one.
JobMoves(w) ==
    /\ Others(w)
    /\ \/ job'[w] = Idle
       \/ job'[w].f = job[w].f /\ job'[w].op = job[w].op
       \/ job'[w].f \notin Existing
    /\ \A p \in job'[w].list :
          p \in job[w].list \/ (p[1] \in Existing /\ p[2] = ref[p[1]] /\ p[2] # "none")
    /\ job'[w].op = "legacy" /\ job'[w].at = "commit" =>
          job[w].op = "legacy" /\ job'[w].f = job[w].f /\ "plain" \in disk[job[w].f]
    /\ \A f \in Existing' \ Existing :
          f = job'[w].f /\ ref'[f] = "none" /\ f \notin quarantine' /\ about'[f].owner \notin gone'
    /\ \A f \in Files \ Existing' : Unused(f)'

\* The worker is about to store the bytes of a new upload.
Stores(w, g) == On(g, w) /\ job[w].op = "upload" /\ job[w].at = "save"

\* Files are removed as listed, or are the worker's own.
DiskMoves(w, g) ==
    /\ \/ disk'[g] \subseteq disk[g] \cup {"enc"}
       \/ Stores(w, g)
    /\ disk'[g] # disk[g] => On(g, w) \/ \E x \in Forms : Listed(g, x, w)
    /\ "enc" \in disk'[g] \ disk[g] =>
          On(g, w) /\ "plain" \in disk[g] /\ job[w].op \in {"upload", "legacy"}
    /\ "enc" \in disk[g] \ disk'[g] =>
          Listed(g, "enc", w) \/ (job[w].op = "upload" /\ On(g, w))
    /\ disk'[g] = {} /\ disk[g] # {} => g \in quarantine' \cup dropped' \/ ~Named(g)'
    /\ Resolves(g) /\ ref'[g] = ref[g] /\ ref[g] \notin disk'[g] => On(g, w)' \/ g \in dropped'
    /\ g \in quarantine' \ quarantine =>
          /\ On(g, w) /\ ref'[g] = ref[g]
          /\ \/ job[w].op = "upload" /\ disk'[g] = {}
             \/ \E x \in disk[g] : Listed(g, x, w) /\ disk'[g] = disk[g] \ {x}

\* A row comes to name a file when a worker has encrypted it, and stops doing
\* so when the file is removed, moved, to be unlinked, or raced for.
RefMoves(w, g) ==
    /\ ref'[g] = "plain" => ref[g] = "plain"
    /\ ref'[g] = "enc" /\ ref[g] # "enc" =>
          /\ On(g, w) /\ job[w].op \in {"upload", "legacy"} /\ job[w].at = "commit"
          /\ job'[w] = Idle /\ "enc" \in disk'[g]
          /\ MissedByDeletion(g) \subseteq raced'
          /\ job[w].op = "legacy" /\ ~Named(g) => about[g].owner \notin gone
    /\ ref'[g] = "detached" /\ ref[g] # "detached" => g \in quarantine /\ Named(g)
    /\ ref'[g] = "none" /\ ref[g] # "none" =>
          \/ g \in raced'
          \/ Named(g) /\ disk'[g] = disk[g] /\ ref[g] \notin disk[g] /\ ~On(g, w)
          \/ job'[w].at = "unlink" /\ g \in FilesIn(job'[w].list)

\* A worker that is done with a file has left it in order, or died.
Leaves(w, g) ==
    /\ On(g, w) /\ ~On(g, w)' =>
          \/ g \in cut'
          \/ /\ job[w].op = "legacy" => ref'[g] = "enc" /\ MissedByDeletion(g) \subseteq raced'
             /\ ref'[g] = "none" => disk'[g] = {} \/ Excused(g)'
             /\ Named(g)' => Resolves(g)'
             /\ g \notin Legacy => "plain" \notin disk'[g]
    /\ job[w].at = "unlink" /\ job'[w] # job[w] =>
          \A x \in Forms \cup {"detached"} : Listed(g, x, w) => g \in cut' \/ x \notin disk'[g]

Erased(f) ==
    about[f].owner \in gone =>
        \/ disk[f] = {} /\ ~Named(f)
        \/ Excused(f)
        \/ \E w \in Workers : job[w].at = "unlink" /\ f \in FilesIn(job[w].list)

Tame(w) ==
    /\ Grows /\ JobMoves(w)
    /\ \A g \in Existing : DiskMoves(w, g) /\ RefMoves(w, g) /\ Leaves(w, g)
    /\ \A g \in Existing : about[g].owner \in gone' \ gone =>
          Erased(g)' /\ \A v \in Workers \ {w} : On(g, v) => g \in raced'

\* A worker that stays with a file goes on with what it does.
LEMMA OnKept ==
    ASSUME TypeOK, NEW w \in Workers, JobMoves(w), NEW f \in Existing, On(f, w)'
    PROVE  On(f, w) /\ job'[w].op = job[w].op
BY Stored DEF JobMoves, On, Idle

\* A file that is not stored yet: nobody else knows of it.
LEMMA StoresAlone ==
    ASSUME UploadsInv, NEW w \in Workers, NEW g, Stores(w, g)
    PROVE  /\ disk[g] = {} /\ ref[g] = "none" /\ g \notin quarantine /\ g \notin Legacy
           /\ \A v \in Workers \ {w} : ~On(g, v)
           /\ \A v \in Workers, x \in Forms : ~Listed(g, x, v)
           /\ about[g].owner \in gone => g \in raced
BY KindOfJob DEF Stores, On, UploadOK

\* The file of an upload is nobody else's.
LEMMA UploadAlone ==
    ASSUME UploadsInv, NEW w \in Workers, NEW v \in Workers \ {w}, job[v].op = "upload"
    PROVE  ~On(job[v].f, w) /\ \A x \in Forms : ~Listed(job[v].f, x, w)
BY KindOfJob DEF UploadOK

LEMMA UploadKept ==
    ASSUME UploadsInv, NEW w \in Workers, Tame(w), TypeOK',
           NEW v \in Workers \ {w}, job[v].op = "upload"
    PROVE  UploadOK(v)'
<1> DEFINE f == job[v].f
<1>1. UploadOK(v) /\ f \in Existing /\ 0 \notin Existing /\ job'[v] = job[v]
  BY KindOfJob, Stored DEF UploadsInv, UploadOK, Tame, JobMoves, Others
<1>2. ~On(f, w) /\ \A x \in Forms : ~Listed(f, x, w)
  BY UploadAlone
<1>3. disk'[f] = disk[f]
  BY <1>1, <1>2 DEF Tame, DiskMoves
<1>4. ref'[f] = "none"
  <2>1. ref'[f] \in Forms \cup {"none", "detached"} /\ ref[f] = "none" /\ RefMoves(w, f)
    BY <1>1, Stored DEF UploadsInv, TypeOK, UploadOK, Tame
  <2> QED BY <1>2, <2>1 DEF RefMoves, Named, Forms
<1>5. f \in quarantine' <=> f \in quarantine
  BY <1>1, <1>2 DEF Tame, Grows, DiskMoves
<1>6. \A a \in Workers \ {v} : ~On(f, a)'
  BY <1>1, <1>2 DEF Tame, JobMoves, Others, UploadOK, On, Idle
<1>7. \A a \in Workers, x \in Forms : ~Listed(f, x, a)'
  BY <1>1, <1>2 DEF Tame, JobMoves, Others, UploadOK, Listed
<1>8. \A p \in job[v].list :
        p \in Existing \X Forms /\ (p[2] \in disk'[p[1]] => p[2] \in disk[p[1]])
  <2> SUFFICES ASSUME NEW p \in job[v].list, p[2] \notin disk[p[1]], p[2] \in disk'[p[1]]
               PROVE  FALSE
    BY <1>1 DEF UploadOK
  <2>1. p[1] \in Existing /\ p = <<p[1], p[2]>>
    BY <1>1 DEF UploadOK
  <2>2. p[2] = "enc" /\ "plain" \in disk[p[1]]
    <3>1. Listed(p[1], p[2], v) /\ p[2] \in Forms
      BY <1>1, <2>1 DEF UploadOK, Listed
    <3>2. ~Stores(w, p[1])
      BY <3>1, StoresAlone
    <3> QED BY <2>1, <3>2 DEF Tame, DiskMoves
  <2> QED BY <2>1, <2>2 DEF UploadsInv, FormsOK, Listed
<1>9. about'[f].owner \in gone' => f \in raced'
  BY <1>1 DEF UploadOK, Tame, Grows, On
<1> QED BY <1>1, <1>3, <1>4, <1>5, <1>6, <1>7, <1>8, <1>9 DEF UploadOK, Tame, Grows

LEMMA LegacyKept ==
    ASSUME UploadsInv, NEW w \in Workers, Tame(w), TypeOK',
           NEW v \in Workers \ {w}, job[v].op = "legacy"
    PROVE  LegacyOK(v)'
<1> DEFINE f == job[v].f
<1>1. LegacyOK(v) /\ f \in Existing /\ f \in Legacy /\ job'[v] = job[v]
  BY KindOfJob, Stored DEF UploadsInv, LegacyOK, Tame, JobMoves, Others
<1>2. job[w].op = "upload" => ~On(f, w)
  BY <1>1, KindOfJob DEF UploadOK, On
<1>3. /\ FormsOK(f) /\ Rewriting(f, v) /\ DiskMoves(w, f) /\ about'[f] = about[f]
      /\ JobMoves(w)
  <2>1. Rewriting(f, v)
    BY DEF Rewriting, On
  <2> QED BY <1>1, <2>1 DEF UploadsInv, Tame, Grows
<1>4. job[v].at = "remove" /\ "plain" \in disk'[f] => "enc" \in disk'[f]
  <2> SUFFICES ASSUME job[v].at = "remove", "plain" \in disk'[f], "enc" \notin disk'[f] PROVE FALSE
    OBVIOUS
  <2>1. "plain" \in disk[f] /\ "enc" \in disk[f]
    BY <1>1, <1>2, <1>3 DEF DiskMoves, LegacyOK, Stores
  <2>2. Listed(f, "enc", w)
    BY <1>2, <1>3, <2>1 DEF DiskMoves
  <2> QED BY <1>3, <2>1, <2>2 DEF FormsOK
<1>5. ASSUME job[v].at = "commit"
      PROVE  /\ disk'[f] = {"enc"} /\ f \notin quarantine'
             /\ \A a \in Workers \ {v} : ~(Rewriting(f, a)' /\ job'[a].at = "commit")
  <2>1. /\ disk[f] = {"enc"} /\ f \notin quarantine
        /\ \A a \in Workers \ {v} : ~(Rewriting(f, a) /\ job[a].at = "commit")
    BY <1>1, <1>5 DEF LegacyOK
  <2>2. ~Listed(f, "enc", w)
    BY <1>3, <1>5 DEF FormsOK
  <2>3. disk'[f] = {"enc"}
    BY <1>2, <1>3, <2>1, <2>2 DEF DiskMoves, Stores
  <2>4. f \notin quarantine'
    BY <1>2, <1>3, <2>1, <2>2 DEF DiskMoves
  <2>5. ~(Rewriting(f, w)' /\ job'[w].at = "commit")
    <3> SUFFICES ASSUME job'[w].f = f, job'[w].op = "legacy", job'[w].at = "commit" PROVE FALSE
      BY <1>1 DEF Rewriting, On
    <3>1. job'[w].f = job[w].f /\ "plain" \in disk[job[w].f]
      BY <1>3 DEF JobMoves
    <3> QED BY <2>1, <3>1
  <2> QED BY <1>1, <1>3, <2>1, <2>3, <2>4, <2>5 DEF JobMoves, Others, Rewriting, On
<1> QED BY <1>1, <1>3, <1>4, <1>5 DEF LegacyOK

LEMMA FlagKept ==
    ASSUME UploadsInv, NEW w \in Workers, Tame(w), TypeOK',
           NEW v \in Workers \ {w}, job[v].op = "flag"
    PROVE  FlagOK(v)'
BY KindOfJob DEF FlagOK, Tame, Grows, JobMoves, Others

LEMMA DeleteKept ==
    ASSUME UploadsInv, NEW w \in Workers, Tame(w), TypeOK',
           NEW v \in Workers \ {w}, job[v].op = "delete"
    PROVE  DeleteOK(v)'
<1> DEFINE u == job[v].u
<1>1. DeleteOK(v) /\ job'[v] = job[v] /\ Grows /\ JobMoves(w)
  BY KindOfJob DEF Tame, JobMoves, Others
<1>2. \A p \in job[v].list :
        /\ p \in Existing' \X (Forms \cup {"detached"}) /\ about'[p[1]].owner = u
        /\ p[1] \in Existing /\ about[p[1]].owner = u /\ p = <<p[1], p[2]>>
        /\ p[2] = "detached" => p[1] \in quarantine /\ p[1] \in quarantine'
        /\ p[2] \in Forms \cup {"detached"}
  BY <1>1 DEF DeleteOK, Grows
<1>3. \A g : Excused(g) => Excused(g)'
  BY <1>1 DEF Grows, Excused
\* A listed file is not the one of an upload, unless it is in the quarantine.
<1>4. \A p \in job[v].list : ~Excused(p[1]) /\ job[w].op = "upload" => ~On(p[1], w)
  BY <1>2, KindOfJob DEF UploadOK, On, Listed, Excused
<1>5. ASSUME job[v].at = "commit"
      PROVE  /\ \A f \in OwnedBy(u)' :
                    Named(f)' /\ f \notin FilesIn(job[v].list) =>
                        f \in raced' \/ about'[f].kind = "message"
             /\ \A p \in job[v].list :
                    ~Excused(p[1])' /\ (\A a \in Workers : ~Rewriting(p[1], a)')
                       => disk'[p[1]] \subseteq {p[2]}
  <2>1. ASSUME NEW f \in OwnedBy(u)', Named(f)', f \notin FilesIn(job[v].list),
               about'[f].kind # "message"
        PROVE  f \in raced'
    <3>1. f \in Existing /\ about[f].owner = u
      BY <1>1, <2>1 DEF OwnedBy, Named, Forms, JobMoves, Grows
    <3>2. CASE Named(f)
      BY <1>1, <1>5, <2>1, <3>1, <3>2 DEF DeleteOK, OwnedBy, Grows
    <3>3. CASE ~Named(f)
      <4>1. ref'[f] = "enc" /\ ref[f] # "enc"
        BY <2>1, <3>1, <3>3 DEF Tame, RefMoves, Named, Forms
      <4>2. f \in MissedByDeletion(f)
        <5>1. about[f].kind = "picture"
          BY <1>1, <2>1, <3>1, Stored DEF UploadsInv, Grows, About
        <5> QED BY <1>1, <1>5, <3>1, <5>1 DEF MissedByDeletion, DeleteOK
      <4> QED BY <3>1, <4>1, <4>2 DEF Tame, RefMoves
    <3> QED BY <3>2, <3>3
  <2>2. ASSUME NEW p \in job[v].list, ~Excused(p[1])', \A a \in Workers : ~Rewriting(p[1], a)'
        PROVE  disk'[p[1]] \subseteq {p[2]}
    <3>1. p[1] \in Existing /\ ~Excused(p[1]) /\ DiskMoves(w, p[1])
      BY <1>2, <1>3, <2>2 DEF Tame
    <3>2. ~Rewriting(p[1], w)
      <4>1. SUFFICES ASSUME Rewriting(p[1], w) PROVE FALSE
        OBVIOUS
      <4>2. \A a \in Workers : job'[a].op = "legacy" => ~On(p[1], a)'
        BY <2>2 DEF Rewriting
      <4>3. p[1] \in MissedByDeletion(p[1])
        BY <1>1, <1>2, <1>5, WorkerFields DEF MissedByDeletion, FilesIn
      <4>4. On(p[1], w) /\ job[w].op = "legacy"
        BY <4>1 DEF Rewriting
      <4>5. ~On(p[1], w)'
        BY <1>1, <3>1, <4>2, <4>4, OnKept DEF UploadsInv
      <4> QED BY <2>2, <3>1, <4>3, <4>4, <4>5 DEF Tame, Leaves, Excused
    <3>3. \A a \in Workers : ~Rewriting(p[1], a)
      BY <1>1, <2>2, <3>2 DEF JobMoves, Others, Rewriting, On
    <3>4. disk[p[1]] \subseteq {p[2]}
      BY <1>1, <1>5, <3>1, <3>3 DEF DeleteOK
    <3> QED BY <1>4, <3>1, <3>2, <3>4 DEF DiskMoves, Stores, Rewriting
  <2> QED BY <2>1, <2>2
<1>6. ASSUME job[v].at = "unlink", NEW p \in job[v].list
      PROVE  /\ ref'[p[1]] = "none"
             /\ ~Excused(p[1])' =>
                   disk'[p[1]] \subseteq {p[2]} /\ \A a \in Workers : ~On(p[1], a)'
  <2>1. /\ p[1] \in Existing /\ ref[p[1]] = "none" /\ u \in gone
        /\ DiskMoves(w, p[1]) /\ RefMoves(w, p[1])
        /\ ~Excused(p[1]) => disk[p[1]] \subseteq {p[2]} /\ \A a \in Workers : ~On(p[1], a)
    BY <1>1, <1>2, <1>6 DEF DeleteOK, Tame
  <2>2. ref'[p[1]] # "enc"
    <3>1. SUFFICES ASSUME ref'[p[1]] = "enc" PROVE FALSE
      OBVIOUS
    <3>2. On(p[1], w) /\ job[w].op = "upload" /\ job[w].at = "commit"
      BY <1>2, <1>6, <2>1, <3>1 DEF RefMoves, Named, Forms
    <3>3. p[2] = "detached"
      BY <1>2, <1>6, <3>2, KindOfJob DEF UploadOK, On, Listed
    <3> QED BY <1>2, <1>6, <3>2, <3>3, KindOfJob DEF UploadOK, On
  <2>3. ref'[p[1]] = "none"
    <3>1. ref'[p[1]] \in Forms \cup {"none", "detached"}
      BY <2>1, Stored DEF UploadsInv, TypeOK
    <3> QED BY <2>1, <2>2, <3>1 DEF RefMoves, Named, Forms
  <2>4. ASSUME ~Excused(p[1])'
        PROVE  disk'[p[1]] \subseteq {p[2]} /\ \A a \in Workers : ~On(p[1], a)'
    <3>1. disk[p[1]] \subseteq {p[2]} /\ \A a \in Workers : ~On(p[1], a)
      BY <1>3, <2>1, <2>4
    <3>2. disk'[p[1]] \subseteq {p[2]}
      BY <2>1, <3>1 DEF DiskMoves, Stores
    <3>3. \A a \in Workers : ~On(p[1], a)'
      BY <1>1, <2>1, <3>1, Stored DEF UploadsInv, JobMoves, Others, On, Idle
    <3> QED BY <3>2, <3>3
  <2> QED BY <2>3, <2>4
<1> QED BY <1>1, <1>2, <1>5, <1>6 DEF DeleteOK, Grows

LEMMA OthersKept ==
    ASSUME UploadsInv, NEW w \in Workers, Tame(w), TypeOK',
           NEW v \in Workers \ {w}
    PROVE  JobOK(v)'
<1>1. job'[v] = job[v]
  BY DEF Tame, JobMoves, Others
<1>2. CASE job[v] = Idle
  BY <1>1, <1>2 DEF JobOK, Idle
<1> QED BY <1>1, <1>2, WorkerFields, UploadKept, LegacyKept, FlagKept, DeleteKept
    DEF UploadsInv, JobOK

LEMMA FormsKept ==
    ASSUME UploadsInv, NEW w \in Workers, Tame(w), TypeOK', NEW f \in Existing
    PROVE  FormsOK(f)'
<1>1. FormsOK(f) /\ DiskMoves(w, f) /\ RefMoves(w, f) /\ Leaves(w, f) /\ JobMoves(w) /\ Grows
  BY DEF UploadsInv, Tame
<1>2. \A v \in Workers \ {w} : job'[v] = job[v]
  BY <1>1 DEF JobMoves, Others
<1>3. \A v \in Workers : \A x : Listed(f, x, v)' => Listed(f, x, v) \/ (ref[f] = x /\ x # "none")
  BY <1>1, <1>2 DEF JobMoves, Listed
<1>4. ref'[f] = "plain" \/ (\E v \in Workers : Listed(f, "plain", v)') => f \in Legacy
  BY <1>1, <1>3 DEF FormsOK, RefMoves
\* Nobody may be about to name the file again.
<1>5. ASSUME ref'[f] = "enc" \/ \E v \in Workers : Listed(f, "enc", v)'
      PROVE  "plain" \notin disk'[f] /\ \A v \in Workers : Rewriting(f, v)' => job'[v].at # "commit"
  <2>1. CASE ref[f] = "enc" \/ \E v \in Workers : Listed(f, "enc", v)
    <3>1. "plain" \notin disk[f] /\ \A v \in Workers : Rewriting(f, v) => job[v].at # "commit"
      BY <1>1, <2>1 DEF FormsOK
    <3>2. Rewriting(f, w)' => job'[w].at # "commit"
      BY <1>1, <3>1 DEF JobMoves, Rewriting, On
    <3>3. ~Stores(w, f)
      BY <2>1, StoresAlone DEF Forms
    <3> QED BY <1>1, <1>2, <3>1, <3>2, <3>3 DEF DiskMoves, Rewriting, On
  <2>2. CASE ref[f] # "enc" /\ \A v \in Workers : ~Listed(f, "enc", v)
    <3>1. ref'[f] = "enc"
      BY <1>3, <1>5, <2>2
    <3>2. On(f, w) /\ job[w].op \in {"upload", "legacy"} /\ job[w].at = "commit" /\ job'[w] = Idle
      BY <1>1, <2>2, <3>1 DEF RefMoves
    <3>3. disk[f] = {"enc"} /\ \A v \in Workers \ {w} : Rewriting(f, v) => job[v].at # "commit"
      BY <3>2, KindOfJob DEF UploadOK, LegacyOK, On, Rewriting
    <3> QED BY <1>1, <1>2, <3>2, <3>3 DEF DiskMoves, Stores, Rewriting, On, Idle
  <2> QED BY <2>1, <2>2
<1>6. ASSUME ref'[f] = "plain", f \notin cut', \A v \in Workers : ~Rewriting(f, v)'
      PROVE  "enc" \notin disk'[f]
  <2>1. ref[f] = "plain" /\ f \notin cut
    BY <1>1, <1>6 DEF RefMoves, Grows
  <2>2. ~Rewriting(f, w)
    <3>1. SUFFICES ASSUME Rewriting(f, w) PROVE FALSE
      OBVIOUS
    <3>2. On(f, w) /\ job[w].op = "legacy"
      BY <3>1 DEF Rewriting
    <3>3. On(f, w)'
      BY <1>1, <1>6, <3>2 DEF Leaves
    <3> QED BY <1>1, <1>6, <3>2, <3>3, OnKept DEF UploadsInv, Rewriting
  <2>3. "enc" \notin disk[f]
    BY <1>1, <1>2, <1>6, <2>1, <2>2 DEF FormsOK, Rewriting, On
  <2>4. job[w].op = "upload" => ~On(f, w)
    BY <2>1, KindOfJob DEF UploadOK, On
  <2> QED BY <1>1, <2>2, <2>3, <2>4 DEF DiskMoves, Rewriting
<1> QED BY <1>4, <1>5, <1>6 DEF FormsOK


\* A row that comes to name a file finds it, and the file is not quarantined.
LEMMA NewlyNamed ==
    ASSUME UploadsInv, NEW w \in Workers, Tame(w), NEW f \in Existing,
           ref'[f] = "enc", ref[f] # "enc"
    PROVE  f \notin quarantine /\ disk[f] = {"enc"} /\ "enc" \in disk'[f] /\ ref[f] # "detached"
<1>1. /\ On(f, w) /\ job[w].op \in {"upload", "legacy"} /\ job[w].at = "commit"
      /\ "enc" \in disk'[f]
  BY DEF Tame, RefMoves
<1>2. disk[f] = {"enc"} /\ f \notin quarantine
  BY <1>1, KindOfJob DEF UploadOK, LegacyOK, On
<1> QED BY <1>1, <1>2 DEF UploadsInv, QuarantineOK

LEMMA QuarantineKept ==
    ASSUME UploadsInv, NEW w \in Workers, Tame(w), TypeOK', NEW f \in Existing
    PROVE  QuarantineOK(f)'
<1>1. /\ FormsOK(f) /\ QuarantineOK(f) /\ DiskMoves(w, f) /\ RefMoves(w, f) /\ Grows
      /\ disk[f] \subseteq Forms /\ f \in Files
  BY Stored DEF UploadsInv, Tame
<1>2. ref'[f] = "detached" => f \in quarantine'
  <2>1. CASE ref[f] = "detached"
    BY <1>1, <2>1 DEF QuarantineOK, Grows
  <2>2. CASE ref[f] # "detached"
    BY <1>1, <2>2 DEF RefMoves, Grows
  <2> QED BY <2>1, <2>2
<1>3. ASSUME f \in quarantine'
      PROVE  "plain" \notin disk'[f] /\ ~Resolves(f)'
  <2>1. CASE f \in quarantine
    <3>1. "plain" \notin disk[f] /\ ~Resolves(f)
      BY <1>1, <2>1 DEF QuarantineOK
    <3>2. disk'[f] \subseteq disk[f]
      BY <1>1, <2>1, <3>1, StoresAlone DEF DiskMoves
    <3>3. ref'[f] = "enc" => ref[f] = "enc"
      BY <2>1, NewlyNamed
    <3> QED BY <3>1, <3>2, <3>3 DEF Resolves, Named, Forms
  <2>2. CASE f \notin quarantine
    <3>1. ref'[f] = ref[f]
      BY <1>1, <1>3, <2>2 DEF DiskMoves
    <3>2. CASE disk'[f] = {}
      BY <3>2 DEF Resolves
    <3>3. ASSUME NEW x \in disk[f], Listed(f, x, w), disk'[f] = disk[f] \ {x}
          PROVE  "plain" \notin disk'[f] /\ ~Resolves(f)'
      <4>1. CASE x = "plain"
        BY <1>1, <3>1, <3>3, <4>1 DEF FormsOK, Resolves, Named, Forms
      <4>2. CASE x = "enc"
        BY <1>1, <3>1, <3>3, <4>2 DEF FormsOK, Resolves, Named, Forms
      <4> QED BY <1>1, <4>1, <4>2 DEF Forms
    <3> QED BY <1>1, <1>3, <2>2, <3>2, <3>3 DEF DiskMoves
  <2> QED BY <2>1, <2>2
<1> QED BY <1>2, <1>3 DEF QuarantineOK

\* What no worker lists for removal or works on, and no row names, is gone.
LEMMA OrphanKept ==
    ASSUME UploadsInv, NEW w \in Workers, Tame(w), TypeOK', NEW f \in Existing
    PROVE  NoOrphan(f)'
<1> SUFFICES ASSUME ref'[f] = "none", ~Excused(f)', \A v \in Workers : ~On(f, v)',
                    \A v \in Workers : job'[v].at = "unlink" => f \notin FilesIn(job'[v].list)
             PROVE  disk'[f] = {}
  BY DEF NoOrphan
<1>1. /\ NoOrphan(f) /\ FormsOK(f) /\ QuarantineOK(f) /\ Grows
      /\ DiskMoves(w, f) /\ RefMoves(w, f) /\ Leaves(w, f)
      /\ disk[f] \subseteq Forms /\ disk'[f] \subseteq Forms /\ f \in Files
  BY Stored DEF UploadsInv, Tame, TypeOK
<1>2. ~Excused(f)
  BY <1>1 DEF Excused, Grows
<1>3. \A v \in Workers \ {w} :
        ~On(f, v) /\ (job[v].at = "unlink" => f \notin FilesIn(job[v].list))
  BY DEF Tame, JobMoves, Others, On
<1>4. CASE On(f, w)
  <2>1. ~On(f, w)' /\ f \notin cut'
    BY DEF Excused
  <2> QED BY <1>1, <1>4, <2>1 DEF Leaves
<1>5. CASE ~On(f, w) /\ ref[f] = "none" /\ (job[w].at = "unlink" => f \notin FilesIn(job[w].list))
  <2>1. disk[f] = {}
    BY <1>1, <1>2, <1>3, <1>5 DEF NoOrphan
  <2> QED BY <1>1, <1>5, <2>1 DEF DiskMoves, Stores
<1>6. CASE job[w].at = "unlink" /\ f \in FilesIn(job[w].list)
  <2>1. DeleteOK(w)
    BY <1>6, WorkerFields, KindOfJob DEF UploadsInv, UploadOK, LegacyOK, FlagOK
  <2>2. PICK p \in job[w].list : p[1] = f
    BY <1>6 DEF FilesIn
  <2>3. /\ p = <<f, p[2]>> /\ p[2] \in Forms \cup {"detached"} /\ disk[f] \subseteq {p[2]}
    BY <1>2, <1>6, <2>1, <2>2 DEF DeleteOK
  <2>4. Listed(f, p[2], w)
    BY <2>2, <2>3 DEF Listed
  <2>5. p[2] \notin disk'[f]
    BY <1>1, <1>6, <2>3, <2>4 DEF Leaves, Excused
  <2>6. "enc" \in disk'[f] => "enc" \in disk[f]
    <3>1. ~On(f, w)
      BY <1>1, <2>1, Stored DEF UploadsInv, DeleteOK, On
    <3> QED BY <1>1, <3>1 DEF DiskMoves
  <2> QED BY <1>1, <1>6, <2>3, <2>5, <2>6 DEF DiskMoves, Stores
<1>7. CASE ~On(f, w) /\ ref[f] # "none"
  <2>1. Named(f) /\ disk'[f] = disk[f] /\ ref[f] \notin disk[f]
    BY <1>1, <1>7 DEF RefMoves, Excused
  <2>2. CASE ref[f] = "plain"
    <3>1. "enc" \notin disk[f]
      BY <1>1, <1>2, <1>3, <1>7, <2>2 DEF FormsOK, Rewriting, Excused
    <3> QED BY <1>1, <2>1, <2>2, <3>1 DEF Forms
  <2>3. CASE ref[f] = "enc"
    BY <1>1, <2>1, <2>3 DEF FormsOK, Forms
  <2> QED BY <2>1, <2>2, <2>3 DEF Named, Forms
<1> QED BY <1>4, <1>5, <1>6, <1>7

LEMMA BytesKept ==
    ASSUME UploadsInv, NEW w \in Workers, Tame(w), TypeOK', NEW f \in Existing, Named(f)'
    PROVE  disk'[f] # {} \/ f \in quarantine' \cup dropped'
<1>1. DiskMoves(w, f) /\ RefMoves(w, f) /\ Grows
  BY DEF Tame
<1>2. CASE Named(f)
  <2>1. disk[f] # {} \/ f \in quarantine \cup dropped
    BY <1>2 DEF UploadsInv, NoBytesLost
  <2> QED BY <1>1, <2>1 DEF DiskMoves, Grows
<1>3. CASE ~Named(f)
  <2>1. ref'[f] = "enc" /\ ref[f] # "enc"
    BY <1>1, <1>3 DEF RefMoves, Named, Forms
  <2> QED BY <2>1, NewlyNamed
<1> QED BY <1>2, <1>3

LEMMA RowsKept ==
    ASSUME UploadsInv, NEW w \in Workers, Tame(w), TypeOK', NEW f \in Existing, Named(f)'
    PROVE  Resolves(f)' \/ (\E v \in Workers : job'[v].f = f) \/ f \in cut' \cup dropped'
<1> SUFFICES ASSUME \A v \in Workers : ~On(f, v)', f \notin cut' \cup dropped' PROVE Resolves(f)'
  BY DEF On
<1>1. DiskMoves(w, f) /\ RefMoves(w, f) /\ Leaves(w, f) /\ Grows
  BY DEF Tame
<1>2. CASE ref'[f] = "enc" /\ ref[f] # "enc"
  BY <1>2, NewlyNamed DEF Resolves
<1>3. CASE ref'[f] = ref[f] /\ ~On(f, w)
  <2>1. \A v \in Workers : job[v].f # f
    BY <1>3 DEF Tame, JobMoves, Others, On
  <2>2. Resolves(f)
    BY <1>1, <1>3, <2>1 DEF UploadsInv, RowsResolve, Named, Grows
  <2> QED BY <1>1, <1>3, <2>2 DEF DiskMoves, Resolves, Named
<1>4. CASE On(f, w)
  BY <1>1, <1>4 DEF Leaves
<1> QED BY <1>1, <1>2, <1>3, <1>4 DEF RefMoves, Named, Forms

LEMMA EncryptionKept ==
    ASSUME UploadsInv, NEW w \in Workers, Tame(w), TypeOK', NEW f \in Existing \ Legacy
    PROVE  /\ ref'[f] # "plain"
           /\ "plain" \in disk'[f] => f \in cut' \/ \E v \in Workers : job'[v].f = f
<1>1. DiskMoves(w, f) /\ RefMoves(w, f) /\ Leaves(w, f) /\ Grows
  BY DEF Tame
<1>2. /\ ref[f] # "plain"
      /\ "plain" \in disk[f] => f \in cut \/ \E v \in Workers : On(f, v)
  BY DEF UploadsInv, EncryptedAtRest, On
<1>3. \A v \in Workers \ {w} : On(f, v)' <=> On(f, v)
  BY DEF Tame, JobMoves, Others, On
<1>4. ASSUME "plain" \in disk'[f], f \notin cut' PROVE \E v \in Workers : On(f, v)'
  <2>1. \E v \in Workers : On(f, v)
    BY <1>1, <1>2, <1>4 DEF DiskMoves, Stores, Grows
  <2>2. On(f, w) => On(f, w)'
    BY <1>1, <1>4 DEF Leaves
  <2> QED BY <1>3, <2>1, <2>2
<1> QED BY <1>1, <1>2, <1>4 DEF RefMoves, On

LEMMA ErasureKept ==
    ASSUME UploadsInv, NEW w \in Workers, Tame(w), TypeOK', NEW f \in Existing
    PROVE  Erased(f)'
<1>1. /\ DiskMoves(w, f) /\ RefMoves(w, f) /\ Leaves(w, f) /\ Grows /\ f \in Files
      /\ ref'[f] \in Forms \cup {"none", "detached"}
  BY Stored DEF UploadsInv, Tame, TypeOK
<1> SUFFICES ASSUME about'[f].owner \in gone', ~Excused(f)', about[f].owner \in gone PROVE Erased(f)'
  BY <1>1 DEF Tame, Erased, Grows
<1>2. ~Excused(f)
  BY <1>1 DEF Excused, Grows
<1>3. CASE disk[f] = {} /\ ~Named(f)
  <2>1. disk'[f] = {}
    <3>1. ~Stores(w, f)
      BY <1>2, StoresAlone DEF Excused
    <3> QED BY <1>1, <1>3, <3>1 DEF DiskMoves
  <2>2. ref'[f] # "enc"
    BY <1>3, NewlyNamed DEF Named, Forms
  <2>3. ~Named(f)'
    BY <1>1, <1>3, <2>2 DEF RefMoves, Named, Forms
  <2> QED BY <2>1, <2>3 DEF Erased
<1>4. ASSUME NEW v \in Workers, job[v].at = "unlink", f \in FilesIn(job[v].list) PROVE Erased(f)'
  <2>1. CASE job'[v] = job[v]
    BY <1>4, <2>1 DEF Erased
  <2>2. CASE job'[v] # job[v]
    <3>1. v = w
      BY <2>2 DEF Tame, JobMoves, Others
    <3>2. DeleteOK(v)
      BY <1>4, WorkerFields, KindOfJob DEF UploadsInv, UploadOK, LegacyOK, FlagOK
    <3>3. PICK p \in job[v].list : p[1] = f
      BY <1>4 DEF FilesIn
    <3>4. /\ p = <<f, p[2]>> /\ p[2] \in Forms \cup {"detached"} /\ disk[f] \subseteq {p[2]}
          /\ ref[f] = "none" /\ ~On(f, w)
      BY <1>2, <1>4, <3>1, <3>2, <3>3 DEF DeleteOK
    <3>5. p[2] \notin disk'[f] \/ job'[w] = job[w]
      BY <1>1, <1>4, <3>1, <3>3, <3>4 DEF Leaves, Excused, Listed
    <3>6. disk'[f] \subseteq disk[f]
      BY <1>1, <3>4 DEF DiskMoves, Stores
    <3>7. disk'[f] = {}
      BY <2>2, <3>1, <3>4, <3>5, <3>6
    <3>8. ref'[f] = "none"
      BY <1>1, <3>4 DEF RefMoves, Named, Forms
    <3> QED BY <3>7, <3>8 DEF Erased, Named, Forms
  <2> QED BY <2>1, <2>2
<1> QED BY <1>2, <1>3, <1>4 DEF UploadsInv, ErasedWithAccount, Excused

\* A new file is its worker's.
LEMMA NewFile ==
    ASSUME UploadsInv, NEW w \in Workers, Tame(w), TypeOK', NEW f \in Existing' \ Existing
    PROVE  /\ FormsOK(f)' /\ QuarantineOK(f)' /\ NoOrphan(f)'
           /\ ~Named(f)' /\ ref'[f] = "none" /\ On(f, w)'
           /\ about'[f].owner \notin gone'
<1>1. On(f, w)' /\ ref'[f] = "none" /\ f \notin quarantine' /\ about'[f].owner \notin gone'
  BY DEF Tame, JobMoves, On
<1>2. \A v \in Workers : \A x : ~Listed(f, x, v)'
  BY InHand DEF Tame, JobMoves, Others, Listed, FilesIn
<1> QED BY <1>1, <1>2 DEF FormsOK, QuarantineOK, NoOrphan, Resolves, Named, Forms

LEMMA TameInv ==
    ASSUME UploadsInv, NEW w \in Workers, Tame(w), TypeOK', JobOK(w)'
    PROVE  UploadsInv'
<1>1. \A v \in Workers : JobOK(v)'
  BY OthersKept
<1>2. \A f \in Existing' : FormsOK(f)' /\ QuarantineOK(f)' /\ NoOrphan(f)'
  BY FormsKept, QuarantineKept, OrphanKept, NewFile
<1>3. \A f \in Files \ Existing' : Unused(f)'
  BY DEF Tame, JobMoves
<1>4. NoBytesLost'
  BY BytesKept, NewFile DEF NoBytesLost
<1>5. RowsResolve'
  BY RowsKept, NewFile DEF RowsResolve
<1>6. EncryptedAtRest'
  BY EncryptionKept, NewFile DEF EncryptedAtRest, On
<1>7. ErasedWithAccount'
  BY ErasureKept, NewFile DEF ErasedWithAccount, Erased, Excused
<1> QED BY <1>1, <1>2, <1>3, <1>4, <1>5, <1>6, <1>7 DEF UploadsInv


-----------------------------------------------------------------------------
(* The steps that begin.                                                   *)

LEMMA BeginLegacyInv ==
    ASSUME UploadsInv, NEW w \in Workers, NEW f \in Existing, BeginLegacy(w, f)
    PROVE  UploadsInv'
<1> DEFINE j == [Idle EXCEPT !.op = "legacy", !.at = "seal", !.f = f, !.u = about[f].owner]
<1>1. TypeOK /\ f \in Files /\ f \in 0..MaxFile /\ about[f].owner \in Users
  BY Stored DEF UploadsInv, About, Files
<1>2. /\ j \in Job /\ j.op = "legacy" /\ j.at = "seal" /\ j.f = f
      /\ j.u = about[f].owner /\ j.list = {} /\ j # Idle
  BY <1>1 DEF Idle, Job
<1>3. job' \in Jobs /\ Others(w) /\ job'[w] = j
  BY <1>1, <1>2, StartStep DEF BeginLegacy
<1>4. /\ UNCHANGED <<disk, about, ref, blocked, quarantine, banned, gone, used, histories>>
      /\ job[w] = Idle /\ ref[f] = "plain" /\ Named(f)
  BY DEF BeginLegacy, Pending, Named, Forms
<1>5. f \in Legacy
  BY <1>4 DEF UploadsInv, FormsOK
<1>6. TakesUp(w)
  BY <1>2, <1>3, <1>4 DEF TakesUp
<1>7. JobOK(w)'
  BY <1>2, <1>3, <1>4, <1>5 DEF JobOK, LegacyOK
<1> QED BY <1>2, <1>3, <1>6, <1>7, TakesUpInv

LEMMA BeginFlagInv ==
    ASSUME UploadsInv, NEW w \in Workers, NEW f \in Existing, BeginFlag(w, f)
    PROVE  UploadsInv'
<1> DEFINE j == [op |-> "flag", at |-> "move", f |-> f, list |-> {<<f, ref[f]>>},
                 u |-> IF about[f].sender \in gone THEN NoUser ELSE about[f].sender,
                 fresh |-> FALSE]
<1>1. /\ TypeOK /\ f \in Files /\ f \in 0..MaxFile /\ about[f].sender \in Users \cup {NoUser}
      /\ ref[f] \in Forms /\ Named(f) /\ about[f].kind = "message"
  BY Stored DEF UploadsInv, About, Files, BeginFlag, Resolves, Named
<1>2. /\ j \in Job /\ j.op = "flag" /\ j.at = "move" /\ j.f = f /\ j.list = {<<f, ref[f]>>}
  BY <1>1 DEF Job, Paths
<1>3. job' \in Jobs /\ Others(w) /\ job'[w] = j
  BY <1>1, <1>2, StartStep DEF BeginFlag
<1>4. /\ UNCHANGED <<disk, about, ref, blocked, quarantine, banned, gone, used, histories>>
      /\ job[w] = Idle
  BY DEF BeginFlag
<1> HIDE DEF j
<1>5. TakesUp(w)
  BY <1>1, <1>2, <1>3, <1>4 DEF TakesUp, Named, Forms
<1>6. FlagOK(w)'
  BY <1>1, <1>2, <1>3, <1>4 DEF FlagOK, Existing
<1> QED BY <1>2, <1>3, <1>5, <1>6, TakesUpInv DEF JobOK

LEMMA BeginDeleteInv ==
    ASSUME UploadsInv, NEW w \in Workers, NEW u \in Users, BeginDelete(w, u)
    PROVE  UploadsInv'
<1> DEFINE paths == PathsOf(OwnedBy(u))
           j == [Idle EXCEPT !.op = "delete", !.at = "commit", !.u = u, !.list = paths]
<1>1. TypeOK /\ Existing \subseteq Files
  BY Stored DEF UploadsInv
<1>2. \A p \in paths :
        /\ p = <<p[1], p[2]>> /\ p[1] \in Existing /\ about[p[1]].owner = u
        /\ p[2] = ref[p[1]] /\ p[2] # "none" /\ p[2] \in Forms \cup {"detached"}
        /\ p \in Paths /\ p \in Existing \X (Forms \cup {"detached"})
  <2> SUFFICES ASSUME NEW p \in paths
               PROVE  /\ p = <<p[1], p[2]>> /\ p[1] \in Existing /\ about[p[1]].owner = u
                      /\ p[2] = ref[p[1]] /\ p[2] # "none" /\ p[2] \in Forms \cup {"detached"}
                      /\ p \in Paths /\ p \in Existing \X (Forms \cup {"detached"})
    OBVIOUS
  <2>1. PICK g \in OwnedBy(u) : ref[g] # "none" /\ p = <<g, ref[g]>>
    BY DEF PathsOf
  <2>2. g \in Existing /\ g \in Files /\ about[g].owner = u /\ ref[g] \in Forms \cup {"detached"}
    BY <1>1, <2>1 DEF OwnedBy, TypeOK
  <2> QED BY <2>1, <2>2 DEF Paths
<1> HIDE DEF paths
<1>3. /\ j \in Job /\ j.op = "delete" /\ j.at = "commit" /\ j.f = 0
      /\ j.u = u /\ j.list = paths
  <2>1. paths \subseteq Paths /\ 0 \in 0..MaxFile
    BY <1>2, UploadsAssumption
  <2> QED BY <2>1 DEF Idle, Job
<1>4. job' \in Jobs /\ Others(w) /\ job'[w] = j
  BY <1>1, <1>3, StartStep DEF BeginDelete, paths
<1>5. /\ UNCHANGED <<disk, about, ref, blocked, quarantine, banned, gone, used, cut, dropped, raced>>
      /\ job[w] = Idle
  BY DEF BeginDelete, histories
<1> HIDE DEF j
<1>6. TakesUp(w)
  BY <1>2, <1>3, <1>4, <1>5 DEF TakesUp, histories
<1>7. DeleteOK(w)'
  <2>1. \A f \in OwnedBy(u) : Named(f) => f \in FilesIn(paths)
    <3> SUFFICES ASSUME NEW f \in OwnedBy(u), Named(f) PROVE f \in FilesIn(paths)
      OBVIOUS
    <3>1. <<f, ref[f]>> \in paths
      BY PathOfNamed DEF Named, Forms, paths
    <3> QED BY <3>1 DEF FilesIn
  <2>2. \A p \in paths :
          /\ p[2] = "detached" => p[1] \in quarantine
          /\ ~Excused(p[1]) /\ (\A v \in Workers : ~Rewriting(p[1], v)')
                => disk[p[1]] \subseteq {p[2]}
    <3> SUFFICES ASSUME NEW p \in paths
                 PROVE  /\ p[2] = "detached" => p[1] \in quarantine
                        /\ ~Excused(p[1]) /\ (\A v \in Workers : ~Rewriting(p[1], v)')
                              => disk[p[1]] \subseteq {p[2]}
      OBVIOUS
    <3>1. /\ FormsOK(p[1]) /\ QuarantineOK(p[1]) /\ p[2] = ref[p[1]]
          /\ p[2] \in Forms \cup {"detached"} /\ disk[p[1]] \subseteq Forms
      BY <1>1, <1>2, Stored DEF UploadsInv
    <3>2. (\A v \in Workers : ~Rewriting(p[1], v)') => \A v \in Workers : ~Rewriting(p[1], v)
      BY <1>4, <1>5 DEF Rewriting, On, Others, Idle
    <3> QED BY <3>1, <3>2 DEF FormsOK, QuarantineOK, Excused, Forms
  <2>3. /\ job'[w].f = 0 /\ job'[w].u = u /\ job'[w].list = paths /\ job'[w].at = "commit"
    BY <1>3, <1>4
  <2>4. OwnedBy(u)' = OwnedBy(u) /\ Existing' = Existing
    BY <1>5 DEF OwnedBy, Existing
  <2>5. \A p \in paths : Excused(p[1])' <=> Excused(p[1])
    BY <1>5 DEF Excused
  <2> QED BY <1>2, <1>5, <2>1, <2>2, <2>3, <2>4, <2>5 DEF DeleteOK, Named
<1> QED BY <1>3, <1>4, <1>6, <1>7, TakesUpInv DEF JobOK


-----------------------------------------------------------------------------
(* An upload, up to its commit.                                            *)

LEMMA BeginUploadInv ==
    ASSUME UploadsInv, NEW w \in Workers, NEW a \in About, BeginUpload(w, a)
    PROVE  UploadsInv'
\* The new file, named so that a prime leaves it alone
<1>0. PICK f : f = used + 1
  OBVIOUS
\* Its owner, likewise
<1>. PICK u : u = a.owner
  OBVIOUS
<1> DEFINE list == IF a.kind = "picture" THEN PathsOf(PictureOf(u)) ELSE {}
           j == [op |-> "upload", at |-> "save", f |-> f, u |-> a.sender, fresh |-> FALSE,
                 list |-> list]
<1>1. /\ TypeOK /\ Existing \subseteq Files /\ used \in Nat /\ used >= 1 /\ f \in Files /\ f \in 0..MaxFile
      /\ f \notin Existing /\ f # 0 /\ f # 1
  BY <1>0, Stored, UploadsAssumption DEF UploadsInv, BeginUpload, Files, Existing
<1>2. \A p \in list :
        /\ p = <<p[1], p[2]>> /\ p[1] \in Existing /\ about[p[1]].owner = u
        /\ about[p[1]].kind = "picture"
        /\ p[2] = ref[p[1]] /\ p[2] # "none" /\ p[2] \in Forms
        /\ p \in Paths
  <2> SUFFICES ASSUME NEW p \in PathsOf(PictureOf(u))
               PROVE  /\ p = <<p[1], p[2]>> /\ p[1] \in Existing /\ about[p[1]].owner = u
                      /\ about[p[1]].kind = "picture"
                      /\ p[2] = ref[p[1]] /\ p[2] # "none" /\ p[2] \in Forms
                      /\ p \in Paths
    OBVIOUS
  <2>1. PICK g \in PictureOf(u) : ref[g] # "none" /\ p = <<g, ref[g]>>
    BY DEF PathsOf
  <2>2. /\ g \in Existing /\ g \in Files /\ about[g].owner = u /\ about[g].kind = "picture"
        /\ ref[g] \in Forms
    BY <1>1, <2>1 DEF PictureOf, OwnedBy, Named
  <2> QED BY <2>1, <2>2 DEF Paths
<1>3. list # {} => a.kind = "picture"
  OBVIOUS
<1> HIDE DEF list
<1>4. j \in Job /\ j.op = "upload" /\ j.at = "save" /\ j.f = f /\ j.list = list
  <2>1. list \subseteq Paths /\ a.sender \in Users \cup {NoUser}
    BY <1>2 DEF About
  <2> QED BY <1>1, <2>1 DEF Job
<1>5. job' \in Jobs /\ Others(w) /\ job'[w] = j
  BY <1>0, <1>1, <1>4, StartStep DEF BeginUpload, list
<1> HIDE DEF j
<1>6. /\ job[w] = Idle /\ used' = f /\ u \notin gone
      /\ about' = [about EXCEPT ![f] = a]
      /\ UNCHANGED <<disk, ref, blocked, quarantine, banned, gone, cut, dropped, raced>>
  BY <1>0 DEF BeginUpload, histories
<1>7. /\ Existing \subseteq Existing' /\ Existing' = Existing \cup {f}
  BY <1>0, <1>1, <1>6 DEF Existing
<1>8. /\ about'[f] = a /\ about'[f].owner = u /\ disk'[f] = {}
      /\ \A g \in Files \ {f} : about'[g] = about[g] /\ disk'[g] = disk[g]
      /\ Unused(f)
  BY <1>1, <1>6 DEF TypeOK, UploadsInv, Unused
<1>9. TypeOK'
  <2>1. \A g \in Files : ref[g] = "detached" => about'[g].kind = "message"
    BY <1>1, <1>8 DEF TypeOK, Unused
  <2>2. about' \in [Files -> About] /\ disk' \in [Files -> SUBSET Forms]
    BY <1>1, <1>6, <1>8 DEF TypeOK, Forms
  <2> QED BY <1>1, <1>5, <1>6, <1>7, <2>1, <2>2 DEF TypeOK, Jobs
<1>10. /\ \A v \in Workers \ {w} : ~On(f, v)'
       /\ \A v \in Workers : \A x : <<f, x>> \notin job'[v].list
  <2>1. \A v \in Workers \ {w} : job[v].f # f
    BY <1>1, InHand
  <2>2. \A v \in Workers : \A x : <<f, x>> \notin job[v].list
    BY <1>1, InHand DEF FilesIn
  <2> QED BY <1>1, <1>2, <1>4, <1>5, <2>1, <2>2 DEF On, Others
<1>11. UploadOK(w)'
  <2>1. job'[w].f = f /\ job'[w].list = list /\ job'[w].at = "save"
    BY <1>4, <1>5
  <2>2. /\ f \in Existing' \ Legacy /\ f \notin quarantine'
    <3>1. quarantine \subseteq Existing /\ quarantine' = quarantine
      BY <1>1, <1>6 DEF TypeOK
    <3> QED BY <1>1, <1>7, <3>1 DEF Legacy
  <2>3. \A p \in list :
          /\ p \in Existing' \X Forms
          /\ about'[p[1]].kind = "picture" /\ about'[p[1]].owner = u
    BY <1>1, <1>2, <1>7, <1>8
  <2>4. \A v \in Workers, x \in Forms : ~Listed(f, x, v)'
    BY <1>10 DEF Listed
  <2>5. \A v \in Workers \ {w} : job'[v].f # f
    BY <1>10 DEF On
  <2> QED BY <1>3, <1>6, <1>8, <2>1, <2>2, <2>3, <2>4, <2>5 DEF UploadOK, Unused, On, Listed
<1>12. Tame(w)
  <2>1. Grows
    BY <1>1, <1>6, <1>7, <1>8 DEF Grows
  <2>2. JobMoves(w)
    <3>1. \A g \in Files \ Existing' : Unused(g)'
      BY <1>1, <1>6, <1>7, <1>8 DEF UploadsInv, Unused
    <3> QED BY <1>1, <1>2, <1>4, <1>5, <1>6, <1>7, <1>8, <3>1 DEF JobMoves, Unused, TypeOK
  <2>3. ASSUME NEW g \in Existing PROVE DiskMoves(w, g) /\ RefMoves(w, g) /\ Leaves(w, g)
    <3>1. disk'[g] = disk[g] /\ ref'[g] = ref[g]
      BY <1>1, <1>6, <1>8
    <3>2. ~On(g, w) /\ job[w].at = "idle"
      BY <1>1, <1>6, Stored DEF On, Idle
    <3> QED BY <1>6, <3>1, <3>2 DEF DiskMoves, RefMoves, Leaves, Resolves, Named
  <2> QED BY <1>6, <2>1, <2>2, <2>3 DEF Tame
<1> QED BY <1>4, <1>5, <1>9, <1>11, <1>12, TameInv DEF JobOK

\* What a worker at a place is doing
LEMMA PlaceOfJob ==
    ASSUME UploadsInv, NEW w \in Workers, job[w].at # "idle"
    PROVE  /\ job[w] # Idle /\ job[w] \in Job
           /\ job[w].at \in {"save", "screen", "ban", "swap"} => job[w].op = "upload" /\ UploadOK(w)
           /\ job[w].at \in {"seal", "remove"} =>
                 \/ job[w].op = "upload" /\ UploadOK(w)
                 \/ job[w].op = "legacy" /\ LegacyOK(w)
           /\ job[w].at \in {"move", "record"} => job[w].op = "flag" /\ FlagOK(w)
           /\ job[w].at = "unlink" => job[w].op = "delete" /\ DeleteOK(w)
BY WorkerFields, KindOfJob DEF UploadsInv, UploadOK, LegacyOK, FlagOK, DeleteOK

\* A job that goes on or ends, over the same files
LEMMA SameFiles ==
    ASSUME UploadsInv, NEW w \in Workers, UNCHANGED <<about, used>>, Others(w),
           \/ job'[w] = Idle
           \/ job'[w].f = job[w].f /\ job'[w].op = job[w].op /\ job'[w].list = job[w].list,
           job'[w].op = "legacy" /\ job'[w].at = "commit" => "plain" \in disk[job[w].f],
           \A g \in Files \ Existing : disk'[g] = disk[g] /\ ref'[g] = ref[g]
    PROVE  /\ Existing' = Existing /\ JobMoves(w)
           /\ \A g \in Existing : g \in Files /\ disk[g] \subseteq Forms
<1>1. Existing' = Existing
  BY DEF Existing
<1>2. \A g \in Files \ Existing' : Unused(g)'
  BY <1>1 DEF UploadsInv, Unused
<1>3. \A p \in job'[w].list : p \in job[w].list
  BY DEF Idle
<1> QED BY <1>1, <1>2, <1>3, Stored DEF UploadsInv, JobMoves, Idle

\* The bytes are stored, whatever became of the account meanwhile.
LEMMA SaveInv ==
    ASSUME UploadsInv, NEW w \in Workers, Save(w)
    PROVE  UploadsInv'
<1>0. PICK f : f = job[w].f
  OBVIOUS
<1>1. /\ TypeOK /\ job[w] # Idle /\ job[w].op = "upload" /\ UploadOK(w)
      /\ job[w].at = "save" /\ f \in Existing \ Legacy /\ f \in Files /\ f # 0
      /\ disk[f] = {} /\ ref[f] = "none" /\ f \notin quarantine
  BY <1>0, PlaceOfJob, Stored DEF UploadsInv, Save, UploadOK
<1>2. /\ job' \in Jobs /\ Others(w) /\ job'[w] # Idle
      /\ job'[w].op = "upload" /\ job'[w].at \in {"screen", "seal"} /\ job'[w].f = f
      /\ job'[w].u = job[w].u /\ job'[w].list = job[w].list
  <2>1. CASE about[f].content = NoImage
    BY <1>0, <1>1, <2>1, GotoStep DEF Save
  <2>2. CASE about[f].content # NoImage
    BY <1>0, <1>1, <2>2, GotoStep DEF Save
  <2> QED BY <2>1, <2>2
<1>3. /\ UNCHANGED <<about, ref, blocked, quarantine, banned, gone, used, cut, dropped, raced>>
      /\ disk' \in [Files -> SUBSET Forms]
      /\ disk'[f] = {"plain"} /\ \A g \in Files \ {f} : disk'[g] = disk[g]
  BY <1>0, <1>1 DEF Save, histories, TypeOK, Forms
<1>4. Existing' = Existing /\ JobMoves(w)
  BY <1>0, <1>1, <1>2, <1>3, SameFiles
<1>5. TypeOK'
  BY <1>1, <1>2, <1>3, <1>4 DEF TypeOK, Jobs
<1>6. Tame(w)
  <2>1. ASSUME NEW g \in Existing PROVE DiskMoves(w, g) /\ RefMoves(w, g) /\ Leaves(w, g)
    <3>1. On(g, w)' <=> g = f
      BY <1>2 DEF On
    <3> QED BY <1>0, <1>1, <1>2, <1>3, <3>1, Stored
        DEF DiskMoves, Stores, RefMoves, Leaves, Named, Resolves, On, Forms
  <2> QED BY <1>3, <1>4, <2>1 DEF Tame, Grows
<1>7. UploadOK(w)'
  BY <1>0, <1>1, <1>2, <1>3, <1>4 DEF UploadOK, On, Listed, Others
<1> QED BY <1>2, <1>5, <1>6, <1>7, TameInv DEF JobOK

LEMMA RefuseInv ==
    ASSUME UploadsInv, NEW w \in Workers, Refuse(w)
    PROVE  UploadsInv'
<1>0. PICK f : f = job[w].f
  OBVIOUS
<1>1. /\ TypeOK /\ job[w] # Idle /\ job[w].op = "upload" /\ UploadOK(w)
      /\ job[w].at = "screen" /\ f \in Existing /\ f \in Files /\ f # 0
  BY <1>0, PlaceOfJob, Stored DEF UploadsInv, Refuse, UploadOK
<1>2. /\ job' \in Jobs /\ Others(w) /\ job'[w] # Idle
      /\ job'[w].op = "upload" /\ job'[w].at = "ban" /\ job'[w].f = f
      /\ job'[w].u = job[w].u /\ job'[w].list = job[w].list
  BY <1>0, <1>1, GotoStep DEF Refuse
<1>3. /\ UNCHANGED <<about, ref, blocked, banned, gone, used, cut, dropped, raced>>
      /\ quarantine' = quarantine \cup {f} /\ disk' = [disk EXCEPT ![f] = {}]
      /\ disk'[f] = {} /\ \A g \in Files \ {f} : disk'[g] = disk[g]
  BY <1>0, <1>1 DEF Refuse, histories, TypeOK
<1>4. Existing' = Existing /\ JobMoves(w)
  BY <1>0, <1>1, <1>2, <1>3, SameFiles
<1>5. TypeOK'
  BY <1>1, <1>2, <1>3, <1>4 DEF TypeOK, Jobs
<1>6. disk[f] = {"plain"} /\ ref[f] = "none"
  BY <1>0, <1>1 DEF UploadOK
<1>7. Tame(w)
  <2>1. Grows
    BY <1>3, <1>4 DEF Grows
  <2>2. ASSUME NEW g \in Existing PROVE DiskMoves(w, g) /\ RefMoves(w, g) /\ Leaves(w, g)
    <3>1. On(g, w) /\ On(g, w)' <=> g = f
      BY <1>0, <1>2 DEF On
    <3> QED BY <1>0, <1>1, <1>2, <1>3, <1>6, <3>1, Stored
        DEF DiskMoves, RefMoves, Leaves, Named, Resolves, On, Forms
  <2> QED BY <1>3, <1>4, <2>1, <2>2 DEF Tame
<1>8. UploadOK(w)'
  BY <1>0, <1>1, <1>2, <1>3, <1>4, <1>6 DEF UploadOK, On, Listed, Others
<1> QED BY <1>2, <1>5, <1>7, <1>8, TameInv DEF JobOK

LEMMA BanInv ==
    ASSUME UploadsInv, NEW w \in Workers, Ban(w)
    PROVE  UploadsInv'
<1>1. /\ TypeOK /\ job[w] # Idle /\ job[w] \in Job /\ job[w].op = "upload" /\ UploadOK(w)
      /\ job[w].at = "ban"
  BY PlaceOfJob DEF UploadsInv, Ban
<1>2. job' \in Jobs /\ Others(w) /\ job'[w] = Idle /\ job'[w].op = "idle"
  BY <1>1, EndStep DEF Ban
<1>3. /\ UNCHANGED <<disk, about, ref, blocked, quarantine, gone, used, cut, dropped, raced>>
      /\ banned' = banned \cup ({job[w].u} \ (gone \cup {NoUser}))
  BY DEF Ban, histories
<1>4. Existing' = Existing /\ JobMoves(w)
  BY <1>2, <1>3, SameFiles
<1>5. TypeOK'
  <2>1. job[w].u \in Users \cup {NoUser}
    BY <1>1, WorkerFields
  <2> QED BY <1>1, <1>2, <1>3, <1>4, <2>1 DEF TypeOK, Jobs
<1>6. Tame(w)
  <2>1. Grows
    BY <1>3, <1>4 DEF Grows
  <2>2. ASSUME NEW g \in Existing PROVE DiskMoves(w, g) /\ RefMoves(w, g) /\ Leaves(w, g)
    BY <1>1, <1>3 DEF DiskMoves, RefMoves, Leaves, UploadOK, Named, Resolves, On, Forms
  <2> QED BY <1>3, <1>4, <2>1, <2>2 DEF Tame
<1> QED BY <1>2, <1>5, <1>6, TameInv DEF JobOK

LEMMA ProcessInv ==
    ASSUME UploadsInv, NEW w \in Workers, Process(w)
    PROVE  UploadsInv'
<1>0. PICK f : f = job[w].f
  OBVIOUS
<1>1. /\ TypeOK /\ job[w] # Idle /\ job[w].op = "upload" /\ UploadOK(w)
      /\ job[w].at = "screen" /\ f \in Existing \ Legacy /\ f \in Files /\ f # 0
      /\ disk[f] = {"plain"} /\ ref[f] = "none" /\ f \notin quarantine
  BY <1>0, PlaceOfJob, Stored DEF UploadsInv, Process, UploadOK
<1>2. UNCHANGED <<about, ref, blocked, quarantine, banned, gone, used, cut, dropped, raced>>
  BY DEF Process, histories
<1>3. CASE Goto(w, "seal") /\ UNCHANGED disk
  <2>1. /\ job' \in Jobs /\ Others(w) /\ job'[w] # Idle
        /\ job'[w].op = "upload" /\ job'[w].at = "seal" /\ job'[w].f = f
        /\ job'[w].u = job[w].u /\ job'[w].list = job[w].list
    BY <1>0, <1>1, <1>3, GotoStep
  <2>2. Existing' = Existing /\ JobMoves(w)
    BY <1>0, <1>1, <1>2, <1>3, <2>1, SameFiles
  <2>3. TypeOK'
    BY <1>1, <1>2, <1>3, <2>1, <2>2 DEF TypeOK, Jobs
  <2>4. Tame(w)
    <3>1. ASSUME NEW g \in Existing PROVE DiskMoves(w, g) /\ RefMoves(w, g) /\ Leaves(w, g)
      BY <1>0, <1>1, <1>2, <1>3, <2>1 DEF DiskMoves, RefMoves, Leaves, Named, Resolves, On
    <3> QED BY <1>2, <1>3, <2>2, <3>1 DEF Tame, Grows
  <2>5. UploadOK(w)'
    BY <1>0, <1>1, <1>2, <1>3, <2>1, <2>2 DEF UploadOK, On, Listed, Others
  <2> QED BY <2>1, <2>3, <2>4, <2>5, TameInv DEF JobOK
<1>4. CASE End(w) /\ disk' = [disk EXCEPT ![job[w].f] = {}]
  <2>1. job' \in Jobs /\ Others(w) /\ job'[w] = Idle /\ job'[w].op = "idle"
    BY <1>1, <1>4, EndStep
  <2>2. disk'[f] = {} /\ \A g \in Files \ {f} : disk'[g] = disk[g]
    BY <1>0, <1>1, <1>4 DEF TypeOK
  <2>3. Existing' = Existing /\ JobMoves(w)
    BY <1>1, <1>2, <2>1, <2>2, SameFiles
  <2>4. TypeOK'
    BY <1>1, <1>2, <1>4, <2>1, <2>3 DEF TypeOK, Jobs
  <2>5. Tame(w)
    <3>1. ASSUME NEW g \in Existing PROVE DiskMoves(w, g) /\ RefMoves(w, g) /\ Leaves(w, g)
      BY <1>0, <1>1, <1>2, <2>1, <2>2, Stored
      DEF DiskMoves, RefMoves, Leaves, Named, Resolves, On, Forms
    <3> QED BY <1>2, <2>3, <3>1 DEF Tame, Grows
  <2> QED BY <2>1, <2>4, <2>5, TameInv DEF JobOK
<1> QED BY <1>3, <1>4 DEF Process

\* The ciphertext is written beside the plaintext.
LEMMA SealInv ==
    ASSUME UploadsInv, NEW w \in Workers, Seal(w)
    PROVE  UploadsInv'
<1>0. PICK f : f = job[w].f
  OBVIOUS
<1>1. /\ TypeOK /\ job[w] # Idle /\ f \in Existing /\ f \in Files /\ f # 0
      /\ job[w].at = "seal" /\ "plain" \in disk[f]
      /\ \/ job[w].op = "upload" /\ UploadOK(w)
         \/ job[w].op = "legacy" /\ LegacyOK(w)
  <2>1. job[w].at \in {"seal", "remove"} /\ "plain" \in disk[f]
    BY <1>0 DEF Seal
  <2>2. /\ job[w] # Idle
        /\ \/ job[w].op = "upload" /\ UploadOK(w)
           \/ job[w].op = "legacy" /\ LegacyOK(w)
    BY <2>1, PlaceOfJob
  <2>3. f \in Existing
    BY <1>0, <2>2, InHand
  <2> QED BY <1>0, <2>1, <2>2, <2>3, Stored DEF UploadsInv, Seal
<1>2. /\ job' \in Jobs /\ Others(w) /\ job'[w] # Idle
      /\ job'[w].op = job[w].op /\ job'[w].at = "remove" /\ job'[w].f = f
      /\ job'[w].u = job[w].u /\ job'[w].list = job[w].list
  BY <1>0, <1>1, GotoStep DEF Seal
<1>3. /\ UNCHANGED <<about, ref, blocked, quarantine, banned, gone, used, cut, dropped, raced>>
      /\ disk' \in [Files -> SUBSET Forms]
      /\ disk'[f] = Forms /\ \A g \in Files \ {f} : disk'[g] = disk[g]
  BY <1>0, <1>1 DEF Seal, histories, TypeOK, Forms
<1>4. Existing' = Existing /\ JobMoves(w)
  BY <1>0, <1>1, <1>2, <1>3, SameFiles
<1>5. TypeOK'
  BY <1>1, <1>2, <1>3, <1>4 DEF TypeOK, Jobs
<1>6. Tame(w)
  <2>1. ASSUME NEW g \in Existing PROVE DiskMoves(w, g) /\ RefMoves(w, g) /\ Leaves(w, g)
    <3>1. On(g, w)' <=> g = f
      BY <1>2 DEF On
    <3> QED BY <1>0, <1>1, <1>2, <1>3, <3>1, Stored
        DEF DiskMoves, RefMoves, Leaves, Named, Resolves, On, Forms
  <2> QED BY <1>3, <1>4, <2>1 DEF Tame, Grows
<1>7. CASE job[w].op = "upload" /\ UploadOK(w)
  <2>1. UploadOK(w)'
    BY <1>0, <1>1, <1>2, <1>3, <1>4, <1>7 DEF UploadOK, On, Listed, Others
  <2> QED BY <1>2, <1>5, <1>6, <1>7, <2>1, TameInv DEF JobOK
<1>8. CASE job[w].op = "legacy" /\ LegacyOK(w)
  <2>1. LegacyOK(w)'
    BY <1>0, <1>1, <1>2, <1>3, <1>8 DEF LegacyOK, Forms
  <2> QED BY <1>2, <1>5, <1>6, <1>8, <2>1, TameInv DEF JobOK
<1> QED BY <1>1, <1>7, <1>8

\* The plaintext is removed: from here one worker at most rewrites the file.
LEMMA RemovePlainInv ==
    ASSUME UploadsInv, NEW w \in Workers, RemovePlain(w)
    PROVE  UploadsInv'
<1>0. PICK f : f = job[w].f
  OBVIOUS
<1>1. /\ TypeOK /\ job[w] # Idle /\ f \in Existing /\ f \in Files /\ f # 0
      /\ job[w].at = "remove" /\ "plain" \in disk[f]
      /\ \/ job[w].op = "upload" /\ UploadOK(w)
         \/ job[w].op = "legacy" /\ LegacyOK(w)
  <2>1. job[w].at \in {"seal", "remove"} /\ "plain" \in disk[f]
    BY <1>0 DEF RemovePlain
  <2>2. /\ job[w] # Idle
        /\ \/ job[w].op = "upload" /\ UploadOK(w)
           \/ job[w].op = "legacy" /\ LegacyOK(w)
    BY <2>1, PlaceOfJob
  <2>3. f \in Existing
    BY <1>0, <2>2, InHand
  <2> QED BY <1>0, <2>1, <2>2, <2>3, Stored DEF UploadsInv, RemovePlain
<1>2. /\ job' \in Jobs /\ Others(w) /\ job'[w] # Idle
      /\ job'[w].op = job[w].op /\ job'[w].f = f
      /\ job'[w].at = IF job[w].list # {} THEN "swap" ELSE "commit"
      /\ job'[w].u = job[w].u /\ job'[w].list = job[w].list
  <2>1. CASE job[w].list # {}
    BY <1>0, <1>1, <2>1, GotoStep DEF RemovePlain
  <2>2. CASE job[w].list = {}
    BY <1>0, <1>1, <2>2, GotoStep DEF RemovePlain
  <2> QED BY <2>1, <2>2
<1>3. disk[f] = Forms
  BY <1>0, <1>1, Stored DEF UploadOK, LegacyOK, Forms
<1>4. /\ UNCHANGED <<about, ref, blocked, quarantine, banned, gone, used, cut, dropped, raced>>
      /\ disk' \in [Files -> SUBSET Forms]
      /\ disk'[f] = {"enc"} /\ \A g \in Files \ {f} : disk'[g] = disk[g]
  BY <1>0, <1>1, <1>3 DEF RemovePlain, histories, TypeOK, Forms
<1>5. Existing' = Existing /\ JobMoves(w)
  BY <1>0, <1>1, <1>2, <1>4, SameFiles
<1>6. TypeOK'
  BY <1>1, <1>2, <1>4, <1>5 DEF TypeOK, Jobs
<1>7. Tame(w)
  <2>1. ASSUME NEW g \in Existing PROVE DiskMoves(w, g) /\ RefMoves(w, g) /\ Leaves(w, g)
    <3>1. On(g, w)' <=> g = f
      BY <1>2 DEF On
    <3> QED BY <1>0, <1>1, <1>2, <1>3, <1>4, <3>1, Stored
        DEF DiskMoves, RefMoves, Leaves, Named, Resolves, On, Forms
  <2> QED BY <1>4, <1>5, <2>1 DEF Tame, Grows
<1>8. CASE job[w].op = "upload" /\ UploadOK(w)
  <2>1. UploadOK(w)'
    BY <1>0, <1>1, <1>2, <1>4, <1>5, <1>8 DEF UploadOK, On, Listed, Others
  <2> QED BY <1>2, <1>6, <1>7, <1>8, <2>1, TameInv DEF JobOK
<1>9. CASE job[w].op = "legacy" /\ LegacyOK(w)
  <2>1. f \notin quarantine
    BY <1>1 DEF UploadsInv, QuarantineOK
  <2>2. \A v \in Workers \ {w} : ~(Rewriting(f, v) /\ job[v].at = "commit")
    BY <1>1, KindOfJob DEF LegacyOK, Rewriting, On
  <2>3. LegacyOK(w)'
    BY <1>0, <1>1, <1>2, <1>4, <1>9, <2>1, <2>2 DEF LegacyOK, Rewriting, On, Others
  <2> QED BY <1>2, <1>6, <1>7, <1>9, <2>3, TameInv DEF JobOK
<1> QED BY <1>1, <1>8, <1>9

LEMMA RemovedPaths ==
    ASSUME TypeOK, NEW w \in Workers, disk' = Without(job[w].list)
    PROVE  /\ disk' \in [Files -> SUBSET Forms]
           /\ \A g \in Files : disk'[g] = disk[g] \ {x \in Forms : Listed(g, x, w)}
BY DEF TypeOK, Without, Listed

LEMMA SwapInv ==
    ASSUME UploadsInv, NEW w \in Workers, Swap(w)
    PROVE  UploadsInv'
<1>0. PICK f : f = job[w].f
  OBVIOUS
<1>1. /\ TypeOK /\ job[w] # Idle /\ f \in Existing /\ f \in Files /\ f # 0
      /\ job[w].at = "swap" /\ job[w].op = "upload" /\ UploadOK(w)
  BY <1>0, PlaceOfJob, InHand, Stored DEF UploadsInv, Swap
<1>2. /\ job' \in Jobs /\ Others(w) /\ job'[w] # Idle
      /\ job'[w].op = "upload" /\ job'[w].at = "commit" /\ job'[w].f = f
      /\ job'[w].u = job[w].u /\ job'[w].list = job[w].list
  BY <1>0, <1>1, GotoStep DEF Swap
<1>3. /\ UNCHANGED <<about, ref, blocked, quarantine, banned, gone, used, cut, raced>>
      /\ disk' \in [Files -> SUBSET Forms]
      /\ \A g \in Files : disk'[g] = disk[g] \ {x \in Forms : Listed(g, x, w)}
      /\ dropped' = dropped \cup FilesIn(job[w].list)
  BY <1>1, RemovedPaths DEF Swap, histories
<1>4. /\ \A g, x : Listed(g, x, w) => g \in dropped' /\ g \in Existing
      /\ FilesIn(job[w].list) \subseteq Existing
  BY <1>3, InHand DEF Listed, FilesIn
<1>5. Existing' = Existing /\ JobMoves(w)
  <2>1. \A g \in Files \ Existing : disk'[g] = disk[g]
    BY <1>3, <1>4
  <2> QED BY <1>0, <1>1, <1>2, <1>3, <2>1, SameFiles
<1>6. TypeOK'
  BY <1>1, <1>2, <1>3, <1>4, <1>5 DEF TypeOK, Jobs
<1>7. Tame(w)
  <2>1. ASSUME NEW g \in Existing PROVE DiskMoves(w, g) /\ RefMoves(w, g) /\ Leaves(w, g)
    <3>1. /\ On(g, w)' <=> On(g, w)
          /\ disk'[g] \subseteq disk[g] /\ g \in Files
          /\ \A x \in disk[g] \ disk'[g] : Listed(g, x, w) /\ g \in dropped' /\ x \in Forms
      BY <1>0, <1>1, <1>2, <1>3, <1>4, Stored DEF On
    <3> QED BY <1>1, <1>2, <1>3, <3>1 DEF DiskMoves, RefMoves, Leaves, Named, Resolves
  <2> QED BY <1>3, <1>5, <2>1 DEF Tame, Grows
<1>8. UploadOK(w)'
  <2>1. disk'[f] = {"enc"}
    BY <1>0, <1>1, <1>3 DEF UploadOK
  <2>2. \A p \in job[w].list : p[2] \notin disk'[p[1]]
    <3> SUFFICES ASSUME NEW p \in job[w].list PROVE p[2] \notin disk'[p[1]]
      OBVIOUS
    <3>1. p = <<p[1], p[2]>> /\ p[2] \in Forms /\ p[1] \in Files
      BY <1>1, Stored DEF UploadOK
    <3> QED BY <1>3, <3>1 DEF Listed
  <2> QED BY <1>0, <1>1, <1>2, <1>3, <1>5, <2>1, <2>2 DEF UploadOK, On, Listed, Others
<1> QED BY <1>2, <1>6, <1>7, <1>8, TameInv DEF JobOK

\* The commit names f, and of its owner's other pictures none.
LEMMA NamingStep ==
    ASSUME UploadsInv, NEW f \in Existing, ref' = NamingEnc(f)
    PROVE  /\ ref' \in [Files -> Forms \cup {"none", "detached"}] /\ ref'[f] = "enc"
           /\ \A g \in Files \ {f} :
                 \/ ref'[g] = ref[g]
                 \/ /\ about[f].kind = "picture" /\ g \in PictureOf(about[f].owner)
                    /\ Named(g) /\ ref'[g] = "none"
<1>1. f \in Files /\ ref \in [Files -> Forms \cup {"none", "detached"}]
  BY Stored DEF UploadsInv, TypeOK
<1> QED BY <1>1 DEF NamingEnc, PictureOf, Forms

LEMMA CommitUploadInv ==
    ASSUME UploadsInv, NEW w \in Workers, CommitUpload(w)
    PROVE  UploadsInv'
<1>0. PICK f : f = job[w].f
  OBVIOUS
<1>. PICK u : u = about[f].owner
  OBVIOUS
<1>1. /\ TypeOK /\ job[w] # Idle /\ f \in Existing \ Legacy /\ f \in Files /\ f # 0
      /\ job[w].at = "commit" /\ job[w].op = "upload" /\ UploadOK(w)
      /\ disk[f] = {"enc"} /\ about[f].owner = u
      /\ \A p \in job[w].list : p[2] \notin disk[p[1]]
  <2>1. job[w].at = "commit" /\ job[w].op = "upload" /\ UploadOK(w) /\ TypeOK
    BY KindOfJob DEF UploadsInv, CommitUpload
  <2> QED BY <1>0, <2>1, Stored, WorkerFields DEF UploadOK
<1>2. /\ job' \in Jobs /\ Others(w) /\ job'[w] = Idle /\ job'[w].f = 0 /\ job'[w].op = "idle"
  BY <1>1, EndStep DEF CommitUpload
<1>3. /\ UNCHANGED <<disk, about, blocked, quarantine, banned, gone, used, cut, dropped>>
      /\ ref' = NamingEnc(f) /\ raced \subseteq raced' /\ MissedByDeletion(f) \subseteq raced'
      /\ about[f].kind = "picture" =>
            FilesIn(PathsOf(PictureOf(u)) \ job[w].list) \subseteq raced'
      /\ raced' \subseteq Existing
  <2>1. FilesIn(PathsOf(PictureOf(u)) \ job[w].list) \subseteq Existing
    BY DEF FilesIn, PathsOf, PictureOf, OwnedBy
  <2>2. MissedByDeletion(f) \subseteq Existing
    BY <1>1 DEF MissedByDeletion
  <2> QED BY <1>0, <1>1, <2>1, <2>2 DEF CommitUpload, TypeOK
<1>4. /\ ref' \in [Files -> Forms \cup {"none", "detached"}] /\ ref'[f] = "enc"
      /\ \A g \in Files \ {f} :
            \/ ref'[g] = ref[g]
            \/ /\ about[f].kind = "picture" /\ g \in PictureOf(about[f].owner)
               /\ Named(g) /\ ref'[g] = "none"
  BY <1>1, <1>3, NamingStep
<1>5. Existing' = Existing /\ JobMoves(w)
  <2>1. \A g \in Files \ Existing : disk'[g] = disk[g] /\ ref'[g] = ref[g]
    BY <1>1, <1>3, <1>4 DEF PictureOf, OwnedBy
  <2> QED BY <1>2, <1>3, <2>1, SameFiles
<1>6. TypeOK'
  BY <1>1, <1>2, <1>3, <1>4, <1>5 DEF TypeOK, Jobs
<1>7. Tame(w)
  <2>1. ASSUME NEW g \in Existing, g # f PROVE RefMoves(w, g)
    <3>1. g \in Files
      BY Stored DEF UploadsInv
    <3>2. CASE ref'[g] = ref[g]
      BY <3>2 DEF RefMoves
    <3>3. CASE ref'[g] # ref[g]
      <4>1. /\ about[f].kind = "picture" /\ g \in PictureOf(u) /\ Named(g)
            /\ ref'[g] = "none"
        BY <1>1, <1>4, <2>1, <3>1, <3>3
      <4>2. <<g, ref[g]>> \in PathsOf(PictureOf(u))
        BY <4>1, PathOfNamed DEF Named, Forms
      <4>3. CASE <<g, ref[g]>> \in job[w].list
        <5>1. ref[g] \notin disk[g]
          BY <1>1, <4>3
        <5>2. ~On(g, w)
          BY <1>0, <2>1 DEF On
        <5> QED BY <1>3, <4>1, <5>1, <5>2 DEF RefMoves
      <4>4. CASE <<g, ref[g]>> \notin job[w].list
        <5>1. g \in FilesIn(PathsOf(PictureOf(u)) \ job[w].list)
          BY <4>2, <4>4 DEF FilesIn
        <5> QED BY <1>3, <4>1, <5>1 DEF RefMoves
      <4> QED BY <4>3, <4>4
    <3> QED BY <3>2, <3>3
  <2>2. RefMoves(w, f)
    BY <1>0, <1>1, <1>2, <1>3, <1>4 DEF RefMoves, On
  <2>3. ASSUME NEW g \in Existing PROVE DiskMoves(w, g) /\ Leaves(w, g)
    <3>1. CASE g = f
      BY <1>0, <1>1, <1>3, <1>4, <3>1 DEF DiskMoves, Leaves, Resolves, Named, Forms
    <3>2. CASE g # f
      BY <1>0, <1>1, <1>3, <3>2 DEF DiskMoves, Leaves, Resolves, Named, On
    <3> QED BY <3>1, <3>2
  <2> QED BY <1>3, <1>5, <2>1, <2>2, <2>3 DEF Tame, Grows
<1> QED BY <1>2, <1>6, <1>7, TameInv DEF JobOK

LEMMA CommitLegacyInv ==
    ASSUME UploadsInv, NEW w \in Workers, CommitLegacy(w)
    PROVE  UploadsInv'
<1>0. PICK f : f = job[w].f
  OBVIOUS
<1>1. /\ TypeOK /\ job[w] # Idle /\ f \in Existing /\ f \in Legacy /\ f \in Files /\ f # 0
      /\ job[w].at = "commit" /\ job[w].op = "legacy" /\ LegacyOK(w)
      /\ disk[f] = {"enc"} /\ f \notin quarantine /\ about[f].owner = job[w].u
  <2>1. job[w].at = "commit" /\ job[w].op = "legacy" /\ LegacyOK(w) /\ TypeOK
    BY KindOfJob DEF UploadsInv, CommitLegacy
  <2> QED BY <1>0, <2>1, Stored, WorkerFields DEF LegacyOK
<1>2. /\ job' \in Jobs /\ Others(w) /\ job'[w] = Idle /\ job'[w].f = 0 /\ job'[w].op = "idle"
  BY <1>1, EndStep DEF CommitLegacy
<1>3. /\ UNCHANGED <<disk, about, blocked, quarantine, banned, gone, used, cut, dropped>>
      /\ ref' = NamingEnc(f) /\ raced \subseteq raced' /\ MissedByDeletion(f) \subseteq raced'
      /\ about[f].kind = "picture" => PictureOf(job[w].u) \ {f} \subseteq raced'
      /\ raced' \subseteq Existing
      /\ IF about[f].kind = "picture" THEN job[w].u \notin gone ELSE ref[f] # "none"
  <2>1. PictureOf(job[w].u) \subseteq Existing
    BY DEF PictureOf, OwnedBy
  <2>2. MissedByDeletion(f) \subseteq Existing
    BY <1>1 DEF MissedByDeletion
  <2> QED BY <1>0, <1>1, <2>1, <2>2 DEF CommitLegacy, TypeOK
<1>4. /\ ref' \in [Files -> Forms \cup {"none", "detached"}] /\ ref'[f] = "enc"
      /\ \A g \in Files \ {f} :
            \/ ref'[g] = ref[g]
            \/ /\ about[f].kind = "picture" /\ g \in PictureOf(about[f].owner)
               /\ Named(g) /\ ref'[g] = "none"
  BY <1>1, <1>3, NamingStep
<1>5. Existing' = Existing /\ JobMoves(w)
  <2>1. \A g \in Files \ Existing : disk'[g] = disk[g] /\ ref'[g] = ref[g]
    BY <1>1, <1>3, <1>4 DEF PictureOf, OwnedBy
  <2> QED BY <1>2, <1>3, <2>1, SameFiles
<1>6. TypeOK'
  BY <1>1, <1>2, <1>3, <1>4, <1>5 DEF TypeOK, Jobs
<1>7. Tame(w)
  <2>1. ASSUME NEW g \in Existing, g # f PROVE RefMoves(w, g)
    <3>1. g \in Files
      BY Stored DEF UploadsInv
    <3> QED BY <1>1, <1>3, <1>4, <2>1, <3>1 DEF RefMoves
  <2>2. ~Named(f) => about[f].owner \notin gone
    <3>1. ref[f] # "detached"
      BY <1>1 DEF UploadsInv, QuarantineOK
    <3> QED BY <1>1, <1>3, <3>1 DEF Named, TypeOK
  <2>3. RefMoves(w, f)
    BY <1>0, <1>1, <1>2, <1>3, <1>4, <2>2 DEF RefMoves, On
  <2>4. ASSUME NEW g \in Existing PROVE DiskMoves(w, g) /\ Leaves(w, g)
    <3>1. CASE g = f
      BY <1>0, <1>1, <1>3, <1>4, <3>1 DEF DiskMoves, Leaves, Resolves, Named, Forms
    <3>2. CASE g # f
      BY <1>0, <1>1, <1>3, <3>2 DEF DiskMoves, Leaves, Resolves, Named, On
    <3> QED BY <3>1, <3>2
  <2> QED BY <1>3, <1>5, <2>1, <2>3, <2>4 DEF Tame, Grows
<1> QED BY <1>2, <1>6, <1>7, TameInv DEF JobOK

-----------------------------------------------------------------------------
(* Moderation.                                                             *)

LEMMA MoveInv ==
    ASSUME UploadsInv, NEW w \in Workers, Move(w)
    PROVE  UploadsInv'
<1>0. PICK f : f = job[w].f
  OBVIOUS
<1>1. /\ TypeOK /\ job[w] # Idle /\ job[w] \in Job /\ job[w].at = "move" /\ job[w].op = "flag"
      /\ f \in Existing /\ f \in Files /\ f # 0 /\ about[f].kind = "message"
  <2>1. /\ TypeOK /\ job[w] # Idle /\ job[w] \in Job /\ job[w].at = "move" /\ job[w].op = "flag"
        /\ FlagOK(w)
    BY PlaceOfJob DEF UploadsInv, Move
  <2> QED BY <1>0, <2>1, Stored DEF FlagOK
<1>2. PICK x \in Forms : job[w].list = {<<f, x>>} /\ x \in disk[f]
  <2>1. FlagOK(w)
    BY <1>1, KindOfJob
  <2>2. PICK x \in Forms : job[w].list = {<<f, x>>}
    BY <1>0, <2>1 DEF FlagOK
  <2>3. <<f, x>> \in {<<f, y>> : y \in disk[f]}
    BY <1>0, <2>2 DEF Move
  <2> QED BY <2>2, <2>3
<1>3. /\ job' \in Jobs /\ Others(w) /\ job'[w] # Idle
      /\ job'[w].op = "flag" /\ job'[w].at = "record" /\ job'[w].f = f
      /\ job'[w].list = job[w].list
  <2>1. PICK b \in BOOLEAN : job' = [job EXCEPT ![w].at = "record", ![w].fresh = b]
    BY <1>0 DEF Move
  <2>2. [job[w] EXCEPT !.at = "record", !.fresh = b] \in Job
    BY <1>1 DEF Job
  <2>3. job'[w] = [job[w] EXCEPT !.at = "record", !.fresh = b] /\ Others(w) /\ job' \in Jobs
    BY <1>1, <2>1, <2>2 DEF TypeOK, Jobs, Others
  <2>4. /\ job'[w].op = job[w].op /\ job'[w].at = "record" /\ job'[w].f = job[w].f
        /\ job'[w].list = job[w].list
    BY <1>1, <2>3 DEF Job
  <2>5. job'[w] # Idle
    BY <1>1, <2>4 DEF Idle
  <2> QED BY <1>0, <1>1, <2>3, <2>4, <2>5
<1>4. /\ UNCHANGED <<about, ref, blocked, banned, gone, used, cut, dropped, raced>>
      /\ quarantine' = quarantine \cup {f} /\ disk' \in [Files -> SUBSET Forms]
      /\ disk'[f] = disk[f] \ {x} /\ \A g \in Files \ {f} : disk'[g] = disk[g]
  <2>1. /\ disk' \in [Files -> SUBSET Forms]
        /\ \A g \in Files : disk'[g] = disk[g] \ {y \in Forms : Listed(g, y, w)}
    BY <1>1, RemovedPaths DEF Move
  <2>2. \A g \in Files, y \in Forms : Listed(g, y, w) <=> g = f /\ y = x
    BY <1>2 DEF Listed
  <2>3. {y \in Forms : Listed(f, y, w)} = {x} /\ \A g \in Files \ {f} : {y \in Forms : Listed(g, y, w)} = {}
    BY <1>1, <1>2, <2>2
  <2>4. disk'[f] = disk[f] \ {x} /\ \A g \in Files \ {f} : disk'[g] = disk[g]
    BY <1>1, <2>1, <2>3
  <2> QED BY <1>0, <2>1, <2>4 DEF Move, histories
<1>5. Existing' = Existing /\ JobMoves(w)
  BY <1>0, <1>1, <1>3, <1>4, SameFiles
<1>6. TypeOK'
  BY <1>1, <1>3, <1>4, <1>5 DEF TypeOK, Jobs
<1>7. Tame(w)
  <2>1. ASSUME NEW g \in Existing PROVE DiskMoves(w, g) /\ RefMoves(w, g) /\ Leaves(w, g)
    <3>1. On(g, w)' <=> g = f
      BY <1>3 DEF On
    <3>2. On(g, w) <=> g = f
      BY <1>0 DEF On
    <3>3. Listed(f, x, w) /\ g \in Files
      BY <1>2, Stored DEF UploadsInv, Listed
    <3> QED BY <1>1, <1>2, <1>3, <1>4, <3>1, <3>2, <3>3 DEF DiskMoves, RefMoves, Leaves, Resolves
  <2> QED BY <1>4, <1>5, <2>1 DEF Tame, Grows
<1>8. FlagOK(w)'
  BY <1>1, <1>2, <1>3, <1>4, <1>5 DEF FlagOK
<1> QED BY <1>3, <1>6, <1>7, <1>8, TameInv DEF JobOK

LEMMA RecordInv ==
    ASSUME UploadsInv, NEW w \in Workers, Record(w)
    PROVE  UploadsInv'
<1>0. PICK f : f = job[w].f
  OBVIOUS
<1>1. /\ TypeOK /\ job[w] # Idle /\ job[w] \in Job /\ job[w].at = "record" /\ job[w].op = "flag"
      /\ f \in Existing /\ f \in Files /\ f # 0 /\ about[f].kind = "message" /\ f \in quarantine
      /\ job[w].u \in Users \cup {NoUser} /\ about[f].content \in Pictures \cup {NoImage}
  <2>1. /\ TypeOK /\ job[w] # Idle /\ job[w] \in Job /\ job[w].at = "record" /\ job[w].op = "flag"
        /\ FlagOK(w)
    BY PlaceOfJob DEF UploadsInv, Record
  <2> QED BY <1>0, <2>1, Stored, WorkerFields DEF FlagOK, About
<1>2. /\ job' \in Jobs /\ Others(w) /\ job'[w] = Idle /\ job'[w].f = 0 /\ job'[w].op = "idle"
  BY <1>1, EndStep DEF Record
<1>3. /\ UNCHANGED <<disk, about, quarantine, gone, used, cut, dropped, raced>>
      /\ blocked' = blocked \cup {about[f].content}
      /\ banned' = banned \cup ({job[w].u} \ {NoUser})
      /\ ref' = [ref EXCEPT ![f] = "detached"] /\ ref[f] # "none"
      /\ ref'[f] = "detached" /\ \A g \in Files \ {f} : ref'[g] = ref[g]
  BY <1>0, <1>1 DEF Record, histories, TypeOK
<1>4. Existing' = Existing /\ JobMoves(w)
  BY <1>1, <1>2, <1>3, SameFiles
<1>5. TypeOK'
  <2>1. \A g \in Files : ref'[g] = "detached" => about'[g].kind = "message"
    BY <1>1, <1>3 DEF TypeOK
  <2>2. banned' \subseteq Users
    BY <1>1, <1>3 DEF TypeOK
  <2> QED BY <1>1, <1>2, <1>3, <1>4, <2>1, <2>2 DEF TypeOK, Jobs
<1>6. Tame(w)
  <2>1. QuarantineOK(f)
    BY <1>1 DEF UploadsInv
  <2>2. ASSUME NEW g \in Existing PROVE DiskMoves(w, g) /\ RefMoves(w, g) /\ Leaves(w, g)
    <3>1. On(g, w) <=> g = f
      BY <1>0 DEF On
    <3>2. g \in Files /\ ref[g] \in Forms \cup {"none", "detached"}
      BY <1>1, Stored DEF TypeOK
    <3> QED BY <1>1, <1>2, <1>3, <2>1, <3>1, <3>2
        DEF DiskMoves, RefMoves, Leaves, Resolves, Named, QuarantineOK, Forms
  <2> QED BY <1>3, <1>4, <2>2 DEF Tame, Grows
<1> QED BY <1>2, <1>5, <1>6, TameInv DEF JobOK

-----------------------------------------------------------------------------
(* The deletion of an account.                                             *)

LEMMA CommitDeleteInv ==
    ASSUME UploadsInv, NEW w \in Workers, CommitDelete(w)
    PROVE  UploadsInv'
<1>0. PICK u : u = job[w].u
  OBVIOUS
<1> DEFINE listed == FilesIn(job[w].list)
<1>1. /\ TypeOK /\ job[w] # Idle /\ job[w].at = "commit" /\ job[w].op = "delete" /\ DeleteOK(w)
      /\ job[w].f = 0 /\ u \in Users
  <2>1. job[w].at = "commit" /\ job[w].op = "delete" /\ DeleteOK(w) /\ TypeOK
    BY KindOfJob DEF UploadsInv, CommitDelete
  <2> QED BY <1>0, <2>1, WorkerFields DEF DeleteOK
<1>2. /\ job' \in Jobs /\ Others(w) /\ job'[w] # Idle
      /\ job'[w].op = "delete" /\ job'[w].at = "unlink" /\ job'[w].f = 0
      /\ job'[w].u = u /\ job'[w].list = job[w].list
  BY <1>0, <1>1, GotoStep DEF CommitDelete
<1>3. /\ UNCHANGED <<disk, about, blocked, quarantine, banned, used, cut, dropped>>
      /\ gone' = gone \cup {u}
      /\ ref' = [f \in Files |-> IF f \in listed \cup PictureOf(u) THEN "none" ELSE ref[f]]
      /\ raced' = raced \cup {f \in OwnedBy(u) : Working(f, w)}
  BY <1>0 DEF CommitDelete
<1>4. /\ listed \subseteq Existing /\ PictureOf(u) \subseteq Existing
      /\ OwnedBy(u) \subseteq Existing
      /\ \A f \in PictureOf(u) : Named(f) /\ f \in OwnedBy(u)
  BY InHand DEF PictureOf, OwnedBy
<1>5. /\ \A f \in Files : ref'[f] = IF f \in listed \cup PictureOf(u) THEN "none" ELSE ref[f]
      /\ \A f \in Existing : f \in Files
  BY <1>1, <1>3, Stored
<1>6. Existing' = Existing /\ JobMoves(w)
  <2>1. \A g \in Files \ Existing : disk'[g] = disk[g] /\ ref'[g] = ref[g]
    BY <1>3, <1>4, <1>5
  <2> QED BY <1>1, <1>2, <1>3, <2>1, SameFiles
<1>7. TypeOK'
  <2>1. ref' \in [Files -> Forms \cup {"none", "detached"}]
    BY <1>1, <1>3 DEF TypeOK
  <2>2. \A f \in Files : ref'[f] = "detached" => about'[f].kind = "message"
    BY <1>1, <1>3, <1>5 DEF TypeOK
  <2> QED BY <1>1, <1>2, <1>3, <1>4, <1>6, <2>1, <2>2 DEF TypeOK, Jobs
\* Files of the account that another worker has in hand are raced for.
<1>8. \A f \in OwnedBy(u) : (\E v \in Workers : On(f, v)) => f \in raced'
  <2>1. \A f \in OwnedBy(u) : ~On(f, w)
    BY <1>1, <1>4, Stored DEF On
  <2> QED BY <1>3, <2>1 DEF Working, On
<1>9. \A f \in OwnedBy(u) : Named(f) /\ f \notin listed => f \in raced
  BY <1>0, <1>1 DEF DeleteOK, CommitDelete, Unread, Named, Forms
<1>10. DeleteOK(w)'
  <2>1. ASSUME NEW p \in job[w].list
        PROVE  /\ p \in Existing \X (Forms \cup {"detached"})
               /\ about[p[1]].owner = u /\ (p[2] = "detached" => p[1] \in quarantine)
               /\ ref'[p[1]] = "none"
               /\ ~Excused(p[1])' =>
                     disk[p[1]] \subseteq {p[2]} /\ \A v \in Workers : ~On(p[1], v)'
    <3>1. /\ p \in Existing \X (Forms \cup {"detached"}) /\ p[1] \in OwnedBy(u)
          /\ about[p[1]].owner = u /\ (p[2] = "detached" => p[1] \in quarantine)
          /\ ~Excused(p[1]) /\ (\A v \in Workers : ~Rewriting(p[1], v)) => disk[p[1]] \subseteq {p[2]}
      BY <1>0, <1>1 DEF DeleteOK, OwnedBy
    <3>2. ref'[p[1]] = "none"
      BY <1>5, <3>1 DEF FilesIn
    <3>3. ASSUME ~Excused(p[1])'
          PROVE  ~Excused(p[1]) /\ \A v \in Workers : ~On(p[1], v) /\ ~On(p[1], v)'
      <4>1. ~Excused(p[1]) /\ \A v \in Workers : ~On(p[1], v)
        BY <1>3, <1>8, <3>1, <3>3 DEF Excused
      <4> QED BY <1>1, <1>2, <4>1 DEF On, Others
    <3> QED BY <3>1, <3>2, <3>3 DEF Rewriting
  <2>2. u \in gone' /\ job'[w].list = job[w].list /\ disk' = disk /\ about' = about
        /\ quarantine' = quarantine
    BY <1>2, <1>3
  <2> QED BY <1>1, <1>2, <1>6, <2>1, <2>2 DEF DeleteOK
<1>11. Tame(w)
  <2>1. Grows
    BY <1>3, <1>6 DEF Grows
  <2>2. ASSUME NEW g \in Existing PROVE DiskMoves(w, g) /\ RefMoves(w, g) /\ Leaves(w, g)
    <3>1. ~On(g, w)
      BY <1>1, Stored DEF On
    <3>2. DiskMoves(w, g) /\ Leaves(w, g)
      BY <1>1, <1>3, <3>1 DEF DiskMoves, Leaves, Resolves, Named
    <3>3. ref'[g] # ref[g] => ref'[g] = "none" /\ (g \in listed \/ g \in raced')
      BY <1>3, <1>4, <1>5, <1>9
    <3> QED BY <1>2, <3>2, <3>3 DEF RefMoves
  <2>3. ASSUME NEW g \in Existing, about[g].owner \in gone' \ gone
        PROVE  Erased(g)' /\ \A v \in Workers \ {w} : On(g, v) => g \in raced'
    <3>0. SUFFICES Erased(g)'
      BY <1>3, <1>8, <2>3 DEF OwnedBy
    <3>1. g \in OwnedBy(u) /\ g \in Files
      BY <1>3, <1>5, <2>3 DEF OwnedBy
    <3>2. CASE g \in listed
      BY <1>2, <3>2 DEF Erased
    <3>3. CASE g \notin listed /\ Named(g)
      BY <1>3, <1>9, <3>1, <3>3 DEF Erased, Excused
    <3>4. CASE g \notin listed /\ ref[g] = "detached"
      BY <1>3, <3>4 DEF UploadsInv, QuarantineOK, Erased, Excused
    <3>5. CASE g \notin listed /\ ref[g] = "none"
      <4>1. SUFFICES ASSUME ~Excused(g)',
                            \A v \in Workers : job'[v].at = "unlink" => g \notin FilesIn(job'[v].list)
                     PROVE  disk'[g] = {} /\ ~Named(g)'
        BY DEF Erased
      <4>2. ~Excused(g) /\ \A v \in Workers : ~On(g, v)
        BY <1>3, <1>8, <3>1, <4>1 DEF Excused
      <4>3. \A v \in Workers : job[v].at = "unlink" => g \notin FilesIn(job[v].list)
        BY <1>1, <1>2, <4>1 DEF Others
      <4>4. disk[g] = {}
        BY <3>5, <4>2, <4>3 DEF UploadsInv, NoOrphan
      <4>5. ref'[g] = "none"
        BY <1>5, <3>1, <3>5
      <4> QED BY <1>3, <4>4, <4>5 DEF Named, Forms
    <3> QED BY <1>1, <3>1, <3>2, <3>3, <3>4, <3>5 DEF TypeOK, Named
  <2> QED BY <1>6, <2>1, <2>2, <2>3 DEF Tame
<1> QED BY <1>2, <1>7, <1>10, <1>11, TameInv DEF JobOK

\* A deletion that fails leaves everything as it is.
LEMMA CommitDeleteFailsInv ==
    ASSUME UploadsInv, NEW w \in Workers, CommitDeleteFails(w)
    PROVE  UploadsInv'
<1>1. TypeOK /\ job[w] # Idle /\ DeleteOK(w) /\ job[w].at = "commit" /\ job[w].op = "delete"
  BY KindOfJob, WorkerFields DEF UploadsInv, CommitDeleteFails
<1>2. /\ job' \in Jobs /\ Others(w) /\ job'[w] = Idle /\ job'[w].op = "idle"
  BY <1>1, EndStep DEF CommitDeleteFails
<1>3. UNCHANGED <<disk, about, ref, blocked, quarantine, banned, gone, used, cut, dropped, raced>>
  BY DEF CommitDeleteFails, histories
<1>4. Existing' = Existing /\ JobMoves(w)
  BY <1>2, <1>3, SameFiles
<1>5. TypeOK'
  BY <1>1, <1>2, <1>3, <1>4 DEF TypeOK, Jobs
<1>6. Tame(w)
  <2>1. ASSUME NEW g \in Existing PROVE DiskMoves(w, g) /\ RefMoves(w, g) /\ Leaves(w, g)
    <3>1. ~On(g, w)
      BY <1>1, Stored DEF DeleteOK, On
    <3> QED BY <1>1, <1>3, <3>1 DEF DiskMoves, RefMoves, Leaves, Resolves, Named
  <2> QED BY <1>3, <1>4, <2>1 DEF Tame, Grows
<1> QED BY <1>2, <1>5, <1>6, TameInv DEF JobOK

LEMMA UnlinkInv ==
    ASSUME UploadsInv, NEW w \in Workers, Unlink(w)
    PROVE  UploadsInv'
<1>1. /\ TypeOK /\ job[w] # Idle /\ job[w].at = "unlink" /\ job[w].op = "delete" /\ DeleteOK(w)
  BY PlaceOfJob DEF UploadsInv, Unlink
<1>2. /\ job' \in Jobs /\ Others(w) /\ job'[w] = Idle /\ job'[w].op = "idle"
  BY <1>1, EndStep DEF Unlink
<1>3. /\ UNCHANGED <<about, ref, blocked, quarantine, banned, gone, used, cut, dropped, raced>>
      /\ disk' \in [Files -> SUBSET Forms]
      /\ \A g \in Files : disk'[g] = disk[g] \ {x \in Forms : Listed(g, x, w)}
  BY <1>1, RemovedPaths DEF Unlink, histories
<1>4. \A g, x : Listed(g, x, w) => ref[g] = "none" /\ g \in Existing
  <2> SUFFICES ASSUME NEW g, NEW x, <<g, x>> \in job[w].list
               PROVE  ref[g] = "none" /\ g \in Existing
    BY DEF Listed
  <2>1. \A p \in job[w].list : ref[p[1]] = "none" /\ p[1] \in Existing
    BY <1>1 DEF DeleteOK
  <2> QED BY <2>1
<1>5. Existing' = Existing /\ JobMoves(w)
  <2>1. \A g \in Files \ Existing : disk'[g] = disk[g] /\ ref'[g] = ref[g]
    BY <1>3, <1>4
  <2> QED BY <1>2, <1>3, <2>1, SameFiles
<1>6. TypeOK'
  BY <1>1, <1>2, <1>3, <1>5 DEF TypeOK, Jobs
<1>7. Tame(w)
  <2>1. ASSUME NEW g \in Existing PROVE DiskMoves(w, g) /\ RefMoves(w, g) /\ Leaves(w, g)
    <3>1. ~On(g, w) /\ g \in Files /\ disk[g] \subseteq Forms
      BY <1>1, Stored DEF DeleteOK, On
    <3>2. /\ disk'[g] \subseteq disk[g]
          /\ \A x \in disk[g] \ disk'[g] : Listed(g, x, w) /\ ref[g] = "none" /\ x \in Forms
          /\ \A x \in Forms \cup {"detached"} : Listed(g, x, w) => x \notin disk'[g]
      <4>1. "detached" \notin disk[g]
        BY <3>1 DEF Forms
      <4> QED BY <1>3, <1>4, <3>1, <4>1
    <3>3. DiskMoves(w, g)
      BY <1>1, <1>3, <3>1, <3>2 DEF DiskMoves, Resolves, Named, Forms
    <3>4. RefMoves(w, g)
      BY <1>3 DEF RefMoves
    <3>5. Leaves(w, g)
      BY <3>1, <3>2 DEF Leaves
    <3> QED BY <3>3, <3>4, <3>5
  <2> QED BY <1>3, <1>5, <2>1 DEF Tame, Grows
<1> QED BY <1>2, <1>6, <1>7, TameInv DEF JobOK

LEMMA FailInv ==
    ASSUME UploadsInv, NEW w \in Workers, Fail(w)
    PROVE  UploadsInv'
<1>1. TypeOK /\ job[w] # Idle
  BY DEF UploadsInv, Fail
<1>2. /\ job' \in Jobs /\ Others(w) /\ job'[w] = Idle /\ job'[w].op = "idle"
  BY <1>1, EndStep DEF Fail
<1>3. /\ UNCHANGED <<disk, about, ref, blocked, quarantine, banned, gone, used, dropped, raced>>
      /\ cut \subseteq cut' /\ cut' \subseteq Existing
      /\ \A g \in Existing : \A x : On(g, w) \/ Listed(g, x, w) => g \in cut'
  <2>1. job[w].f \in Existing \cup {0} /\ FilesIn(job[w].list) \subseteq Existing /\ 0 \notin Existing
    BY <1>1, InHand, Stored
  <2>2. cut' = cut \cup ({job[w].f} \ {0}) \cup FilesIn(job[w].list)
    BY DEF Fail
  <2>3. \A g, x : Listed(g, x, w) => g \in FilesIn(job[w].list)
    BY DEF Listed, FilesIn
  <2> QED BY <1>1, <2>1, <2>2, <2>3 DEF Fail, TypeOK, On
<1>4. Existing' = Existing /\ JobMoves(w)
  BY <1>2, <1>3, SameFiles
<1>5. TypeOK'
  BY <1>1, <1>2, <1>3, <1>4 DEF TypeOK, Jobs
<1>6. Tame(w)
  <2>1. ASSUME NEW g \in Existing PROVE DiskMoves(w, g) /\ RefMoves(w, g) /\ Leaves(w, g)
    BY <1>3 DEF DiskMoves, RefMoves, Leaves, Resolves, Named
  <2> QED BY <1>3, <1>4, <2>1 DEF Tame, Grows
<1> QED BY <1>2, <1>5, <1>6, TameInv DEF JobOK

-----------------------------------------------------------------------------
(* Every step keeps the invariant.                                         *)

LEMMA InitInv == Init => UploadsInv
<1> SUFFICES ASSUME Init PROVE UploadsInv
  OBVIOUS
<1>1. /\ disk = [f \in Files |-> IF f \in Legacy THEN {"plain"} ELSE {}]
      /\ ref = [f \in Files |-> IF f \in Legacy THEN "plain" ELSE "none"]
      /\ blocked = {} /\ quarantine = {} /\ banned = {} /\ gone = {}
      /\ job = [w \in Workers |-> Idle] /\ used = 1
      /\ cut = {} /\ dropped = {} /\ raced = {}
  BY DEF Init
<1>2. Existing = {1} /\ 1 \in Files /\ 0 \notin Files
  BY <1>1, UploadsAssumption DEF Existing, Files
<1>3. \A w \in Workers : job[w] = Idle /\ job[w].f = 0 /\ job[w].list = {}
                         /\ job[w].op = "idle" /\ job[w].at = "idle"
  BY <1>1 DEF Idle
<1>4. TypeOK
  <2>3. about \in [Files -> About]
    BY DEF Init
  <2>4. disk \in [Files -> SUBSET Forms] /\ ref \in [Files -> Forms \cup {"none", "detached"}]
    BY <1>1 DEF Forms
  <2>5. \A f \in Files : ref[f] # "detached"
    BY <1>1
  <2> QED BY <1>1, <1>2, <2>3, <2>4, <2>5 DEF TypeOK
<1>5. \A w \in Workers : JobOK(w)
  BY <1>3 DEF JobOK
<1>6. \A f \in Existing : ref[f] = "plain" /\ disk[f] = {"plain"} /\ f \in Legacy /\ f \in Files
  BY <1>1, <1>2 DEF Legacy
<1>7. \A f \in Existing : FormsOK(f) /\ QuarantineOK(f) /\ NoOrphan(f)
  BY <1>1, <1>3, <1>6 DEF FormsOK, QuarantineOK, NoOrphan, Listed, Rewriting
<1>8. \A f \in Files \ Existing : Unused(f)
  BY <1>1, <1>2 DEF Unused, Legacy
<1>9. NoBytesLost /\ RowsResolve /\ EncryptedAtRest /\ ErasedWithAccount
  BY <1>1, <1>2, <1>6
  DEF NoBytesLost, RowsResolve, EncryptedAtRest, ErasedWithAccount, Named, Resolves, Forms
<1> QED BY <1>4, <1>5, <1>7, <1>8, <1>9 DEF UploadsInv

\* The invariant does not look at the block list or at who is banned.
LEMMA ListsInv ==
    ASSUME UploadsInv, TypeOK',
           UNCHANGED <<disk, about, ref, quarantine, gone, job, used, cut, dropped, raced>>
    PROVE  UploadsInv'
<1>1. Existing' = Existing
  BY DEF Existing
<1>2. \A w \in Workers : JobOK(w)'
  BY <1>1 DEF UploadsInv, JobOK, UploadOK, LegacyOK, FlagOK, DeleteOK, On, Listed, Rewriting,
              Excused, OwnedBy, Named
<1>3. \A f \in Existing : FormsOK(f)' /\ QuarantineOK(f)' /\ NoOrphan(f)'
  BY DEF UploadsInv, FormsOK, QuarantineOK, NoOrphan, Listed, On, Rewriting, Excused, Resolves, Named
<1>4. \A f \in Files \ Existing : Unused(f)'
  BY DEF UploadsInv, Unused
<1>5. NoBytesLost' /\ RowsResolve' /\ EncryptedAtRest' /\ ErasedWithAccount'
  BY <1>1
  DEF UploadsInv, NoBytesLost, RowsResolve, EncryptedAtRest, ErasedWithAccount, Named, Resolves
<1> QED BY <1>1, <1>2, <1>3, <1>4, <1>5 DEF UploadsInv

LEMMA InvStep == UploadsInv /\ [Next]_vars => UploadsInv'
<1> SUFFICES ASSUME UploadsInv, [Next]_vars PROVE UploadsInv'
  OBVIOUS
<1>1. ASSUME NEW w \in Workers, Step(w) PROVE UploadsInv'
  <2>1. CASE \E a \in About : BeginUpload(w, a)
    BY <2>1, BeginUploadInv
  <2>2. CASE \E f \in Existing : BeginLegacy(w, f) \/ BeginFlag(w, f)
    BY <2>2, BeginLegacyInv, BeginFlagInv
  <2>3. CASE \E u \in Users : BeginDelete(w, u)
    BY <2>3, BeginDeleteInv
  <2> QED BY <1>1, <2>1, <2>2, <2>3, SaveInv, RefuseInv, BanInv, ProcessInv, SealInv, RemovePlainInv, SwapInv,
             CommitUploadInv, CommitLegacyInv, MoveInv, RecordInv, CommitDeleteInv,
             CommitDeleteFailsInv, UnlinkInv, FailInv DEF Step
<1>2. CASE Unblock \/ Unban
  <2>1. TypeOK /\ Existing' = Existing
    BY <1>2 DEF UploadsInv, Unblock, Unban, Existing
  <2>2. TypeOK'
    BY <1>2, <2>1 DEF TypeOK, Unblock, Unban, histories
  <2> QED BY <1>2, <2>2, ListsInv DEF Unblock, Unban, histories
<1>3. CASE UNCHANGED vars
  <2>1. TypeOK /\ Existing' = Existing
    BY <1>3 DEF UploadsInv, vars, Existing
  <2>2. TypeOK'
    BY <1>3, <2>1 DEF TypeOK, vars
  <2> QED BY <1>3, <2>2, ListsInv DEF vars
<1> QED BY <1>1, <1>2, <1>3 DEF Next

LEMMA Invariant == Spec => []UploadsInv
<1> QED BY InitInv, InvStep, PTL DEF Spec

-----------------------------------------------------------------------------
(* The theorems about uploads.                                             *)

(* Rows, files and jobs keep their types; only a message can lose its
   attachment and stay.                                                      *)
THEOREM TypeCorrect == Spec => []TypeOK
<1>1. UploadsInv => TypeOK
  BY DEF UploadsInv
<1> QED BY <1>1, Invariant, PTL

(* encrypt-legacy, uploads, moderation and deletions lose no byte of a file
   that a row names, whatever fails and whoever races.                       *)
THEOREM BytesAreKept == Spec => []NoBytesLost
<1>1. UploadsInv => NoBytesLost
  BY DEF UploadsInv
<1> QED BY <1>1, Invariant, PTL

(* No row names a path that is not there, unless its file is in hand, was left
   by a dead request, or was the picture that edit_profile replaces.         *)
THEOREM RowsFindTheirFiles == Spec => []RowsResolve
<1>1. UploadsInv => RowsResolve
  BY DEF UploadsInv
<1> QED BY <1>1, Invariant, PTL

(* The plaintext of an upload outlives only a request that died.             *)
THEOREM UploadsAreEncrypted == Spec => []EncryptedAtRest
<1>1. UploadsInv => EncryptedAtRest
  BY DEF UploadsInv
<1> QED BY <1>1, Invariant, PTL

(* A quarantined file is named by no row that still finds it.                *)
THEOREM QuarantineHolds == Spec => []FlaggedNotServed
<1>1. UploadsInv => FlaggedNotServed
  BY DEF UploadsInv, TypeOK, QuarantineOK, FlaggedNotServed
<1> QED BY <1>1, Invariant, PTL

(* Nothing of a deleted account is left, but for the listed excuses.         *)
THEOREM AccountsAreErased == Spec => []ErasedWithAccount
<1>1. UploadsInv => ErasedWithAccount
  BY DEF UploadsInv
<1> QED BY <1>1, Invariant, PTL

-----------------------------------------------------------------------------
(* The backup.                                                             *)

\* The script never changes what the site works on.
LEMMA BackupRunsSite == BackupSpec => Spec
<1>1. BackupInit => Init
  BY DEF BackupInit
<1>2. [BackupNext]_<<vars, backupVars>> => [Next]_vars
  BY DEF BackupNext, SiteStep, BackupStep
<1> QED BY <1>1, <1>2, PTL DEF BackupSpec, Spec

\* A snapshot row's path: still there or removed, then listed, then copied.
Kept(f) ==
    /\ phase = 2 => rows[f] \in disk[f] \/ <<f, rows[f]>> \in vanished
    /\ phase = 3 => <<f, rows[f]>> \in todo \cup copied \cup vanished
    /\ phase = 4 => <<f, rows[f]>> \in copied \cup vanished

BackupInv ==
    /\ phase \in 1..5
    /\ \A f \in Files : rows[f] \in Forms => Kept(f)

LEMMA PhaseNames ==
    ASSUME phase \in 1..5
    PROVE  /\ At("snapshot") <=> phase = 1
           /\ At("list") <=> phase = 2
           /\ At("copy") <=> phase = 3
           /\ At("done") <=> phase = 4
           /\ At("failed") <=> phase = 5
<1>1. phase = 1 \/ phase = 2 \/ phase = 3 \/ phase = 4 \/ phase = 5
  OBVIOUS
<1> QED BY <1>1 DEF At, Phases

LEMMA BackupInvStep ==
    BackupInv /\ [BackupNext]_<<vars, backupVars>> => BackupInv'
<1> SUFFICES ASSUME BackupInv, [BackupNext]_<<vars, backupVars>> PROVE BackupInv'
  OBVIOUS
<1>1. phase \in 1..5 /\ \A f \in Files : rows[f] \in Forms => Kept(f)
  BY DEF BackupInv
<1>2. CASE SiteStep
  <2>1. /\ UNCHANGED <<phase, rows, todo, copied>>
        /\ vanished' = IF ~At("list") THEN vanished
                       ELSE vanished \cup {p \in Paths : p[2] \in disk[p[1]] \ disk'[p[1]]}
    BY <1>2 DEF SiteStep
  <2>2. ASSUME NEW f \in Files, rows[f] \in Forms PROVE Kept(f)'
    <3>1. Kept(f) /\ <<f, rows[f]>> \in Paths
      BY <1>1, <2>2 DEF Paths
    <3>2. phase = 2 /\ rows[f] \in disk[f] \ disk'[f] => <<f, rows[f]>> \in vanished'
      BY <1>1, <2>1, <3>1, PhaseNames
    <3> QED BY <2>1, <3>1, <3>2 DEF Kept
  <2> QED BY <1>1, <2>1, <2>2 DEF BackupInv
<1>3. CASE Snapshot /\ UNCHANGED vars
  <2>1. phase = 1 /\ phase' = 2 /\ disk' = disk
        /\ rows' = [f \in Files |-> IF Resolves(f) THEN ref[f] ELSE "none"]
    BY <1>1, <1>3, PhaseNames DEF Snapshot, vars
  <2>2. \A f \in Files : rows'[f] \in Forms => rows'[f] \in disk[f]
    BY <2>1 DEF Resolves, Forms
  <2> QED BY <2>1, <2>2 DEF BackupInv, Kept
<1>4. CASE List /\ UNCHANGED vars
  <2>1. phase = 2 /\ phase' = 3 /\ rows' = rows /\ copied' = copied /\ vanished' = vanished
        /\ todo' = {p \in Paths : p[2] \in disk[p[1]]}
    BY <1>1, <1>4, PhaseNames DEF List, vars
  <2>2. ASSUME NEW f \in Files, rows[f] \in Forms
        PROVE  <<f, rows[f]>> \in todo' \cup vanished
    <3>1. <<f, rows[f]>> \in Paths /\ Kept(f)
      BY <1>1, <2>2 DEF Paths
    <3> QED BY <2>1, <3>1 DEF Kept
  <2> QED BY <2>1, <2>2 DEF BackupInv, Kept
<1>5. CASE Copy /\ UNCHANGED vars
  <2>1. phase = 3 /\ UNCHANGED <<phase, rows, vanished>>
        /\ todo \cup copied \subseteq todo' \cup copied'
    BY <1>1, <1>5, PhaseNames DEF Copy
  <2> QED BY <1>1, <2>1 DEF BackupInv, Kept
<1>6. CASE Abort /\ UNCHANGED vars
  <2>1. phase' = 5
    BY <1>6 DEF Abort, Phases
  <2> QED BY <2>1 DEF BackupInv, Kept
<1>7. CASE Finish /\ UNCHANGED vars
  <2>1. phase = 3 /\ phase' = 4 /\ todo = {} /\ UNCHANGED <<rows, todo, copied, vanished>>
    BY <1>1, <1>7, PhaseNames DEF Finish
  <2> QED BY <1>1, <2>1 DEF BackupInv, Kept
<1>8. CASE UNCHANGED <<vars, backupVars>>
  BY <1>1, <1>8 DEF BackupInv, Kept, vars, backupVars
<1> QED BY <1>2, <1>3, <1>4, <1>5, <1>6, <1>7, <1>8 DEF BackupNext, BackupStep

(* A run of backup.sh that reports success has copied every file that its
   snapshot of the databases names and that was not removed before it listed
   uploads/, however many requests go on meanwhile.                          *)
THEOREM BackupsAreComplete == BackupSpec => []BackupComplete
<1>1. BackupInit => BackupInv
  BY DEF BackupInit, InitBackup, BackupInv, Forms
<1>2. BackupInv => BackupComplete
  BY PhaseNames DEF BackupInv, BackupComplete, Kept
<1> QED BY <1>1, <1>2, BackupInvStep, PTL DEF BackupSpec

(* What holds of the site's files holds of them during a backup.             *)
THEOREM SiteDuringBackup ==
    BackupSpec => [](/\ TypeOK /\ NoBytesLost /\ RowsResolve
                     /\ EncryptedAtRest /\ FlaggedNotServed /\ ErasedWithAccount)
<1> QED BY BackupRunsSite, TypeCorrect, BytesAreKept, RowsFindTheirFiles, UploadsAreEncrypted,
           QuarantineHolds, AccountsAreErased, PTL

=============================================================================
