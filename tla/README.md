# blog-privacy in TLA+

TLA+ models of the Flask blog `kerstz/blog-privacy`, the TLC runs that check them on small
instances, and TLAPS proofs of the properties that hold for every instance. Paths are relative to
the repository (`app/...`, `update.sh`, ...).

    tlc -config Accounts.cfg MCAccounts.tla     # a run
    tlapm Accounts_proofs.tla                   # the proofs about a module

## The system

gunicorn runs **one worker with 32 threads** (`deploy/blog.service:14-16`); each request is handled
by one thread from start to end. The data is one SQLite database through SQLAlchemy, a second SQLite
file for the rate limiter, a tree of uploads, and one process-wide list of event-stream subscribers.
`update.sh` and `backup.sh` run beside it, from a shell or from cron.

Four facts about this stack decide how the modules are built.

* A `SELECT` runs outside any transaction: pysqlite only opens one before the first `INSERT`,
  `UPDATE` or `DELETE`. A handler is therefore *some reads*, each at its own time, and then *one
  transaction*, from the first flush to the commit, that holds the only write lock.
* Within a request SQLAlchemy keeps loaded rows (identity map). Querying again returns the loaded
  copy, not the row as it is now, as long as the handler holds on to it.
* An ORM `UPDATE` writes the columns whose value differs from the loaded one, and nothing else. On a
  row that is gone it is an error (`StaleDataError`); a `DELETE` of a row that is gone is a warning.
* After a commit the loaded rows are expired: the next access reads the table.

### Components

| Component | State | Operations | Hard because | What makes it correct |
|---|---|---|---|---|
| **Rate limiter, failure counters** (`app/utils.py:410-627`, login in `app/routes.py:836-900`, `app/cli.py:56-76`) | table `hits(key, ts)` | hit, check, record, clear, purge, unlock | threads; times read before the lock; check and record apart; restart | limits per sliding window; a purge is harmless; nobody can lock everybody out |
| **Accounts, roles, sessions** (`app/models.py:124-172`, `app/__init__.py:140-154`, handlers in `app/routes.py`) | table `user`, cookies | register, login, logout, password, log out everywhere, promote, demote, ban, unban, delete | rows loaded before somebody else's commit | an administrator remains; an ended session stays ended; a session is of its account |
| **Second factor** (`app/services.py:242-342`, `app/routes.py:903-958`, `2063-2149`) | TOTP counter, recovery codes, pre-2FA session | set up, verify, disable, regenerate | check and commit apart | each code works once |
| **Site text editor** (`app/routes.py:436-679`, `app/site_text.py:605-739`) | `site_text`, `site_text_revision`, the fingerprints of open pages | show, save, revert, import | old pages, identity map | no silent overwrite; the history tells the state |
| **Updater** (`update.sh`) | work tree, dependencies, schema, lock, upload format | update, resume, roll back | any command fails, reboots, cron and manual runs, a script that replaces itself | verified code only; one at a time; exact rollback; readable uploads |
| **Backup** (`backup.sh`) | archives | run, restore | database and uploads copied at two moments | a restored site is one the site could have been |
| Schedules (`backup.sh:145-176`, `auto-update.sh`) | the crontab | enable, disable | two scripts and an operator share one table | the table is what was asked for |
| **Posts, publication** (`app/utils.py:640-654`, `app/routes.py`) | `post` | create, edit, schedule, publish, delete | every request publishes | a draft is never published |
| **Comments, likes, experience, notifications** | counters beside rows | like, comment, reply, delete | lost updates | counters agree with rows |
| **Chat, mobile API, event stream** (`app/mobile_api.py`, `app/services.py:94-106`) | subscriber list, bounded queues | send, subscribe, publish | slots, full queues, revoked credentials | slots come back; revoked subscribers stop |
| **Uploads, moderation, encryption** (`app/services.py:505-714`, `app/image_safety.py`) | files, rows that name them, block list | store, encrypt, quarantine, flag, remove | file and row change in two steps | every row names a readable file |
| Pages, banners, contact, donors | rows | create, update, delete | no | - |
| BBCode, sanitizers, language, anti-spam | none | string functions | no | output is within the allowed grammar |

Interaction: login, the second factor and most `POST` handlers call the limiter first; moderation and
the mobile API read and rotate the account's `session_version`; the updater converts uploads with
`encrypt-legacy`; the hook `publish_due_scheduled_posts` runs before every request.

`PROJECT.json` lists the hazards of each component at their lines, with the properties that cover them.

## Modules

| Module | Models | Extended by |
|---|---|---|
| `RateLimit` | limiter, failure counters, `POST /login` | `MCRateLimit`, `RateLimit_proofs` |
| `Accounts` | accounts, roles, sessions | `MCAccounts`, `Accounts_proofs` |
| `SiteText` | site text editor | `MCSiteText`, `SiteText_proofs` |
| `Updater` | `update.sh` | `MCUpdater`, `Updater_proofs` |
| `OneTimeCodes` | what a second factor promises (abstract) | instantiated by `SecondFactor` |
| `SecondFactor` | TOTP, recovery codes, pre-2FA session | `MCSecondFactor`, `SecondFactor_proofs` |
| `Uploads` | files and the rows that name them, block list, quarantine | `Backup` |
| `Backup` | `backup.sh run` beside `Uploads`, up to the copy | `MCBackup`, `Uploads_proofs` |
| `Stream` | event streams, publication, the thread pool | `MCStream`, `Stream_proofs` |
| `Posts` | posts, revisions, tags, scheduled publication | `Discussion` |
| `Discussion` | comments, likes, points, badges, notifications, deletions | `MCDiscussion`, `Discussion_proofs` |

Each module is one component: its tables and shell state as variables, one action per step of a
handler that others can observe, parameters as constants with an assumption. A definition that only
exists to be swapped in for another (`ReachedInclusive`, `MergeTip`, ...) carries the comment
`Mutant:` and is used by no specification: it is a plausible bug, and the property named with it in
`PROJECT.json` catches it.

### RateLimit

A call goes through `new, limitIp, checkUser, checkClient, verify, recordClient, done | refused`;
each phase is one access to the table, atomic in the code thanks to `_STATE_LOCK` and
`BEGIN IMMEDIATE`. `rows` is the table; `log` is a history variable, the rows that were written and
not deliberately cleared, so that properties can speak of rows a purge has taken. `last[c]` is the time
the call read last: `ReadTime` lets that time be up to `Skew` older than the moment the lock is
obtained, which is what `now = time.time()` in front of `with _STATE_LOCK` does, and never older than
the one it read before (the system clock is taken to be monotonic). `Purge` is `_cleanup`, a choice at
every access that writes. `Limit`/`LimitIp` are the decorator, `CheckUser`/`CheckClient` the two
`too_many_failures`, `WrongPassword`/`RecordClient` the two `record_failure`, `RightPassword` clears,
`Uncounted` stands for an invalid form and for a suspended account. `Restart` ends the threads and
keeps the table. The bound of an address is three times
the limit as in the decorator. Left out: the counters of the alerts about administrators (keys of
their own, nobody is refused by them), the limiters of other handlers (same operators, other keys), the
`shared` key of decorators without a `key_func`.

### Accounts

Row columns kept: role, ban, forced password change, `session_version`, and `uid`, the number of the
account since the site exists, which the table does not have and which tells an account from a later one
with the same id. `cookie` is what each browser presents. `job` is a request in flight: `load` (own row
loaded by `load_user`), `commit` (decision taken, `seen` is the row it was taken on), `respond` (the
new cookie has not been written yet). `Decide` puts the `SELECT`s of a decision in one step; the window
that matters, up to the commit, is open. `Renewed`/`Updated` write the columns a handler assigns, with
`Set` for "only if it differs from the loaded value". `revoked` is a history variable: the browsers
whose session somebody else's action was meant to end. `ban` is the account part of
`flag_message_image`. `/totp/setup` and `/totp/disable` end as `logoutEverywhere` does.

Any number of requests overlap, and the handlers do not prevent what the site promises not to happen:
two of the promises fail (see What does not hold). The properties of the passing runs say what does hold
under every overlap, with histories that tell apart the cases. `counted` is the set of administrators a
request saw when it decided: the last administrator only goes in the commit of a request that is
`Overtaken`, because a counted administrator is none any more or its target has become one
(`LastAdminGoesOvertaken`). `written` has the number of every rotation committed, and `doubtful` those that
do not tell sessions apart: a number written twice for one account, one written from a session that had
itself been ended, or one that a response read back after another rotation (`Rotate`, `Respond`). A browser
in `revoked` only gets back in with a `doubtful` number (`EndedStayOut`).

### SiteText

A page is the set of fingerprints it was rendered with; fingerprints are taken to be injective. `Save`
is the handler down to its list of changes (`plan`) and the rows its session holds (`seen`); `Find` is
`apply_change` key by key while no lock is held; `Write` is the first flush, the rest of the plan under
the lock, and the commit. `Answers` is what the query of `apply_change` can return: nothing, the loaded
copy, or the row. `Written` writes only the columns that differ from the row found, `FlushFails` is the
`IntegrityError` or `StaleDataError` that ends in a rollback. Texts are model values: `Default` and
`Blank` are the two inputs that mean "no customisation" (`effective_override`), `Invalid` those
`validate_value` refuses.

Requests overlap as they like, and two promises fail when they do (see What does not hold). `raced[e]` is
the history of what another request changed in the table since the session of editor `e` loaded it
(`Loaded`: the whole table for a save, the first key to write otherwise), `torn` the keys that were last
written by a request raced on them. A save overwrites only texts it was raced on (`OverwritesOnlyRaced`,
text by text: a race on one excuses no other), and the last revision of a text tells what the site shows
unless it is torn, which the next write ends (`HistoryTellsUntorn`).

### Updater

`head` is HEAD and the work tree; `deps` and `schema` the version pip and Alembic have brought them to,
or `Torn` in between; `format` the newest version whose `encrypt-legacy` has run; `archives` the formats
that the update backups in `backups/` have; `lock` the flock. A run
goes through the numbered steps of `main()` and of `rollback()`. Every command that the script guards
can fail; `Reboot` ends all runs anywhere; `Push` moves the remote. The resumed script
(`--resume-after-pull`) locks again, and in `--auto` mode fetches again. One timing assumption: the
moment between `exec 9>` and `flock` of a resumed script is shorter than a step of another run
(`Relocking`), so another run can take the lock in it but not get further. What the application does
meanwhile, the contents of the archives, how many there are of a format (`Prune` may leave any of them),
and the choice of the virtualenv are left out;
`UPDATE_ALLOW_UNSIGNED` is taken to be unset, with `UPDATE_GPG_HOME` set.

### SecondFactor, OneTimeCodes

One account, several browsers. A request holds the row it loaded (`job[b].seen`), and its commits write
columns computed from that row: `Consume` is the commit of `verify_second_factor` (the counter, or the
list of recovery codes without the code), after which the row is expired, `Reload` the read of the new
row by `invalidate_other_sessions`, `CommitSetup`, `CommitRegenerate`, `CommitRotation` the last commits,
`Respond` the `login_user` that signs the version the row has by then. A TOTP code is its secret and its
step, a recovery code its set and its number; `now` counts steps of 30 s. `pre` and `pending` are the
parts of the cookie session that belong to no logged-in user. Only right passwords and accepted codes
begin a request: a rejected one changes nothing but the failure counters, which are in `RateLimit`.

`overtaken` is a history variable: some request wrote over a counter, a list or a version that another
one had changed since it was loaded, or signed a cookie with another request's version. The properties
speak of behaviours before that point. `ImplementsOneTimeCodes` is a refinement: with `Live`, the codes
that would be accepted now or later, for `live`, every step is a step of `OneTimeCodes` (a code is
accepted once, nothing handed out later brings it back) or a stutter. After it, the refinement fails:
two requests with one code both succeed, and the slower writes its older counter back.

### Uploads, Backup

A file is in `uploads/` as plaintext (`plain`), as `<name>.enc` (`enc`), both or neither; `ref[f]` is the
form that the row of `f` names, `detached` for a message whose attachment was taken away, `none` when no
row names it. File 1 is one from before encryption at rest. `about` tells the owner of the picture or
conversation and the sender, who is the owner or, in a conversation, an administrator (`NoUser`: never
banned, and free to write to a banned account). The steps of an upload are actions: guards passed and name
drawn (`BeginUpload`), bytes saved (`Save`), screened (`Refuse` and `Ban`, or `Process`, which an image
also reaches when the check fails), ciphertext in place (`Seal`), plaintext removed (`RemovePlain`), the
old profile picture removed (`Swap`), row committed (`CommitUpload`). The account may be banned or deleted
between any two of them.
`flask encrypt-legacy` goes through `Seal` and `RemovePlain` too, for one row at a time; it passes over
rows whose plaintext is not there (`Pending`). Flagging moves
the file to the quarantine (`Move`) before the commit (`Record`); if its block list entry is new, the
flush holds SQLite's write lock in between (`WriteLockFree`). Account deletion reads the paths, commits,
and removes the files (`BeginDelete`, `CommitDelete`, `Unlink`); a message it has not read keeps its
`NOT NULL` reference to the user, so the commit is an `IntegrityError` and a rollback
(`CommitDeleteFails`). `Fail` may end any of them between two
steps. Images are told apart by their perceptual hash; the `.tmp` file of the encryption is left out
(`os.replace` is atomic).

The properties say where a loss can come from. `cut` are the files of requests that died, `dropped`
pictures removed for a new one before its commit, `raced` files whose row changed under a request that
had read it. What they excuse is real:

* a profile update that dies after `Swap` leaves a row without a file;
* an `encrypt-legacy` that dies between `os.remove` and its commit leaves a row that names the removed
  plaintext; the ciphertext is on disk, but a rerun takes the file for missing and passes over the row
  (`app/cli.py:21`, `LegacyFound`);
* a flagging that dies after `Move` leaves a message that can neither be served nor flagged again ("The
  file is no longer on disk.");
* two profile updates at once leave a file that no row names;
* `encrypt-legacy` beside a deletion leaves an `.enc` file, and beside a new profile picture puts the old
  one back;
* a message sent after its account is deleted stays, with its file; one sent while the deletion is between
  its reads and its commit makes the deletion fail instead.

`Backup` composes `backup.sh run` with it: `Snapshot` copies the databases, `List` and `Copy` are
`cp -a uploads` (`cp` reads the directory first and copies file after file), `Abort` is the end of the
script under `set -e` when a listed file is gone. `Parallel` bounds the workers while a backup runs.

### Stream

`Threads` threads serve a first-come backlog (`Connect`, `Arrive`, `Dispatch`). A stream goes from
`handler` (authenticated, version read) through `Register` (the slot, under `mobile_event_lock`) to the
loop of the generator: `get` (`queue.get`, ended by `Take` or by `TimeOut`) and `decide` (re-check, then
the write). Any other request may publish: it takes the lock, puts the event to each queue without
waiting, and releases it. `age` counts ticks since the last check, `late` the ticks an open stream has
been revoked for; both stop at `Heartbeat`. `RegisterHead` is a `HEAD` request, which Flask routes to the
same view: the queue is registered and the generator closed before it started, so that its `finally`
never runs (`leaked`, bounded by `MaxLeaks`). A write to a client that went away may succeed once
(`unnoticed`); writes are assumed to return. `TimeOut` asks for `age = Heartbeat`, which is exactly
the timeout of `queue.get` when no event came since the last check, and possibly earlier than it when one
did.

### Posts, Discussion

`Posts` has the table of posts with its revisions and tags; `Discussion` extends it with comments, likes,
notifications, users and one badge, and gives the specification. A request is begun with what its handler
reads before its first flush (`more`), and commits in one action what it does from the flush on.
`Merged` is an ORM `UPDATE`: the columns that differ from the row loaded. Commenting takes two
transactions: `Insert`, then `LoadReward` reads everything again and `CommitReward` adds points, the
badge and the notification; a deletion in between leaves a comment without reward. Bulk statements
(`DELETE ... WHERE`) act on the table, whatever was loaded. The hook `publish_scheduled_posts` is a
request of its own, since its transaction is over before the handler begins.

Ids are reused as SQLite does (the highest plus one); the `uid` of a
comment tells it from a later one with its id. Comments and likes that were loaded go by their ids: when an
id was given again meanwhile, another row goes.
History: `asked` and `past` of a post, `to` of a like, `granted` and `awards` of a user, `erased` (likes
that went with an account), `stray` (a row written when something it refers to was already gone: foreign
keys are not enforced, so nothing stops it; or a reply whose parent was deleted for another comment with
its id), and `overtaken` as above. The badge is "10_comments"; the
others differ in the condition only. View counts, rate limits, the markup of comments and the text of
notifications are left out; `delete_own_account` is `deleteUser` with another administrator.

## Runs

| Run | Instance | Shows |
|---|---|---|
| `RateLimit` | 3 calls, 2 threads, limits and windows 1, `Skew` 1, `MaxAge` 2, clock to 2 | `WindowBound`, `FailureBound`, `NoEarlyPurge`, `NoSharedLockout` hold |
| `Accounts` | 2 browsers, ids 1..2, an account that must change its password, and either two rotations of an account or one newcomer | `EndedStayOut`, `LastAdminGoesOvertaken` hold |
| `AccountsLastAdmin` | two administrators | **violates** `AtLeastOneAdmin` |
| `AccountsIdReuse` | a deletion and a newcomer | **violates** `SessionOwner` |
| `SiteText` | 2 editors, a known key and an orphan, 2 revisions kept | `HistoryTellsUntorn`, `OverwritesOnlyRaced` hold |
| `Updater` | a manual and a cron run, 4 versions | `VerifiedCode`, `OneUpdateAtATime`, `ReadableUploads`, `RollbackExact` hold |
| `UpdaterInterrupted` | the same | **violates** `KnownGood` |
| `UpdaterBackup` | the same | **violates** `BackupGoesOn` |
| `SecondFactor` | 2 browsers, one recovery code per set, 2 steps of 30 s, 1 secret, 2 sets of codes, versions to 3 | `NoBypass`, `NewestCodesOnly`, `ImplementsOneTimeCodes` hold until a request is overtaken |
| `Backup` | 2 workers, 1 account, 1 image and a file that is none, 2 files; one worker during the backup | `NoBytesLost`, `RowsResolve`, `EncryptedAtRest`, `FlaggedNotServed`, `ErasedWithAccount`, `BackupComplete` hold |
| `Stream` | 2 streams, 2 other requests, 3 threads, 1 slot, queues of 1, heartbeat of 2 ticks, 2 events, 1 leak | `InOrder`, `NoLateEvent`, `SlotReturned`, `Served` hold |
| `Discussion` | 2 threads, an administrator and a member, 2 posts, 2 comments, 4 requests of one of 7 mixes, clock to 1 | `OnlyDuePublished`, `RevisionsComplete`, `ReferencesResolve`, `LikesCounted`, `NoFarming`, `ErasedStaysErased`, `BadgeOnce` hold |

Why these bounds are enough:

* `RateLimit`: two threads exceed a limit together and a third call meets what they left; limits of 1
  are reached by the first row; `MaxAge` is 2 and times go from -1 to 2, so rows do get purged, and a
  reader that is one tick late is exactly at the edge `Window + Skew <= MaxAge`. `MCTraffic` takes three
  onion visitors with one name, or one of each kind of visitor; symmetric in the calls. Three calls do not
  reach the bound of an address, which is three times the limit; that one, like every other choice of the
  constants, is covered by the theorem only.
* `Accounts`: two browsers are enough for one request to pass between the load and the commit of
  another; two accounts for an actor and a target; two rotations to write one number and to go on from there; one
  newcomer for an id to be used again. Rotations and newcomers together are too many states:
  `CONSTRAINT OneOrTheOther` has the behaviours in which no account is rotated twice or none is created;
  the theorems cover the others. `MaxVersion`
  stops rotations, `Newcomers` stops registrations, hence `CHECK_DEADLOCK FALSE`: the site does not stop,
  the instance does. `RateLimit` has it for the same reason (finite calls, bounded clock).
* `SiteText`: two keys are enough for one save to change one and pass over the other, and to be raced on
  one of them only; two revisions for retention to delete the older, one orphan for the keys that can only
  be reset. Deadlock is checked.
* `Updater`: two runs for the lock; version 2 rewrites the script, version 3 is not signed, version 4
  lies beyond it, so that a run can have fetched one version while the branch holds another. No archive is
  there at first: runs end after their backup until there is one of each format. Deadlock is checked.

* `SecondFactor`: two browsers are two requests that meet, or a session that must end; two sets of codes
  for one that replaces another; a clock of two steps and a tolerance of one give codes of the past, the
  present and the next step; with `PreMaxAge` 0 the pre-2FA session expires at the first tick, and is used
  before it. Deadlock is checked.
* `Backup`: two workers are two requests that meet on a file; of the two files one is from before
  encryption and one is new, of the same account, so that a picture replaces a picture. One of them at a
  time works during a backup (`Parallel`): what two do to each other is the business of the states
  without a backup. The instance stops when all files are used and the account is gone
  (`CHECK_DEADLOCK FALSE`).
* `Stream`: one slot, so that it is full or lost; three threads, so that with two other requests and a
  stream all are busy and one more request waits in the backlog; a queue of one is full at the second
  event, and a heartbeat of two ticks separates "just now", "a while ago" and "a period ago". No
  symmetry, because of the liveness properties. Deadlock is checked.
* `Discussion`: four requests are two that set the scene and two that race. `Mixes` says which
  operations a behaviour is made of, so that the instance does not multiply operations that touch
  different rows; every operation is in one with those it can disturb. Two posts and two comments make a
  reused id and a reply possible; `PerLevel` is small so that levels do rise, `BadgeAt` is 1 so that the
  badge is earned, one account holds it under its old name. The clock has the moment before and the moment
  of a scheduled publication. The instance stops after four requests (`CHECK_DEADLOCK FALSE`).
* `SecondFactor` and `Discussion` have `CONSTRAINT Undisturbed`: the first state in which a request was
  overtaken is checked, what follows is not explored, because most properties hold there by definition
  and `overtaken` is never reset. `TypeOK` and `ReferencesResolve` are not excused from those states; for
  them the theorems `TypeCorrect` and `DeletionsCleanUp` (of any number of requests, overtaken or not) say
  what the runs leave out.

**Fairness.** Only `Stream` uses any. Weakly fair: each step of a stream's generator (its thread runs),
the end of any other request (`Finish`, the steps of a publication: handlers end, `wait_for_...` after at
most 25 s), the dispatch of the backlog, and time. Not fair: clients, the arrival of requests,
revocations, disconnections, restarts. It is enough that fairness is weak: a step of a generator that
waits for the lock is not enabled meanwhile, but publications are bounded in number, so that the lock is
free in the end. `Served` needs more threads than slots (`MaxSubs < Threads`; 10 and 32 in the
deployment); with as many slots as threads two idle streams would keep every request waiting.
All other properties are about what may never happen.

## What does not hold

Eight statements of the documentation, of docstrings or of comments are not what the code does. Four have
a violation run.

1. *The last administrator.* `demote_user` and `delete_own_account` count administrators with a
   `SELECT` and commit later. Two of them at once leave none (`AccountsLastAdmin`).
2. *Session of another account.* SQLite gives the id of the last account again after its deletion, and
   every account starts at version 0 (`AccountsIdReuse`).
3. *"Already up to date"* after a run that stopped half-way (`UpdaterInterrupted`): the comparison of
   HEAD with the remote says nothing about dependencies and schema.
4. *Updates are installed after the backup.* The last pipeline of `make_backup` starts with `ls` of three
   patterns; with `pipefail` it fails unless `backups/` has an archive of each format, and
   `make_backup || exit 1` ends the run without a message (`UpdaterBackup`). With one format in use no
   update is ever installed.

The other four are stated in the modules beside the weaker property that a run checks. To see one fail, put
it in the place of that property in the configuration; each counterexample is a few steps long.

5. *"Password change, role change and 'log out everywhere' invalidate other sessions"* (`README.md:221`):
   `RevokedStayOut` in `Accounts.cfg`. `session_version` is incremented from a loaded value: two rotations
   that overlap write one number, or the answer to the first signs the number of the second, and a session
   that was to end goes on.
6. *A key changed meanwhile "est signalee comme conflit au lieu d'etre ecrasee"* (`app/routes.py:446`):
   `NoSilentOverwrite`, a `PROPERTY`, in `SiteText.cfg`. Conflicts are looked for in the rows loaded at the
   start of the request: what is committed before the first flush of the save is overwritten in silence.
7. *A revision is "etat APRES le changement"* (`app/models.py:377`): `HistoryTellsState` in `SiteText.cfg`.
   Two overlapping imports or reverts write a column each to the row and both columns to their revisions:
   the last one tells a pair that is not shown.
8. *`encrypt-legacy` is "idempotent and safe to run on every update"* (`app/cli.py:31`): `LegacyFound` in
   the place of `RowsResolve` in `Backup.cfg`. When the command dies between the removal of a plaintext and the commit of its row, the
   next run takes the file for missing and passes over the row.

Other races are built into the models as what their properties excuse (`doubtful`, `raced`, `torn`,
`overtaken`, `cut`, `dropped`, `stray`, `leaked`), and show up when the excuse is taken away:

* A code of the second factor works twice when two requests load the account at the same time; two
  overlapping renewals can leave a session without a code; a list of recovery codes can come back.
* A draft can be published: the hook selects a due post, an edit saves it as a draft, the hook's
  `UPDATE` sets `is_published` on it. A due post deleted between the two fails the whole batch, and the
  request it ran for.
* Two edits of a post that overlap lose a text from its history, and number two revisions alike.
* A comment written while its post, its parent or its author is deleted points to nothing, and to
  somebody else's row once the id is used again.
* `_delete_post_and_children` lists the comments of a post before it takes the lock. An id of the list that
  is free by then and given again to a comment of another post takes that comment with it, and replies
  to it point to nothing. A like taken back goes by its id in the same way. The run has too few requests
  for this; the attempt to prove `ReferencesResolve` found it.
* Likes given at the same time are counted once; points given at the same time too. A deleted comment
  that keeps its place keeps its old counter, and can still be liked.
* An edit of a comment that overlaps with its deletion brings its text back.
* A request that has loaded an account before its badge was renamed gives it the badge again, under the
  new name. Renaming the row of the table takes the lock before the accounts are read, so an
  account that earns the badge before that is renamed with the others, unless it is the administrator's
  own, which was loaded when the request began. When the table has no row to rename the accounts are
  read without the lock.
* A `HEAD` request to the event stream takes a slot for good.
* The file losses listed under Uploads.

## Proofs

The `*_proofs` modules hold for every value of the constants that satisfies the assumption in the
module: any number of calls, threads, browsers, keys, runs, files, streams, any limits and bounds.
Every theorem has the same shape: an inductive invariant stated in named parts, one lemma per action
that it is preserved, and the property from the invariant.

**RateLimit.** `LimiterAssumption` asks for positive limits and windows, and for
`window + Skew <= MaxAge`: the longest window is 3600 s, the retention a day.

* `TypeCorrect`: `Spec => []TypeOK`; the table is finite and at most `Threads` calls are in flight.
* `PurgeIsHarmless`: `Spec => []NoEarlyPurge`. The strengthening is `Retention`: what has been purged is
  older than `clock - MaxAge`, whatever the age of the time the purging thread worked with.
* `LimitHolds`: `Spec => []WindowBound`. `WindowBound` speaks of windows that end at a row; `HitsOK` of
  windows that end anywhere, since a row with an old time can be inserted under newer ones. The step: a
  thread that inserts at time `n` has counted everything younger than `n - W` (`KeptWindow`, from
  `Retention`), a superset of every window that ends at or after `n` (`CountedWindow`); windows that end
  before `n` do not get the row.
* `FailuresHold`: `Spec => []FailureBound`. The check and the record are apart, so the bound alone is not
  inductive. `LoadOK` adds to the failures of a window the calls that have passed the check and may still
  add a row to it (`Pending`). A row replaces its pending call (`LoadMoves`); a call that becomes pending
  has seen less than the limit, and no more than `Threads` are pending (`LoadStarts`); all else shrinks
  the load (`LoadShrinks`).
* `NobodyLocksAllOut`: `Spec => NoSharedLockout`, an action property. `Named` says that the counters of a
  name only have rows of calls that carried the name, and `OnlyMeaningful` that a call from behind the
  onion service never gets to a counter of an address.

**Accounts.** `TypeCorrect` as above. `LastAdminOnlyGoesOvertaken`: `Spec => LastAdminGoesOvertaken`, an
action property. `AdminInv` says of every decision in flight what it was taken on: a request that has seen
its target as an administrator counted another one (`Counts`). A commit that takes the last administrator
away therefore finds one of those it counted gone, or a target that has become one; no other step takes
anybody's role away (`AdminsKept`).

`EndedSessionsStayEnded`: `Spec => []EndedStayOut`. `RevokeInv` compares every session with the account it
was opened on, told by `uid` from a later one with the same id (`Same`). Its number is 0, that of a new
account, or some rotation has written it (`Dated`), and one that was ended opens its account with a
doubtful number at most (`Barred`). A rotation gives the row a number that is new in `written`, so that no
session has it, or a doubtful one (`Renumbered`). A session is also the one a login in flight is about to
hand out (`Held`), and the one a renewal expects after its commit (`Expected`).

**SiteText.** `TypeCorrect`, `HistoryIsTrue` (`Spec => []HistoryTellsUntorn`) and `SavesDoNotOverwrite`
(`Spec => OverwritesOnlyRaced`, an action property), for any number of requests at once. `HistInv` adds
that what a request holds (the rows of its session, the row found, the fingerprints its page showed for
the keys of its plan) is what the tables have, but for the keys it is raced on (`Fresh`): a commit that
changes a key adds it to `raced` of every request that had loaded it (`FreshKept`). The rest is what
`WrittenReads` says: on the row as it is, a change leaves a row that reads as its target.

**Updater.** `TypeCorrect`, `OneAtATime`, `OnlyVerifiedCode`, `UploadsStayReadable`, `RollbackIsExact`, of
one invariant `UpdaterInv`. A run past the lock holds it (`Exclusive`), hence nobody else is at work or
about to lock again (`Alone`): a step needs only the facts about its own run. They are that it would go
back to a signed version and only merges a verified one (`Trusted`), that neither is older than the
format of the uploads and a run that has converted them does not go back (`Readable`), and that up to
its migrations the schema is the one it remembers (`Restorable`), also across the re-execution of a
changed script.

**SecondFactor.** `TypeCorrect`, `SecondFactorNotBypassed`, `OldCodesAreVoid` and the refinement
`CodesWorkOnce`: `Spec => ImplementsOneTimeCodes`, initial state to initial state and every step to a
step of `OneTimeCodes`, to a stutter, or to the first overtaking (`RefinementStep`). The invariant has two
halves. `Base` holds whatever overlaps: rows hold only secrets and codes that were drawn, there is room
for those that requests in flight will draw, and a pending secret is of one browser. `Orderly` holds
until a request is overtaken: sessions are not newer than the account, and one of its own version had
its code (`Sessions`); no spent code would be accepted (`Spent`); and a pending secret has never been
checked against, or belongs to a browser that must sign in again (`Setups`). The proof corrected the
model: a request is overtaken when the secret it loaded was replaced as well as when the counter
differs, since the counter of another secret can have the same value. `MaxSecret` is 1 in the run, where
this cannot happen; the run passes with 2 too, in more time.

**Uploads, Backup.** `TypeCorrect`, `BytesAreKept`, `RowsFindTheirFiles`, `UploadsAreEncrypted`,
`QuarantineHolds`, `AccountsAreErased`, of one invariant `UploadsInv`. Per operation it says what its
worker can rely on between two steps (`UploadOK`, `LegacyOK`, `FlagOK`, `DeleteOK`): an upload is alone with
its file, one `encrypt-legacy` at a time is past the removal of a plaintext, a flagging beyond `Move` has
its file in the quarantine, a deletion's list has every path its owner's rows named unless they raced with
it. Per file: the forms that may be on disk given the row and the lists that name it (`FormsOK`), that a
quarantined file is neither there nor found (`QuarantineOK`), and that a file which nobody names or works
on is gone (`NoOrphan`). Most steps touch one file, and `Tame` is the frame argument: what a step of a
worker leaves true of every other one. `BackupsAreComplete` is a theorem of `BackupSpec`: the invariant
`BackupInv` follows a row of the snapshot from the disk to the list and to the copy. `BackupRunsSite`
(`BackupSpec => Spec`) carries the six theorems over to the site during a backup (`SiteDuringBackup`).

**Stream.** `TypeCorrect`, `EventsInOrder` (`Spec => []InOrder`) and `NoEventAfterRevocation`
(`Spec => NoLateEvent`, an action property). `StreamInv` adds that nobody waits twice in the backlog (`Queue`, from
which `Busy <= Threads` follows), that the holder of the lock is the one publisher, of the last event
(`Publisher`), that what a subscriber was given increases, and each event since it subscribed was given, dropped, or is
still to be put to its queue by the publisher of that event (`Delivered`), and that an open stream is not
late for longer than it went without a check (`Timely`).

**Posts, Discussion.** `Discussion_proofs` is about the composed specification, for any number of workers,
accounts, posts, comments and requests. `Base` holds whatever overlaps: the shape of every row and of
what a request in flight has read, finite tables whose ids have a bound (`NextId` is the greatest plus
one, so it is of no row), and one name of the badge, which a request that loaded the old one is going to
replace (`Renaming`). `TypeCorrect` follows, and over `Base`:

* `DeletionsCleanUp`: `Spec => []ReferencesResolve`, which is inductive with `Base`. A step removes posts,
  comments and accounts (`StillThere` says which stay) and rewrites notifications (`NoticesStay`: each is
  one there was, or a new one that is marked when what it names has gone meanwhile); whatever named a
  removed row is rewritten in the same commit.
* `ErasedForGood`: `Spec => []ErasedStaysErased`, with what an edit that loaded the comment knows of it.
* `EarnedOnce`: `Spec => []BadgeOnce`. `BadgeHeld` adds that who has earned the badge holds it under the
  name it has in the table, also while the start of another process renames it.
* `PublishedOnTime`: `Spec => []OnlyDuePublished`, and `NoTextLost`: `Spec => []RevisionsComplete`, of one
  invariant `PostsInv`. Its core is that every saving gives a post a text that nothing has yet
  (`Numbered`), so that a post which has the text an edit or the publishing hook has loaded was not saved
  since. While that is so, the request knows the date of the post and whether it is a draft (`Agrees`) and the
  version its revision gets (`Counts`); otherwise its commit is the first overtaking.

* `LikesAreCounted`: `Spec => []LikesCounted`. The likes themselves are right whoever overlaps (`LikesInv`:
  a like is of a target that exists and of somebody else's, and a request that takes one back has loaded
  one at most). Every operation but liking and the deletion of an account leaves the likes and the count of a
  target alone, or removes all its likes and closes it (`Tidy`); the deletion of an account removes its likes
  and counts what is left; liking adds or removes one row and one point of the count it loaded.

* `NothingToFarm`: `Spec => []NoFarming`, of the invariant `FarmInv`. Who is rewarded: a like went to the
  author its target has now, as long as that account exists (`Rewards`), and a request that takes the like
  back has loaded that author (`Revokes`), so points and notification are taken from the account that got
  them (`TakenFrom`). Points: no more than were granted and are owed for the likes there are (`Earned`).
  Notifications: an unread one of a like is attached to a post or comment that exists (`Attached`, which
  needs that a deleted post detaches them), so no later row with its id inherits them; of each target an
  account has no more of them than likes that went to it, but for those of erased accounts (`Told`). A like
  adds one to both sides; one taken back takes the latest notification, of which there is one (`SomeLatest`).
  That nobody likes twice or is rewarded for a like of their own (`LikersMine`) gives the bound by likers.

`BadgeHeld`, `Agrees`, `Counts`, `CountsRight` and the parts of `FarmInv` beside `Base` and `LikesInv` hold
until `overtaken`, as the properties do; the others always.

Model-checked only: the liveness properties `SlotReturned` and `Served`, which are out of the prover's
reach as `ENABLED` and induction over data are, and what the violation runs refute.

## Plan

Modules built in this order: the ones users are locked out or let in by (`RateLimit`, `Accounts`), the
ones that run unattended (`SiteText`, `Updater`), the second factor, files and their backup, the event
stream, posts and their discussion.

Proofs, in the same order, of every safety and action property that a passing run checks, and of the
refinement.

## Not modelled

* Static pages, banners, contact messages, donors: each operation writes one row, and nothing relates
  two of them.
* BBCode, the HTML sanitizers, the language choice, the anti-spam fields: algorithms on strings, or of
  libraries.
* Of modelled components: the username and the password as columns, the remember-me flag; the encryption
  of backups, their retention and their restoration; view counters; the rows of chat messages without a
  file, and the lockout of the mobile API, which is `RateLimit` with other keys.
* The end of `backup.sh run` and the schedules. Three things were read off the scripts: the `ls` of
  `backup.sh:112` fails as that of `update.sh:232` does, so that neither the off-site copy nor the removal
  of the staging directory is reached while all archives have one format; a failed encryption goes
  unnoticed when `tar` has written everything, because `-e` is off inside `out="$(...)"`; and enabling
  backups again when theirs is the only line of the crontab empties it, because `grep -v` returns 1
  (`auto-update.sh:65` has `|| true` there).
* Templates and styles, the archived Telegram bridge, migrations, deployment scripts and tools.
