# TLA+ models of phub-singles

phub-singles is a link-in-bio site: a Go server over one SQLite file
(`src/backend`), an administration command line that opens the same file, and an
Angular front end (`src/frontend`). The models here follow the code statement by
statement where it touches shared state, and leave out what only formats,
validates or draws. Paths below are relative to `src/`; `store/` and `httpx/`
stand for `backend/internal/store/` and `backend/internal/httpx/`.

One rule decides the grain of every server model. SQLite executes one write
transaction at a time and a single statement is a transaction of its own, so a
statement or an explicit `BeginTx ... Commit` is one action; everything a Go
function does between two of them can be interleaved with other requests, the
maintenance goroutine, the command line, a cancelled request or a crash.

## 1. Inventory

| Component (code) | State | Operations | What is hard | What makes it correct |
|---|---|---|---|---|
| Accounts, roles, ownership (`store/auth.go`, `httpx/users.go`, `httpx/auth.go`, `cmd/server/cli.go`) | `users` rows (role, name, verified), `profile.user_id` (who holds the page) | register, create, delete, set role, verify, reset password, set-owner, the start of a server | handlers check an actor and a target in one statement and write in a later one; the command line is another process on the same file | one owner, who holds the page; rank rules; no reference to a deleted account |
| Sessions and passwords (`store/auth.go`, `httpx/auth.go`) | `users.password_hash`, `sessions` | login, register, logout, change, reset, forced reset, expiry, purge | login, change and reset are several statements; cancellation and crashes between them | a new password ends the old sessions; nothing else ends a valid one |
| Links (`store/links.go`, `httpx/admin.go`) | `links` (owner, position, enabled) | create, update, delete with resequence, reorder | creation measures its position before it inserts | the list keeps its order unless someone reorders it |
| Rate limiter (`backend/internal/ratelimit`) | bucket per key: tokens, last use | `Allow`, `Cleanup` | the clock is read before the lock; forgotten buckets restart full | the token-bucket bound; no unjustified refusal; bounded memory |
| Counting (`store/stats.go`, `httpx/public.go`, `httpx/integrity.go`) | `view_events`, `metrics`, `links.clicks`, `daily_stats` | beacon, claim, count, purge | claim and count are two statements; clock readings are old when used | a visitor is counted once per window; fingerprints expire |
| Dashboard (`store.Stats`) | what has been read so far | three reads | no transaction around them | its chart covers its totals |
| Profile pictures (`httpx/uploads.go`, `store.SetAvatarURL`) | upload directory, `profiles.avatar_url` | upload, remove | directory and database share no transaction | no page names a missing file; files are accounted for |
| Link editor (`frontend/.../links.page.ts`) | the page's list, `busyId`, calls in flight | load, save, toggle, remove, move | optimistic updates, overlapping calls, lost answers | a quiet page shows the server's list |
| Database file and first start (`store/store.go`, `migrations/`, `store/auth.go`, `store/settings.go`, `cmd/server`) | recorded schema version, first account, page pointer, shipped links, `settings` secret | open, migrate, first account and its claims, forced reset, secret; the command line on the same file | a death between any two start-up steps, two processes at once, a command before the first start, old databases | an installation with accounts has an owner, who holds the page; what ships with the schema ends up with one account; one secret |
| Serving and shutdown (`main.go`) | main goroutine, listener, `serveErr`, grace timer | serve, signal, drain, cut off, close, kill, restart | connections are closed but handlers may still run when the database closes | requests are drained before the close; a signalled process ends |
| Profiles and handles (`store/profile.go`, `httpx/admin.go`) | `profiles` | update, rename, created and deleted with the account | a handle is freed and taken while a page is read | unique handles; a profile per account |
| Public page and badges (`httpx/public.go`, `store/badges.go`) | none, reads only | page, badges | up to six reads, no transaction | a page is of one account |
| Site settings (`store/site.go`, `httpx/settings.go`) | `settings` | read, update | none: one transaction against one query | |
| HTTP plumbing, configuration, embedded bundle | none | headers, compression, origin checks | | |
| Session cache of the panel (`core/auth.service.ts`, `auth.guard.ts`) | cached `/session` | ensure, refresh, login, logout | stale after a change elsewhere | the server decides |

How they interact. Every HTTP request passes the rate limiter (login and
beacons), `requireAuth` (Sessions gives the account) and a role gate (Accounts)
before its handler runs. Deleting an account cascades in the database to its
sessions, profile and links, and sets `profile.user_id` to NULL: this edge is an
action (`DeleteUser`) in Sessions, Links (with `DeleteProfile` in PublicPage) and
Avatars. `Maintain` is one
goroutine that purges sessions and fingerprints and sweeps the limiters every
ten minutes. The link editor talks to the link handlers only through the API.

`PROJECT.json` lists the hazards of this code at their lines, each with the
properties that cover it, or the reason why none does.

## 2. Modules

| Module | Models | Composes / refines |
|---|---|---|
| `Accounts` | accounts, roles, ownership | |
| `Sessions` | passwords and sessions | |
| `LinkOrder` | abstract: each account has an ordered list | |
| `Links` | rows with positions | refines `LinkOrder` (`KeepsOrder`) |
| `RateLimit` | one limiter | |
| `Counting` | claims and counters | |
| `Dashboard` | the reads of `Stats` | composes `Counting` and a reader |
| `PublicPage` | handles, and the reads of a page | composes `Links`, profiles and visitors |
| `Avatars` | upload directory and `avatar_url` | |
| `Shutdown` | the life of a serving process | composes `Avatars` (the requests) and the goroutines of `run` |
| `Bootstrap` | open, migrate, first start, secret, early commands | |
| `LinkEditor` | the page and, in short, the link handlers | its server half follows `LinkOrder` (`ServerKeepsOrder`) |
| `AccountsProofs`, `SessionsProofs`, `LinksProofs` (of `PublicPage` too), `RateLimitProofs`, `CountingProofs` (of `Dashboard` too), `AvatarsProofs` (of `Shutdown` too), `BootstrapProofs`, `LinkEditorProofs` | theorems | extend their module |
| `MC*` | instances for TLC | extend their module |

### Accounts
`job[p]` is one request or command: admitted (role gate passed), reading (target
resolved and ranks compared), writing (the store has read its row), idle.
`Begin` is `requireAuth` and the gate, `Resolve` is `resolveTarget` with
`mayManage`, `Read` the store's own look-up, and `CreateTx`, `DeleteTx`,
`SetRoleTx`, `SetVerifiedTx`, `SetPasswordTx`, `SetOwnerTx` the writes. A server
starts, too: `Start`, `CountUsers`, `InsertOwner`, `ClaimPage` and `ResetOwner` are
the statements of `EnsureAdmin` and of `claimProfile` that touch these rows, and
`Exit` ends it at any of them, with its requests if no other server runs. Requests
need a server that serves; commands do not. The models begin with an empty
migrated database.
Names are compared without case by the database, so a name is one value here.
`stale` (per job) and `raced` are history: an actor's or target's row has changed
since it was read, and a role change or deletion was written over such a change.
`mishaps` names what can go wrong with a first start until a `set-owner` puts it
right: the server ended between the INSERT of the owner and its claim of the page
(`torn`), an account appeared between the COUNT and the INSERT (`crossed`), or the
first account was not made by a start (`headless`).
They say exactly when the properties may fail, and no guard reads them.
The command line's own reads and writes are the same store functions; the
comment over `SetPassword` says it is reachable from the command line only,
while `handleResetPassword` calls it, so the model lets both.

### Sessions
A password is its epoch, the number of writes of `password_hash`; `pw` is the
stored one and a session row remembers the epoch it was opened with. Stages:
`authed` (password compared, INSERT to come), `admitted` and `found` (change or
reset before its UPDATE), `updated` (DELETE to come), `leaving` (logout).
`Cancel` is a client that goes away or a failing statement; `Restart` a crash
and restart, perhaps with `PHS_ADMIN_PASSWORD_RESET`. `excused` is history.

### Links and LinkOrder
`Measure` is the SELECT of `CreateLink`, `CreateLink` its INSERT; deletion (with
`Resequenced`) and reorder are transactions. `Before` is the `ORDER BY position,
id` of every read. `LinkOrder` knows only that each account has a totally ordered
set; adding puts a link anywhere, removing keeps the rest, and only `Reorder`
permutes. The mapping takes an account's links and the relation `Before` on them.
`crowded` and `overtaken` are history.

### PublicPage
`handle` is `profiles.username`; `UpdateProfile` is the UPDATE with its UNIQUE
conflict, and a deleted account takes its profile along. Any account may be
without a profile at the start: migration 0006 makes one for the page's owner
only, and a claim can be torn before it makes one. A visit reads the
profile (`ProfileByHandle`; for the landing page `FeaturedAccount`, the page
pointer, and then `FeaturedProfile`), then looks the
account up again *by the handle it has just read* (`UserByProfileHandle`), then
reads that account's links. Handles change hands between the reads: if the
first account renames and a second takes the handle, a page shows one account's
profile and the other's links, and if nobody takes it the page ends in a 404.
`left` is history and marks exactly those visits; `OneAccount` says that nothing
else can mix a page. Every operation of `Links` goes on meanwhile.

### RateLimit
Time is in ticks in which one token is refilled, so a call costs `Cost` tokens
and levels are whole numbers; the code's floats are exact at that grain up to
rounding, which is not modelled. `Arrive` reads the clock, `AllowFresh` and
`AllowTracked` run under the lock with that reading. `meter` is a history meter
that rises with each accepted call and falls by one per tick: it stays under a
bound exactly if every stretch of time obeys the token-bucket law. `Lag` bounds
the age of a reading. The assumption `Burst + 2 * Lag <= TTL` says that a bucket
idle long enough to be dropped has refilled; the three limiters of `httpx.New`
refill in 10, 10 and 160 seconds and are dropped after 900, 900 and 1800.

### Counting and Dashboard
A beacon that has passed the request filters has a fingerprint: visitor and
scope. `ClaimEvent` is the upsert with its WHERE, `RegisterView`/`RegisterClick`
the transaction that counts, `Fail` an error or cancellation in between. The
purge reads its clock (`BeginPurge`) and deletes later. `countedAt` and `lost`
are history: when a fingerprint was last counted, and whether its last claim
ended uncounted because the second statement did not succeed or found the link
hidden or gone. The claim commits before the count and is not given back, so such
a visit is lost for the window; `LossExplained` says that no other one is.
The dashboard's three reads happen in the order of the code. The chart has the
rows of `daily_stats` of its last `Days` days; totals and clicks are for all time.
`dawn` keeps the rows as running totals, so that the chart is a difference
(`ReadChart`), and `Midnight` is a tick of the clock to the next day. `Booked` puts
a count into the row of the day that its transaction read, which is the day before
when midnight overtakes it. `ChartCoversTotals` says that totals and links
exceed the chart by no more than was counted before the chart's first day.

### Avatars
An upload goes `temp` (temporary file written), `stored` (renamed to a fresh
name), `read` (`SetAvatarURL`'s SELECT), `set` (its UPDATE), and then removes the
file it replaced; removing a picture starts at `stored` without a file. `Fail`
includes the code's clean-up of its own file. `Crash` is the end of the process
with every request in it. File names are random in the code and taken to be
fresh here. `debris` collects files left behind by the accidents the code accepts.

### Shutdown
`main` is where the main goroutine of `run` is: in the `select`, in
`srv.Shutdown`, at `<-serveErr`, returning, or past the deferred `Close`. `Accept`
needs the listener; `Handle` is any step of a request of `Avatars`, whose
statements need an open database, while its file operations do not: after
`GraceOver` a handler may still rename or remove files and fail at its next
statement. `Down` is the end of the process, with `Avatars`' `Crash`; it is
reached by `Exit` or, at any time, by `Kill`. `ListenFails` is an error of
`ListenAndServe`; it returns without draining, which is the second exception of
`DrainedBeforeClosed`.

### Bootstrap
A process is at one of the stages that `Bootstrap`'s header lists, one statement or
transaction each. `Check` and `Apply` are `migrate`: the look for the record, and
the transaction with the body and the record, which fails and ends the process
when another one has applied it meanwhile. `CountUsers`, `InsertOwner` and
`ClaimPage`, `CopyProfile`, `AdoptLinks` are `EnsureAdmin` and `claimProfile`;
`ResetOwner` the forced reset; `ReadSecret`, `StoreSecret`, `RereadSecret` are
`EnsureSecret`. The command line goes through the same opening. `Old` are the
databases of releases at migrations 3 and 5. A migration's body is kept only
where it moves rows (4, 6 and 7). `origin` and `mishaps` are history, for the
exceptions the properties have to name:

* a command-line `create` before the first start makes the first account, the
  start then finds accounts and creates no owner (`OwnerUnlessCliFirst`);
* a death between the INSERT of the first account and the end of its claim
  (`torn`) leaves an owner without the page, the profile or the links, and no
  later start repairs it. The comment in `badges.go:72`, that no account owns the
  page only before the first start finishes, is true with these exceptions
  (`PageHeld`), and while it lasts the landing page answers with an error;
* two first starts that overlap a command can make two owners (`crossed`);
* other accounts of an upgraded installation have no profile (`ProfilesComplete`);
* after a `set-owner`, a forced reset renames the new owner to the configured
  name, which fails as long as another account has it: every start with the flag
  then fails (`Blocked`, the exception of `Serves`).

### LinkEditor
`rows` is the signal `links()`, `busy` is `busyId()`. A call has a request, the
answer and what a failed move restores; it is `sent`, `written` (the server has
changed its list and not yet read the row back), `answered` or `failed`. `Open`
is a new page: answers to the old one's calls are ignored, the calls themselves
go on. `Break` loses a call before or after its effect. The server half repeats
`Links` for one account in terms of the list it implements; that a creation
appends is sound here because the page has one creation in flight at a time, and
what else can overtake it is `Links`' subject. Titles, URLs and icons are left
out, and with them the field errors of a refused form (a `Break` before effect).
Filters of the page and the server's deletion keep the entries at a set of places
(`Kept`), which is what `filter` and `DELETE` do and can be reasoned about without
recursion. `drag` is `dragIndex()`: `Drop` moves the row that is at that place *now*,
and `DropNothing` is what happens when the list has become shorter than that
(`splice` finds no row, `applyOrder` shows one without a link and throws before it
sends anything). Such a row has the id `Undefined`; the user can toggle or remove
it, which the server refuses. `PageAgrees` is about the rows that show links. While
the page loads, `Loading`, there are no rows to act on; of a page that was left
only the calls matter that the server has not handled (`Left`).
`clashed` and `missed` are history: calls about one link or, one of
them, about the whole list have overlapped; the answer to a call that took effect,
or the list itself, was lost. They name the exceptions of `PageAgrees`.

## 3. Runs

| Run | Instance | Properties |
|---|---|---|
| `accounts` | 1 server, 1 worker, 1 command line (`create`, `set-owner`), 3 names, 3 ids | `TypeOK` `Integrity` `OwnerHoldsPage` `OwnerUnlessRaced` `RankRespected` `OwnershipOnlyByTransfer` |
| `sessions` | 2 processes, 2 accounts, 2 tokens, 3 passwords each, time to 2, TTL 1 | `TypeOK` `OldSessionsEnd` `OnlyRevokedEnds` |
| `links` | 2 processes, 2 accounts, 3 links, 3 handles, 1 visitor | `TypeOK` `MeasuredIsEnd` `PositionsDistinct` `PageTypeOK` `OneAccount` `KeepsOrder` |
| `ratelimit` | 2 processes, 1 key, cost 2, burst 4, TTL 6, lag 1, time to 16 | `TypeOK` `RateHeld` `RefusedOnlyWhenSpent` `IdleKeysLeave` |
| `counting` | 2 beacons, 1 visitor, 1 link, windows 3 and 2, lag 1, time to 3, 2 days, 1 dashboard of 1 day | `TypeOK` `LossExplained` `ChartCoversTotals` `CountedApart` `ExpiredEventsLeave` |
| `avatars` | 2 requests, 1 account, 3 file names, 1 process with its restarts | `TypeOK` `PicturesExist` `NothingForgotten` `DrainedBeforeClosed` `Stops` |
| `bootstrap` | 2 servers, 1 command line, 2 names, 2 account ids, databases new or at migration 3 or 5, 1 death | `TypeOK` `OwnerUnlessCliFirst` `OwnersPage` `PageHeld` `SeedAdopted` `ProfilesComplete` `OneSecret` `Serves` |
| `link_editor` | 2 calls in flight, 1 link, a second one created, drags from the second place, drafts enabled | `TypeOK` `PageAgrees` `ServerKeepsOrder` |

Four runs show where a comment of the code promises more than the code does
(each is a finding of `PROJECT.json`, and the weaker property that does hold is
checked and proved):

| Run | Comment | What happens | What holds |
|---|---|---|---|
| `exactly_one_owner` | `store/auth.go:16` | a role change or deletion that read its target before a `set-owner` and writes after it leaves no owner | `OwnerUnlessRaced`, `NeverTwoOwners` (both but for an overtaken or headless first start) |
| `password_change_revokes` | `store/auth.go:181` | a login that compared the old password before the change inserts its session after it | `OldSessionsEnd` |
| `appended_last` | `store/links.go:102` | a creation that is overtaken by two others lands before the second of them | `MeasuredIsEnd`, `PositionsDistinct` |
| `rollback_to_server` | `links.page.ts:226` | a move that overlaps a deletion fails and puts the deleted link back on the page | `PageAgrees` |

Why the bounds are enough. The conflicts are between two operations, one of
which has read what the other changes, so two processes meet them all; with
three names or links the third is the bystander that must not be touched (the
previous owner, a link between two others). Ids, tokens and file names are never
reused by the code, so a bound on them only shortens behaviours: three accounts
let an owner, an administrator and a member exist, and one be deleted and
re-created under its old name by giving up a bystander. `MaxTime = 16` lets a
bucket drain, refill, be dropped and drain again. In `counting` a click's window
(2) ends within `MaxTime = 3`, so that clicks are counted again, purged and
renewed; a view's (3) does not, and both are proved for all windows
(`OncePerWindow`, `LossesExplained`). A chart of one day is cut on the
second, and midnight comes at any tick. In `link_editor` two calls of which one is
late show every overlap of two operations, on lists of no, one and two links. A
drag from the second place is the one whose row a deletion can take away there;
drafts are enabled because a save that disables is what a toggle sends, too.
Any number of calls, links, drafts and drags is `PageFollows`. One visitor is enough because fingerprints
of different visitors meet in the counters only. One account is enough for
`avatars` because requests of different accounts share no row and no file name.
Three handles are two that are held and one to move to. Two servers and one
command are one more process than any of `Bootstrap`'s accidents needs; one death
puts every stage's interruption into some behaviour, and repeated deaths are
covered by the proofs, which hold for any number of them. In `MCAccounts` one account may
be verified at a time and the command line uses two of its commands; the others
are the same store functions that the worker calls. One server that ends and
starts again tears its own first start, and the command line overtakes its COUNT;
two that overlap are in `bootstrap`, and any number in the proofs. What does not depend on the
bounds is proved (section 5). Deadlock is not checked because every model stops
when its ids or its clock are used up, and because the system itself may be idle.

Every property has a mutant: a change of one definition that a plausible bug
would make (a dropped ownership check, a purge off by one, a measured count
instead of a maximum), under which TLC finds the property violated. The mutants'
definitions stand before the ones they replace and are marked as such.

## 4. Fairness

Five specifications state fairness, each for what the program or its supervisor
does by itself.

* `FairSpec` of `RateLimit` (`WF` of `BeginCleanup` and `Cleanup`), `FairSpec` of
  `Counting` and `FairDashSpec` (`WF` of `BeginPurge` and `PurgeExpiredEvents`):
  `Maintain` runs on a ticker for the life of the server and calls each of them
  every ten minutes, and nothing disables them.
* `LifeSpec` of `Shutdown` (`WF` of `Proceed`): the main and the serving goroutine
  run when they can, `Shutdown` polls until the connections are idle, and the
  grace is a timer. Requests owe nothing: `Stops` holds whatever they do.
* `FairSpec` of `Bootstrap` (`WF` of each server's `ServerStep` and `Start`): a
  started process runs, and `docker-compose.yml` says `restart: unless-stopped`.
  The command line owes nothing.

No fairness is assumed for clients, requests, operators or the passing of time:
none of them has to happen.

## 5. Proofs

The theorems hold for every value of the constants that satisfies the named
assumptions in the modules: any number of processes, accounts, links, files,
any bounds. Each module proves `Init => IInv`, `IInv /\ [Next]_vars => IInv'` with one
lemma per action, and concludes by temporal reasoning; `Invariance` is that
theorem (in `LinkEditorProofs` it is part of `PageFollows`), the others follow from it.

* `AccountsProofs`. `TypeCorrect` includes what each process has read. What the
  properties say is not inductive: a job's decision
  rests on what it read. `JobOK` adds what a job that is not stale may rely on at
  each stage (its actor's role is still the one the gate saw, its target is still
  outranked, the row it is about to delete or demote is not the owner's), and
  `ClaimOK` what a start that has inserted its owner relies on. From
  them: `RowsAgree`, `PageFollowsOwner`, `NeverTwoOwners`, `OwnerKept`,
  `RankIsRespected`, `OwnershipTransfer`.
* `SessionsProofs`. `OldSessionsEnd` with the stage of the operation that will
  still delete is nearly inductive; `JobsOK` adds what jobs refer to.
  `AcceptedSessionsStay` is the action property: the purge and the validity test
  meet at one instant.
* `LinksProofs`. The strengthening is that measuring is done by an existing
  account and is behind every link until overtaken; resequencing is shown to be
  strictly monotone by counting predecessors (`Cardinality`), an accepted reorder
  to be a bijection by the pigeonhole fact on finite sets. `ImplementsOrder`
  proves the refinement of `LinkOrder` step by step.
* `RateLimitProofs`. `Balanced` bounds, for each key, the level the bucket would
  have now from below and above by what the meter leaves; a dropped bucket has
  meter 0, which is where `Burst + 2 * Lag <= TTL` is needed.
* `CountingProofs`. `Holds` (a claimed beacon owns the row it wrote, alone),
  `Apart` (it is a window from the last count) and `Spaced` (so is what the row
  still blocks) give `OncePerWindow`; the same invariant gives `LossesExplained`,
  since a row is never longer than a window from the count of its own claim.
* `AvatarsProofs`. `Unpublished` (a fresh file is there, named by no profile and
  by no other request), `Replaced` (only a request that has just read it may
  hold a file a profile still names) and `Temporary` give `PicturesThere` and
  `DirectoryAccountedFor`.
  `LifeImplementsAvatars` shows that the process of `Shutdown`, seen without its
  goroutines, takes only steps of `Avatars`, so both hold through every shutdown,
  kill and restart; `ClosedWhenDrained` is about the goroutines.
* `BootstrapProofs`. `InOrder` (what a stage presupposes), `Older` (what rows of an
  older version lack), `Origins` (how accounts came to be and which handles they
  can have), `Claims` (a claimant works for the first account and has done the
  stages before its own), `Adopted` (who the shipped links went to) and `Secrets`
  are one inductive invariant with the properties themselves.
* `PublicPage`, in `LinksProofs`. `PageImplementsLinks` makes every theorem of `Links` hold beside
  the page. `Apart` (handles of living accounts differ) and `Reads` (a visit's
  account holds the handle that was read until it leaves it) give `PagesOfOneAccount`;
  `ProfilesHaveAccounts` needs no account to have a profile.
* `Dashboard`, in `CountingProofs`. `DashImplementsCounting` makes the theorems of
  `Counting` hold beside a dashboard. `ChartIsCovering` needs that what a read has
  put on the board is never more than what the counters hold since, that the running
  totals of past days only grow (`BookedGrows`; a count that midnight overtakes still
  adds to its day) and that
  the clicks of the links, hidden ones included, never add up to more than the
  chart (a deleted link takes its own along). The sum is the number of the clicks, taken one by one
  (`Clicks`), so that counting one more adds one element to a finite set and no
  induction over the links is needed.
* `LinkEditorProofs`. That a quiet page shows the server's list says nothing while
  calls are under way, so the invariant (`EditIInv`, itself checked by TLC before it was
  proved) says how the two lists may differ then. As long as nothing clashed
  and no answer was missed, the calls under way are the open page's and about different
  things (`Separate`), and either a call about the whole list is alone and
  carries the list that will be shown (`Whole`), or the page's list is the
  server's without the link that was created last and is not yet answered
  (`New`), with the links that were deleted and are not yet answered (`Gone`) and
  perhaps rows of no link, in the same order, and with the server's fields in every row but those of unanswered
  changes (`Patched`). Each step moves one link into or out of one of these sets;
  when no call is left they are empty, and two lists with the same links in the same
  order are equal (`SameOrder`), which gives `PageFollows`. What a filter leaves is
  shown by counting places (`Places`, `Filtered`). `ServerFollowsOrder` maps each
  step of the server half to a step of `LinkOrder`, the specification that
  `ImplementsOrder` proves of the table, so the short server of this module does
  not invent behaviour.

Only model-checked: liveness (`IdleKeysLeave`, `ExpiredEventsLeave`, `Serves`,
`Stops`), since the prover has no reasoning about fairness and ENABLED here; and
what the four violation runs show. Every invariant and every safety property of an
action that a passing run checks is a theorem.

## 6. Not modelled, and why

* Validation, formatting, HMAC, bcrypt, cookies, headers, compression, static
  files, logging, configuration: functions of one request without shared state.
* Rounding of the limiter's floats; the wall clock running backwards.
* SQLITE_BUSY: a statement that gives up after `busy_timeout` is a failed one,
  which `Abort`, `Cancel`, `Fail` and `Break` cover.
* Of the public page: maintenance mode, the badges (each a read of its own that
  changes what is drawn beside the name, not whose links are shown) and which
  account the page pointer features (`FeaturedAccount` lets it be any).
* Of the shutdown: requests that reach the server on kept-alive connections while
  it drains. They are requests like the others, and `Shutdown` waits for them, too.
* An UPDATE of `avatar_url` that is committed although the database reports an
  error: `Fail` takes a failed statement to have had no effect; otherwise `os.Remove(dest)`
  in `uploads.go:106` could remove a picture that a profile names.
* The site settings: `UpdateSiteSettings` writes its rows in one transaction that
  the owner alone starts and every reader takes them in one query.
* What the editor shows when answers about one link, or about the whole list, cross
  (`clashed`), or when an answer is lost (`missed`): the page may then differ from
  the server until it is opened again, and `PageAgrees` says nothing of it. What it
  makes the server do is in `ServerKeepsOrder`.
* Of the start: connection pragmas, a missing `PHS_ADMIN_PASSWORD` (the start
  ends before it writes), seeding of the shipped link texts.
* The panel's session cache. The server re-checks every call, so what it could
  show is a stale display; beside `Sessions` it multiplies a state space that
  already fills the time of a run.
* Whether a change of password overwrites a reset made since its check: it does,
  both end the sessions (`OldSessionsEnd`), and no text of the project says which
  of the two should win.

## 7. State of the plan

Done, in the order of importance: accounts, sessions, links, limiter, counting,
pictures, dashboard, link editor, first start and migrations, shutdown, handles
and the public page. What would come next:

1. `LinkEditor` with a second page and a second field, for the stale payloads of
   toggle and save (`links.page.ts:134`).
2. The page pointer, maintenance and the badges in `PublicPage`, which then meets
   `Accounts` too.
3. The panel's session cache and guards beside a reduced `Sessions`.
