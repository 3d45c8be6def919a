# Formal verification of ooblivion

This directory keeps a TLA+ model of ooblivion, the configurations that model-check it
with TLC, and theorems about it that TLAPS proves. Ooblivion captures every HTTP
request that reaches its listener, stores it in SQLite, lets *scopes* save some of
them, sends Telegram alerts for those that match *notification rules*, flushes the
unsaved ones after a retention window, and gives one operator a console for all that.
`PROJECT.json` is the index: components, runs, mutants, the source lines behind every
definition, findings, hazards and theorems.

## The system

| Part | Source | State | Operations |
| --- | --- | --- | --- |
| database | `internal/db` | the SQLite tables; foreign keys on, no transactions | statements, migrations |
| capture store | `internal/capture/capture.go` | row in `requests`, `stats` counter | `Store` |
| classifier, matcher | `internal/capture/classify.go`, `internal/matcher` | `saved`, `scope_id`, `notified` | `applyScope`, `applyNotifications` |
| Telegram sender | `internal/telegram` | channel of 256 jobs, one worker, `notification_log` | `Enqueue`, `run`, `post`, `logEvent` |
| scheduler | `internal/scheduler` | `flushLock`, `lastFlushAt`, `settings`, `audit_log` | `Flush`, `RunOnce`, prunes |
| console | `internal/admin` | all tables | request, scope, rule, settings handlers; audit |
| sessions | `internal/admin/handlers_auth.go`, `internal/admin/admin.go`, `internal/auth` | `auth`, `jwt_denylist`, `token_version`, cookies | login, logout, password change, check, prune |
| login rate limiter | `internal/auth/auth.go` | a map from addresses to times, not locked | `Allow` |
| process | `cmd/ooblivion`, `internal/config` | up or down; the environment | migrations, first password, routing, shutdown, restart |
| browser | `internal/web/static/app.js` | one tab: page, polls, selection, dialog | live list, bulk delete, pagination |

**How the parts interact.** `main` builds one database handle and gives it to everyone.
Each captured request runs in its own goroutine: `Store`, then `Classify`, then the
empty 200. `Classify` calls `Sender.Enqueue`; the worker goroutine posts and writes a
log row when a post fails. The scheduler goroutine runs `RunOnce` every six hours (and
`main` runs it once before the listener starts); an operator's flush calls the same
`Flush`. Each console operation runs in a handler goroutine. They share the tables (and
nothing serialises the statements of two handlers), the job channel and `flushLock`.

**What is hard.** No handler opens a transaction, so every pair of statements can be
separated by any other goroutine's. Foreign keys then turn a lost race into a refused
statement, and what the caller does with that error matters. The lock of `Flush` is only
tried, and has seven ways out. The queue is bounded, in memory, and its consumer may hang
in a post. Any statement may fail, the process may die between any two, and several errors
are dropped on purpose. `PROJECT.json` lists these places line by line under `hazards`.

**What makes each part correct.**
* *database*: references name rows; statements that fail change nothing.
* *capture, classifier*: what a scope holds is saved; each request is counted once;
  every client is answered, whatever Telegram does.
* *sender*: bounded queue; no alert of a request twice; out of order only a message whose post
  was given up; every alert it takes on leaves it.
* *scheduler*: one flush at a time and the lock always comes back; automatic flushes keep
  the retention window; saved rows survive; overdue rows go.
* *console*: saved rows leave only through the operator; every operation is answered.
* *start*: nothing is served over a half-made schema, an interrupted start does not bar the
  next, no start replaces a password.
* *sessions*: a session that was ended is over although the denylist is pruned; a password
  change ends the earlier ones; the limiter lets through as many as it says.
* *intake*: who reaches the console, that a `/healthz` hit without the secret is captured, and
  what is kept of a body.
* *browser*: a bulk delete takes the requests the operator selected and no other; a rendered page
  shows the rows and tags there are; a live list catches up as far as its key can tell.

## The modules

| Module | Models | Extends |
| --- | --- | --- |
| `Database` | tables, statements, foreign keys, failing statements, the clock | |
| `Telegram` | queue, worker, failed posts, failure log | `Database` |
| `Capture` | `Store` and `Classify`, one process per request | `Telegram` |
| `Scheduler` | `Flush` and the rest of `RunOnce` | `Database` |
| `Admin` | the console's operations, one process per handler goroutine | `Scheduler` |
| `Ooblivion` | the program: all processes, start, crash, restart; the properties | `Capture`, `Admin` |
| `RequestLife` | abstract: what the README promises about one captured request | |
| `Startup` | migrations statement by statement, first password | |
| `RateLimiter` | `Allow`, in two steps over an unlocked map | |
| `Session` | login, logout, password change, the check before every handler, denylist | `Startup`, `RateLimiter` |
| `Console` | all three in a process that may die; the properties | `Session` |
| `Paging` | page arithmetic of Go and of `app.js`, with the width of `int` | |
| `LiveList` | the request list in one tab, polls, selection, bulk delete | `Paging` |
| `Intake` | routing of a request, the environment behind it, the cap on the body | |
| `MCOoblivion`, `MCConsole`, `MCLiveList` | values and symmetry for TLC | `Ooblivion`, `Console`, `LiveList` |
| `OoblivionTypes`, `OoblivionSafety`, `OoblivionFlush`, `CaptureProofs` | theorems and proofs, the refinement of `RequestLife` in `OoblivionSafety` | `Ooblivion` |
| `ConsoleProofs`, `ConsoleLimits` | theorems and proofs | `Console` |
| `IntakeProofs`, `LiveListProofs` | theorems and proofs | `Intake`, `LiveList` |

Three compositions share a database: `Ooblivion` is about requests, `Console` about the start
and the sessions, `LiveList` about one tab. What one of them needs of another it keeps as a step
without a cause: in `LiveList` requests come, go and are saved or un-saved at any time; in
`Ooblivion` an operator is simply there, logged in. Such a step allows more than the other
composition would do, so a safety property carries over to the whole. That holds only for what
is in the module: `LiveList` has the filter by `saved` and none of the others, and one tab.

### Requests: `Database`, `Telegram`, `Capture`, `Scheduler`, `Admin`, `Ooblivion`

**State.** A table is a function from ids to rows. A row is `fresh` (its id not handed
out), `row`, or `gone`; AUTOINCREMENT never reuses an id, so `gone` is final. `scope = 0`
is NULL. A pattern is the set of requests it matches (`matcher.Matches` is a function of the
request and the pattern, without state), times are days, and a request is known by its
name. `audit` is a set of (action, actor, day): how often an action is logged is not told apart.
`created_at < boundary` becomes a comparison of days; the code's one-second grain only makes
the same comparison finer.

**Steps.** One SQL statement is one step, together with the Go code before and after it
that touches only local variables. `Goto`, `FlushTo` and `AdmTo` move the program counters
`pc[r]` (capture handlers), `fl[p]` (whoever is in `Flush`, the scheduler included) and
`adm[h]` (console handlers). Each statement can also fail: `Fault` for the database, `Refused`
for a foreign key; `Fails` is either. The failing branch of each action is the `if err != nil` of the code.
Where the code ignores the error, the handler just goes on.

**Start and crash.** `Boot` is `main` up to `RunOnce`, which `main` runs before the listener
(`Listen`). `Crash` empties memory and keeps the tables. It stands for SIGKILL, power loss and a
SIGTERM whose ten seconds of `Shutdown` ran out; a clean shutdown is a crash with no handler
in flight. The post under way is given up, like one that timed out. The clock
only advances: a wall clock set back is not modelled.

**External.** `chat` is what Telegram accepted, in order. The worker waits at most ten seconds for an
answer, and giving up does not take the message back: a post that fails may have been refused
for good, or stays in `late`, from where `AcceptLate` delivers it at any later time (after the next
alerts, after a restart) or never. At most `MaxLate` messages are late at once. AUTOINCREMENT, constraint
refusals and failing statements are SQLite's, as the code relies on them.

### Start and sessions: `Startup`, `RateLimiter`, `Session`, `Console`

`stage` is the file and the statement `migrate` is at; `made` is what statements have made,
`applied` what `schema_migrations` says. A database starts as any release has left it. The ALTER
of `002` fails when the column is there, and `migrate` counts that as success.

`hs[c]` is what one goroutine is doing; each SQL statement of the handlers is a step. Tokens
are numbered as they are signed; `issued` holds the version, the expiry and, as history, the
password they were opened with. Passwords are numbered in turn, so a new one always differs from
all before. `ended`, `changed`, `overlap`, `blind`, `late`, `admitted` and
`raced` are history: no guard of a handler reads them, but for `raced`, which stands for
Go's undefined outcome: once two calls of `Allow` have overlapped, what a call finds
is any number of attempts until the process restarts. Audit rows of failed
attempts are left out. The clock is in the units of `Window` and `TTL`. What `Allow` keeps for an
address is a slice of times of which it only asks how many are recent: here a set of attempts, each
the `nr`-th of its second, so that two at the same time count twice.

### The browser: `Paging`, `LiveList`

`load` is `handleRequestsPage` and `poll` is `handleListRequests`, two statements each (COUNT,
SELECT). `lastKey` is the key by which `render` skips an answer. A new document comes at
once after a link, the filter form or `location.reload`, without the old one's last moments; while a
dialog is open or a post is under way nothing navigates. There is one tab, and check boxes change
only while the page is there. A negative OFFSET counts as 0 in SQLite.

The address holds a page number and the `saved` filter (`url`); `View` is what the filter lets through
(`"0"`, `"1"`; any other value filters nothing). A row is drawn with its saved tag (`tags`).
`Mark` saves or un-saves a row behind the tab's back, as another tab does or `applyScope` right after
the INSERT. So the same key does not mean the same rows: a row on the page may change its tag, or
leave a filtered list as another enters, with the number of rows and the first id unchanged. Such a
list stays as it is until something else changes the key, and `LiveCatchesUp` does not promise more.
`torn` is history: the table changed between two statements of a query (of a page also before
it is shown), or, in `dom`, a row was marked after it was read. `meant` is history, too: those of the requests
in the dialog that are still in the table. They are what the operator agreed to delete; the post
names them by id, so it matters that AUTOINCREMENT never gives an id to another request.
A page is the set of its requests: they are shown newest first, so an id's place is the number of
larger ids (`Newer`), and LIMIT and OFFSET choose a range of places.

### Intake: `Intake`

One behaviour is one request under one environment. A host is a name with or without a port;
`parseHosts` skips entries that are empty or only a port. `readBody` asks for one byte more than the
cap; `Wrap` is int64. A body that breaks off is stored as empty, a panic is net/http's to recover.

### Mutants

Some modules hold definitions marked *Mutant*: a version of the next definition
with a plausible bug (a dropped guard, a leaked lock, a retry, an ignored error). No
specification uses them. For each property of each run, putting the mutant in the place of the
definition makes TLC find that property violated; `PROJECT.json` lists the pairs.

## What the runs check

| Run | Instance (requests, handlers, scopes, rules, days, faults, crashes) | Properties |
| --- | --- | --- |
| `Operators` | 2, 2, 1, 0, 1, 0, 0; save, unsave, delete, bulk delete, flush, 2 operations | `ScopedAreSaved`, `FlushesAlone`, `TotalCountsCaptures`, `SavedLeavesOnlyByOperator`, `ImplementsRequestLife` |
| `Faults` | 1, 1, 1, 1, 1, 1, 1; every operation, 1 of them | `ScopedAreSaved`, `NoDanglingReferences`, `FlushesAlone`, `TotalCountsCaptures`, `ImplementsRequestLife` |
| `Progress` | 1, 1, 0, 2, 1, 1, 1; delete, delete rule, 1 operation; queue of one, 2 late messages; the worker may hang | `TypeOK`, `NoDanglingReferences`, `AlertsInOrder`, `EveryCaptureAnswered`, `EveryAlertSettles` |
| `Overdue` | 1, 1, 0, 0, 3, 1, 1; flush and settings, 1 operation | `AutoFlushKeepsWindow`, `LastFlushNeverGoesBack`, `OverdueAreFlushed`, `EveryOperatorAnswered` |

| Run | Instance | Properties |
| --- | --- | --- |
| `Console` | 2 clients, 1 address, 1 attempt per window of 2, clock to 2, 3 passwords, 2 tokens that live 1, 1 fault | `ConsoleTypeOK`, `EndedSessionsStayEnded`, `ChangeRevokesEarlierSessions`, `AttemptsAreLimited`, `RefusalsAreEarned` |
| `Restart` | 1 client, a database of every release with 0 or 1 row, 1 fault, 2 crashes | `ServesMigrated`, `StartsAgain`, `BootKeepsPassword`, `DenylistShrinks` |
| `Browser` | pages of 2, 3 requests; pages 1 and 2 of all requests, page 5 of the unsaved ones, ints to 7 (so that page 5 wraps); 1 request that is selected | `ListTypeOK`, `CountsTheSelection`, `DeletesWhatWasMeant`, `PageShowsItsRows`, `LiveCatchesUp` |
| `Intake` | 3 names with and without port, up to 2 entries of `ADMIN_HOST`, 4 paths, bodies of 0, 3, 4, caps 0, 3, 7 (the largest) and -1, -4, -8 | `ConsoleNeedsAdminHost`, `HealthHitsAreRecorded`, `BodiesAreCapped` |

All of them hold. Deadlock is checked in every run but `Intake`, where a behaviour is over
with the answer to its request: elsewhere a ticker, a toggle or a restart is always possible.

**Bounds and why they are enough.** The races are between two, at most three, goroutines
on one row or one pair of rows. One request with two handlers, the scheduler, the sender and
its own capture handler gives all of them; a second request (`Operators`) shows bulk deletes
and flushes that take one row and spare another. Three days give the retentions of one
(the default) and two with a request on each side of the boundary. Two rules with a queue of
one reach a full queue with a post in flight; `QueueCap` is 256 in the code and nothing
depends on its size. Two late messages (`Progress`) are both alerts of the request, in either order;
`Faults` has one, and the other runs none: what they check does not speak of `chat` or `late`, and
no step but `AcceptLate` depends on `late`. `LogKeep = 1` makes the prune take rows (5000 in the code).
`MaxOps`, `MaxFaults`, `MaxCrashes` and `MaxDay` stop counters that would grow for ever. The
theorems have none of these bounds' sizes in them.
Two clients give every overlap of a login, a logout and a password change; one
attempt per window makes the second login a refusal, and a clock of two lets a token expire and an
attempt leave the window. Two crashes interrupt a start and the one after it. Three
requests on pages of two give a last page that is partly filled and can vanish. Three
requests also let one row take the place of another in a filtered list, which leaves the key alone. The
pages a tab asks for (`Asked`) are the last one and, among the unsaved requests, one past the last
whose offset wraps around, so that the server replaces it and a poll gets the first rows. `Picked` holds the one id
that is selected; it can vanish, and a request can arrive, before the confirmation. How often rows are
saved and un-saved and how often polls and posts fail has no bound.
`Interchangeable` is a symmetry of requests and handlers, or of clients: no definition tells
two of them apart (only safety runs use it).

**Fairness.** `FairSpec` asks weak fairness of each started capture handler, each started
console handler, the scheduler's steps and ticker, and the restart. The Go scheduler is fair, a
statement ends within `busy_timeout` (5 s), the ticker fires every six hours and
`docker-compose.yml` says `restart: unless-stopped`. Requests, operators, days, faults and
crashes are never obliged to come. `FairSpec` asks nothing of the Telegram worker:
clients, operators and retention do not depend on it. `EveryAlertSettles` takes its fairness as
a hypothesis (`SenderFairness`: its HTTP client gives up after 10 s).
`Console!FairSpec` asks that the program is started again, that a start goes on, and that the
ticker prunes; it obliges no client and not the clock. `LiveList!Spec` asks that what the tab
requested is answered and that the interval timer fires while the list is live. `LiveCatchesUp` speaks of
a list that stays live and open, and takes as hypotheses that rows are no longer saved and un-saved
and that polls no longer fail from some time on: while they do, nothing can catch up.

### Where the code and its documentation part

Four runs check a sentence of the documentation and find it violated;
`findings` in `PROJECT.json` quotes both sides.

* `FlushedMatch`: a request that matches a scope is flushed between its INSERT and the
  UPDATE that saves it ("auto-saved and never flushed").
* `SkippedRules`: deleting a scope while a request is classified makes the classifier skip the
  notification rules ("evaluated against scope rules and notification rules").
* `RefusedDelete`: a request with a failed alert cannot be deleted by the operator, alone
  or in bulk, because `notification_log` refers to it ("removed only by explicit user action").
* `StaleSession`: a login with the old password that a password change overtakes reads the new
  `token_version`, and its session outlives the change ("revoke all outstanding tokens").
  `ChangeRevokesEarlierSessions`, in `Console`, says that overlaps and unreadable versions are
  the only way to that.

Two more divergences were met and need no run. The README gives the console the paths that start with
`/admin/`; the code compares with `/admin` (`main.go:147`), so `/administrator` on an admin
host is answered by the console's mux and not captured (`Intake!AdminPaths` is the code's prefix).
`handleListRequests` does not replace a page past the last one as `handleRequestsPage` does, so
the live poll empties such a page under "No requests captured yet."; `LiveCatchesUp` therefore
speaks of the page in the address, `PageShowsItsRows` of the one that exists.

Two things the code does are left as they are because no document contradicts them plainly: a
manual flush that meets an automatic one is answered ok and deletes nothing, and an automatic
flush that cannot read `retention_days` uses the default.

**What the properties leave out.** Some speak only of runs in which the code keeps its promise,
and say nothing of the others. `AutoFlushKeepsWindow` speaks of flushes before any
statement has failed; `ChangeRevokesEarlierSessions` not of runs where a change overlapped or the
version could not be read; `EndedSessionsStayEnded` not of a logout whose INSERT failed, nor of a
token that expires while it is being checked; `AttemptsAreLimited` and `RefusalsAreEarned` not of an
address whose calls of `Allow` have overlapped; `PageShowsItsRows` not of a page whose queries another
statement came between. An alert that a restart took out of the queue counts as settled in `EveryAlertSettles`:
nothing delivers it. These are listed under `hazards` as what they are, without a
property or with a note.

## What is proved

TLAPS proves these for every value of the constants that the named assumptions
allow (finite sets, natural bounds; a queue of at least one; the scheduler is no handler).

| Theorem | Statement |
| --- | --- |
| `OoblivionTypes!TypeCorrect` | `Spec => []TypeOK` |
| `OoblivionSafety!ScopedSaved` | `Spec => []ScopedAreSaved` |
| `OoblivionSafety!ReferencesHold` | `Spec => []NoDanglingReferences` |
| `OoblivionSafety!SavedIsKept` | `Spec => SavedLeavesOnlyByOperator` |
| `OoblivionSafety!Refinement` | `Spec => ImplementsRequestLife` |
| `OoblivionFlush!FlushExclusion` | `Spec => []FlushesAlone` |
| `OoblivionFlush!LastFlushAdvances` | `Spec => LastFlushNeverGoesBack` |
| `OoblivionFlush!WindowIsKept` | `Spec => AutoFlushKeepsWindow` |
| `CaptureProofs!AlertOrder` | `Spec => []AlertsInOrder` |
| `CaptureProofs!TotalIsExact` | `Spec => []TotalCountsCaptures` |
| `ConsoleProofs!EndedStayEnded` | `Spec => []EndedSessionsStayEnded` |
| `ConsoleProofs!ChangeRevokes` | `Spec => []ChangeRevokesEarlierSessions` |
| `ConsoleProofs!ServingIsMigrated` | `Spec => []ServesMigrated` |
| `ConsoleProofs!BootKeeps` | `Spec => BootKeepsPassword` |
| `ConsoleLimits!LoginsAreLimited` | `Spec => []AttemptsAreLimited` |
| `ConsoleLimits!RefusalsEarned` | `Spec => RefusalsAreEarned` |
| `ConsoleLimits!ConsoleTypes` | `Spec => []ConsoleTypeOK` |
| `IntakeProofs!ConsoleIsGated` | `Spec => []ConsoleNeedsAdminHost` |
| `IntakeProofs!HealthHitsRecorded` | `Spec => []HealthHitsAreRecorded` |
| `IntakeProofs!BodiesCapped` | `Spec => []BodiesAreCapped` |
| `LiveListProofs!ListTypes` | `Spec => []ListTypeOK` |
| `LiveListProofs!SelectionCounted` | `Spec => []CountsTheSelection` |
| `LiveListProofs!MeantAreDeleted` | `Spec => DeletesWhatWasMeant` |
| `LiveListProofs!PageIsTrue` | `Spec => PageShowsItsRows` |
| `LiveListProofs!NumbersAroundPage` | the page numbers offered exist, hold the page shown, and are five if there are five |
| `LiveListProofs!ShownPageHasRows` | the page shown has rows, if there are any and they fit the width of `int` |
| `LiveListProofs!EachRowOnOnePage` | every row is on exactly one page |

With these every safety and every action property of the passing runs is a theorem.

**Arguments.** `TypeOK` is inductive by itself. For the properties of the tables, `NextStatement`
shows that whatever goroutine moves, the tables see one of a dozen statements, each with
what its caller knows (`Statement`): a flush deletes only unsaved rows, only an operator
who named a row un-saves it, a scope or rule row goes only when nothing refers to it. Each invariant is
then proved once per statement instead of once per handler. `SavedIsKept` and `Refinement`
also need `NewIsFresh`: a request whose handler has not stored it has no row, so `Store` never overwrites one.
`Refinement` maps each statement to one step of `RequestLife` or to an operator coming or going.

`FlushesAlone` becomes inductive with `DownIsIdle`: a dead process is inside no flush, since
`Boot` takes the lock without looking at it. `LockMove` is the case split: go in with the lock
free, move on inside or outside, come out and free it, or die. `LastFlushNeverGoesBack`
needs `OrderInv`: the setting is not ahead of the clock, and a flush about to write it holds a
time between the two. It is the exclusion that keeps a second writer from getting in between.

`EndedSessionsStayEnded` becomes inductive with `SessionInv`: a token whose logout or change
was answered is denied or has expired (`GivenUp`), and `Client` says at each program counter what
a goroutine knows of its token. `Advances` (tokens are never signed again, the
clock does not go back, only expired tokens leave the denylist) carries `GivenUp` over
every step, so each action is left with its own goroutine. The gap between the two reads
of `currentClaims` is why the property excepts a token that expires meanwhile. `ServesMigrated`
needs `StartInv`: of a marked file all is made, of the file at work all before the current
statement, and the counter equals the rows since the statement that seeds it.

`AutoFlushKeepsWindow` needs `WindowInv`: while nothing has failed, a flush of the scheduler that
has not yet computed its boundary has promised no more than the retention there is (`window`, the
shortest in force since it began), and from the boundary on it keeps `window` (`bound + window <= day`).
The operator may shorten or lengthen the retention and the clock may move between its statements; `WindowMove`
lists what a step can do to these values.

`AlertInv`, behind `AlertsInOrder`, is about the whole way of an alert: sent (in the chat, or given up
and late), in the worker's hands, in the queue, still with its handler. Of two alerts of one request the
one further on has the smaller rule id; this covers the step from each place to the next (`AlertMove`).
A late message may arrive behind any other, but is of another rule than all that have arrived
(`Apart`), so it is never the second of its kind. `TotalCountsCaptures`
is a counting argument: `Stored` are the requests whose handler is past the counter, and `CountMove` shows that a step
adds one request to both sides, only to `Stored` with a fault or a crash, or nothing.

`ChangeRevokesEarlierSessions` needs `RevokeInv`. As long as no change overlapped with a login or
another change and the version could be read, no token is ahead of the version or the password,
whoever has read the hash and not yet used it knows the present password and is alone, if it is
changing it (`Alone`), a writer holds the present version, and a changer past its write has left the
earlier sessions behind (`Revoked`). A change that was cut short between the two statements leaves
tokens of the old password with the present version; the next change passes both.

`LimitInv` is the invariant of the limiter: until two calls overlap, at most one is pending, what it
read is still what the address has, and the recent part of what is remembered is the recent part
of what was admitted (`Same`; `RecentLater` carries that over the clock). `AnotherCounts` says
that an attempt added is one more, which rests on the numbering (`Numbered`). The types of the
console need `TypeInv`: arrivals reserve what they may use (`Budgets`), so tokens and passwords stay within their
bounds, and every version written stands for a password set before it, so the
version never overtakes the password. `Reserved` does the counting for a step of one goroutine,
`StepBounds` carries the rest.

In `IntakeProofs`, `Configured` (the environment comes from `Load`) and `Decided` (the outcome is the one
the routing gives) are the two halves of the invariant; `ReadCapped` is the arithmetic of `readBody`, with
the cap's successor and the width of int64. `HealthHitsAreRecorded` needs that no console path is
`/healthz` (`IntakeAssumption`). In `LiveListProofs`, `PagesCoverRows` bounds
the last page by the rows, `WrapSmall` is the identity below `IntMax`, and `NewerRanks` says that the
number of larger ids ranks a finite set without gaps or ties: so the pages partition the table, and the page that is
shown is not empty. `LoadInv` follows a page through its COUNT and its two SELECTs: what was
counted is what there is, as long as the load is not torn. `ListInv` adds to the types and to the counter that no page under way is longer than
`PerPage`. `DeletesWhatWasMeant` needs `MeantInv`: no id that a tab can name, in a page under way, on the screen, in
the dialog or in the post, is larger than the last one given out, and those of the dialog or the post
that are in the table are `meant`: so a request that arrives later is in none of them.

**Only model-checked.** The liveness properties: `EveryCaptureAnswered`, `EveryOperatorAnswered`,
`EveryAlertSettles`, `OverdueAreFlushed`, `StartsAgain`, `DenylistShrinks` and `LiveCatchesUp`. They hold
under fairness, and fairness speaks of ENABLED, which the provers do not handle.

## Not modelled

Formatting (alert texts, MarkdownV2, ids and dates), headers and addresses of
requests, templates and styles; pages that only read; `SendTest` and the rule test, which which post
a message and change nothing; `public_url`, which only ends up in a link; the filters of the request
page but `saved` (`scope_id` and the text filters: a row changes under them as it does under `saved`, when
`applyScope` or a save runs, but they are not in `LiveList`) and those of the audit page; the audit rows of failed logins and password changes; signatures and hashes, which
are taken to do what they promise; log lines. `TokenSet = FALSE` is in the model (`Enqueue` returns) but every
run has a token, as nothing happens without one; `RefusedDelete` runs without a chat id. The
data race on `lastFlushAt` is below the level of these modules. That every change has an
audit row is not stated: the code writes it as a second statement and ignores its error.

## Left for later

The safety properties that the passing runs check are all proved. What could still be stated and proved:
what an interrupted password change leaves behind and how the next one makes up for it, as an action
property; abstract specifications of the sender and of the limiter, with refinements as
`RequestLife` has one.
