# A TLA+ verification of job-listings-api

The program is a FastAPI service over two SQLite files. It reads `jobs.db`,
which another program (the scraper) writes, and it owns `app.db`, which holds
the users' watchlists. All paths below are relative to the repository's root;
the package is `src/jobsapi`.

Contents: 1 inventory, 2 modules and code, 3 runs, 4 proofs, 5 fairness and
bounds, 6 what the program does and its documents do not say, 7 not modelled,
8 plan.

## 1. Inventory

| Component | Code | State it keeps | Operations |
| --- | --- | --- | --- |
| Watchlist write path | `watchlist_repository.py`, `routers/watchlists.py`, `appdb.py` | `app.db`: `watchlists`, `watchlist_items`; per request a connection with its implicit transaction, its locks and its read snapshot | `POST/GET /watchlists`, `GET/PUT/PATCH/DELETE /watchlists/{id}`, `POST/GET /watchlists/{id}/jobs`, `DELETE /watchlists/{id}/jobs/{job}` |
| Read path | `db.py`, `repository.py`, `routers/jobs.py`, `runs.py`, `meta.py` | per request a read-only connection to `jobs.db` with a SHARED lock or none | `GET /jobs`, `/jobs/{id}`, `/jobs/{id}/changes`, `/runs`, `/sources`, `/stats`, and the look-ups for the watchlist endpoints |
| Job queries | `repository.py`, `schemas.py` | none (pure) | WHERE and ORDER BY from filters, paging, aggregates |
| Request pipeline | `main.py`, `problems.py`, `security.py`, `logging_config.py` | per request its id and context, its place in the thread pool, its connections | tag, time, route, check the key, open databases, validate, dispatch, close, map an exception to an answer, log |
| Startup | `main.py`, `db.check_database`, `appdb.ensure_schema` | the lifespan of the process | check `jobs.db`, create `app.db` |
| Models, settings | `schemas.py`, `config.py` | none | validation |
| Outside | the scraper, SQLite, the thread pool | `jobs.db`, its journal, its locks | commits, dies, is repaired |

**How they interact.** Every endpoint is a plain `def`, run in a thread pool, so
handlers run at the same time. Nothing is shared in memory: handlers meet only
in the database files. `app.db` is in WAL mode: one writer at a time, readers
see the last commit or their snapshot. `jobs.db` is in rollback-journal mode: a
reader's SHARED lock excludes the writer's EXCLUSIVE and the reverse. `add_job`
and `list_jobs` use both files and nothing makes the two reads one moment.

**What is hard.** (a) A handler is several statements; commits of others fall
between them. (b) Python opens a transaction before a writing statement and only
`conn.commit()` or closing the connection ends it, so each early exit of a
handler leaves a lock behind until the teardown. (c) Uniqueness is decided by an
index and not by a look first, existence by a foreign key. (d) Ids are reused.
(e) A lock that is not had within `busy_timeout_ms` becomes a 503. (f) The
process may die at any statement; so may the scraper, with `jobs.db` half
written. (g) A cut-off reader must know whether to retry. (h) A snapshot holds
the scraper off. (i) A client that gets no answer sends its write again, while
the first attempt goes on in its thread. (j) Each thread of the pool may be spent
waiting for a lock. (k) A page is a query of its own, over a table that changes.
(l) Conditions on NULL are neither true nor false.

**What makes each part correct.** Write path: names unique under NOCASE, no item
without its watchlist, no lost update, answers that agree with effects, a lock
that is always given back, listings from one image, every request answered. Read
path: one edition per answer, nothing torn read, 404 and 200 decided in the
snapshot, retry advised exactly when it helps, the scraper never starved.
Queries: the page and total describe the same filter and pages partition the
result. Pipeline: nothing is looked at before the key,
nothing outlives its request, every failure can be found in the log. Startup: no
request is served from a half-made `app.db`. The hazards, each at its
line and with the properties aimed at it, are listed in `PROJECT.json`.

## 2. Modules and code

| Module | Models |
| --- | --- |
| `WatchlistData` | The tables of `app.db`, requests and answers, and what one statement reads from or does to an image of the database |
| `WatchlistStore` | The nine `/watchlists` handlers, a statement at a time |
| `WatchlistService`, `WatchlistRefinement` | What those endpoints promise, without statements, locks or connections; and the mapping to it |
| `WatchlistRetry` | Writes that are sent again, over ids that are reused; lost answers, death of the process, power loss, timestamps |
| `JobsDb` | The requests that read `jobs.db`, and the scraper that writes it |
| `JobsService`, `JobsRefinement` | What the endpoints over `jobs.db` promise; and the mapping to it |
| `JobsQuery` | What their queries compute: filters, order, paging, `/sources`, `/stats` |
| `LikeSearch` | The two text filters, character by character (operators only, used by `JobsQuery`) |
| `Pipeline` | Middleware, routing, dependencies, thread pool, validation, exception handlers, log |
| `Startup` | The checks of `jobs.db`, the creation of `app.db`, and the requests that serve `posted_at` |
| `MCWatchlistStore`, `MCWatchlistRetry`, `MCJobsDb`, `MCJobsQuery`, `MCPipeline`, `MCStartup` | Small instances for TLC |
| `WatchlistStore_proofs`, `WatchlistRefinement_proofs`, `WatchlistRetry_proofs`, `JobsDb_proofs`, `JobsRefinement_proofs`, `JobsQuery_proofs`, `Pipeline_proofs`, `Startup_proofs` | Theorems |

Definitions marked "Faulty" are not part of the specification. Each is what a
definition would be with a plausible mistake in the code, for example a
connection returned to a pool without rollback, or foreign keys left off. For
every property of a passing run there is one that makes it fail (`PROJECT.json`,
"mutants").

### WatchlistStore

`db` is what is committed. `writer` is the connection that has the write lock
and `work` the image of its transaction. Each handler `c` has a next step
`pc[c]`, its request, the image of its snapshot and the answer so far; `applied`
is a history variable. One action is one statement or the commit:

- `Receive`: a request comes. `OpenFails`: its connection cannot be opened
  (`appdb.connect`): 503 for a lock, 500 for anything else.
- `CreateWatchlist`, `ReplaceWatchlist`, `UpdateWatchlist`, `DeleteWatchlist`,
  `AddItem`, `RemoveItem`: the INSERT, UPDATE or DELETE, with its constraint
  failures and its "no row matched". They need the lock free. They take it also
  when they fail or match nothing: SQLite starts a write transaction for the
  statement, and Python's implicit `BEGIN` keeps it open.
- `Commit`: `conn.commit()`. What a handler still does after it is `AfterCommit`:
  PUT and PATCH read again, outside the transaction
  (`watchlist_repository.py:152,187`), and may find nothing; `add_job` makes its
  answer from the row of the job it had found before (`BuildEntry`,
  `routers/watchlists.py:233`), which raises if its `posted_at` is no date.
- `GetWatchlist`: `get_watchlist` in its three roles. `Gate`, `Page`, `Count`:
  the statements inside `read_snapshot`; `View` is what they see, the image of
  the *first read* since `BEGIN` is deferred.
- `GetJob`, `Join`, `JobsUnavailable`: what the handler asks of `jobs.db`, which
  the environment action `Scrape` changes. A job is absent, or has a row the
  response models accept, or one they do not (`Catalogue`).
- `Busy`: the busy timeout. `Close`: an exception left the handler; the
  dependency's `finally: conn.close()` runs before the error is answered, and
  rolls back. `Reply`: a success is sent. `Crash`: the process dies and starts
  again.

A client's name conflict is `NameTaken` (equality of NOCASE keys, the operator
`Fold`), and a new id is one past the largest in use (`INTEGER PRIMARY KEY`
without AUTOINCREMENT), so ids are reused after the largest is deleted.

### WatchlistService and its refinement

Each request takes effect once, at one moment, on the whole store; or is refused
for a reason true at one moment; or is unavailable, or fails, and nothing happened.
It is weaker in four places, since the program is: PUT and PATCH answer with the row
as found *after* the effect; an added job was in the catalogue at some earlier
moment; if it could not be told then, the client gets a 500 for an item that is
saved (`Confirm`); a page of items is compared with the catalogue at a later one. The
mapping places the effect at COMMIT, a refusal at the statement that met it, a
listing at the first read of its snapshot.

### WatchlistRetry

`app.db` is the sequence `log` of its commits; each carries the attempt it came
from, what had been acknowledged when that was sent, and its `updated_at`. A
client has one request at a time, which it may send again (`SendAgain`) while
earlier attempts are at the service: a client's timeout stops no handler. `Enter`
is the handler up to its statement, where it has read the clock (`_now`) and may
wait for the lock; `Commit` is the statement with its commit, `Refuse` a 404, 409
or 503, `Deliver` the answer that arrives. `Crash` takes the attempts and leaves
the log; `PowerLoss` also takes a suffix of what was not checkpointed
(`synchronous = NORMAL`). A list has the identity of the commit that created it,
which its id is not.

### JobsDb, JobsService

The content of `jobs.db` is the number of scraper transactions committed to it,
its edition, or `Torn` while pages of an unfinished one are in the file. The
scraper's lock goes RESERVED, PENDING, EXCLUSIVE; it writes a journal, then
overwrites, then deletes the journal; it can give up, or die and leave a hot
journal. A request connects (the first PRAGMA that needs the schema takes SHARED
for a moment), then sends the statements of its endpoint (`Statements`), in
`read_snapshot` or not. Locked out, it is told `busy` (DATABASE_BUSY,
Retry-After) or, when the journal is hot, `wedged` (DATABASE_UNAVAILABLE).

`JobsService` has no connections, locks, statements or journal: the whole answer
is decided at one moment after the request came, by the edition current then; or
it is turned away for what the scraper does at that moment. `JobsRefinement`
places that moment at the first SELECT.

### JobsQuery, LikeSearch

A table of few rows, which the scraper adds, changes and removes, and the runs
it starts. `Clauses` are the conditions `_build_where` joins, each TRUE, FALSE
or NULL, and `Selected` the rows for which all are TRUE. `Orderings` are *all*
orders the ORDER BY allows, so a tie that is not broken shows as a choice. The
nullable columns that can be compared are `posted`, `low` and `high`
(`posted_at`, `salary_min`, `salary_max`); a salary range has its lower bound on
the second and its upper one on the third, so the 422 for a pair of bounds that
is reversed (`Refused`) says less of salaries than of dates. A client walks a
query page by page until the total it was told, with the scraper's steps between
the requests; `world` remembers whether those only added rows. `Joined` and
`SourceList` are the LEFT JOIN and GROUP BY of `/sources`; `Stats` is the sums,
with SUM over no rows NULL. Each request is one step, which `JobsDb` justifies
(`OneEdition`).

`LikeSearch` has `_escape_like` as three replacements in order, and LIKE with its
escape character as a matcher: `Matches` is, for each place in the pattern, the
places in the text from which the rest of the one matches the rest of the other.
`StandsIn` and `StandsAt` are the reference.

### Pipeline

A request is in the event loop (the middleware `_observe`, routing, validation,
exception handlers, `GET /health`) or in a thread of the pool, for which it waits
in `queue`: every plain `def`, so each dependency and each handler, one after the
other. `Dependencies` is their order: the router's key before the connections of
the endpoint. `Raise` lets an exception leave a step, `Unwind` closes the
connections, `Handle` answers inside the middleware and `LastResort` outside. A
handler is reduced to what it may take (the write lock) and how it may end: with
an exception before its commit, which keeps the lock (`RefuseWrite`), or after it
has given the lock back (`EndWrite`), normally, with the 404 of a re-read, or with
the exception of an added job that cannot be shown.
Closing a connection runs outside the pool's limit. `context` is the ContextVar
of the request id and `log` the lines written.

### Startup

`Start`, the two checks of `check_database` as two reads of a file the scraper
goes on changing, the statements of `ensure_schema` one by one since
`executescript` commits each, then `Page` and `Stats`, which serve `posted_at`.
`Die` may come anywhere. Values of `posted_at` are told apart by being a date,
having the shape of one, or having ten characters.

### How the modules fit

`WatchlistRetry` takes from `WatchlistStore` that a write is one commit or
nothing (`ImplementsService`). `JobsQuery` takes from `JobsDb` that an answer is
of one edition (`OneEdition`, `ImplementsJobs`). `WatchlistStore` and `JobsDb`
take from `Pipeline` that connections end with their request
(`NothingOutlivesRequest`), and from `Startup` that the tables are there
(`ServingMeansReady`); the pipeline takes from them how a handler can end.

## 3. Runs

| Run | Instance | Shows |
| --- | --- | --- |
| `store_names` | 3 handlers, ids 1..3, 3 names of which 2 equal under NOCASE | `TypeOK`, `NamesUnique`, `LockHeldOnlyByOpenWrite`, `NoLostUpdate`, `ConflictHasCause`, `OnlyCommitsChange` |
| `store_contract` | 2 handlers, ids 1..2, one request of every kind and the null name, a job that is absent, dated or undated | `NoOrphanItems`, `PageIsOneSnapshot`, `AnswerMatchesEffect`, `ImplementsService` (refinement), `EveryRequestEnds` |
| `store_404`, `store_409` | 2 and 1 handlers | divergences, section 6 |
| `jobsdb` | 2 readers, 2 scraper transactions | `TypeOK`, `OneEdition`, `NeverTorn`, `NoLockAfterAnswer`, `ToldTheCause`, `ImplementsJobs` (refinement), `EveryRequestEnds`, `ScraperNotStarved` |
| `query_tables` | every table of up to 3 jobs of 5 kinds and 2 runs; every term of 1 or 2 characters | `SearchIsLiteral`, `RangesSplitDated`, `SourcesOncePerSource`, `StatsAgree` |
| `query_paging` | 5 queries over up to 3 jobs, most of them tied, and 2 runs | `WalkIsExact`, `InsertsLoseNothing`, `IdOrderIsAppendOnly` |
| `pipeline_safety` | 2 requests out of 11 kinds, 1 thread, a key | `TypeOK`, `KeyBeforeData`, `NothingOutlivesRequest`, `HolderNeedsNoThread`, `LogJoinsAnswer`, `RetryMeansBusy`; `HealthNeverWaits` |
| `pipeline_liveness` | 3 requests, each a reader or a writer, 2 threads | `EveryRequestAnswered` |
| `retry_safety` | 2 clients, 2 attempts each, 2 names, up to 4 commits | `QuietRetryIsNoop`, `LossKeepsCauses`, `StampsFollowAcks` |
| `retry_target` | the same | divergence, section 6 |
| `startup` | 2 rows, 6 values of `posted_at`, any number of starts | `ServingMeansReady`, `OnlyNewOrShapedFails`, `StartupDecides` |

## 4. Proofs

Every safety property of every passing run is a theorem, and so are both
refinements; the proof system checks every step. The theorems hold for every set
of handlers, readers, clients, rows, names, jobs, terms and requests, for every
number of threads and every page size, and for every value of the bounds. Each
inductive invariant was checked by TLC on an instance of its module before it was
proved.

*`WatchlistStore_proofs`* proves the safety properties of the store runs:
`TypesAndLock`, `ImagesSound` (`NoOrphanItems`, `NamesUnique`), `UpdatesKept`
(`NoLostUpdate`, and `NewListIsEmpty`: a list created under a reused id inherits
nothing), `CommitsOnly`, `AnswersTrue`, `PagesConsistent`, `ConflictsCaused`.
The invariants are not inductive as they stand, and there are three strengthenings,
each with types and the lock:

- `StoreInv` adds that every image is sound, not only the committed one
  (`SoundImages`): what is committed was computed statements before, so soundness
  must be known of `work` when the statement runs. `Sound` joins the foreign key
  and the index. It also adds `OneChange`: while a handler is about to commit,
  `work` is `db` with its one `Change`. This needs the lock, since it must survive
  the steps of the others: one writer has the lock, so nobody else commits.
- `AnswerInv` adds, per step of a handler, what its answer may hold and whether
  its commit has happened (`Told`), and that what it has read so far fits the
  image of its snapshot (`OneImage`). `AnswersTrue` follows: a success only after
  the commit, and a refusal after it only in the two exits that exist, the 404 of
  a re-read and the 500 of an added job.
- `ConflictInv` adds that a handler about to send a 409 still has the lock
  (`Justified`), from which nobody can take the cause away.

The argument goes bottom up: what one statement does to an image (`RowPut`,
`ListGone`, `ItemChanged`); the outcomes of each writing function
(`CreateCases` to `RemoveCases`, joined in `WriteCases` into executed, rejected,
busy, committed); what a step does to each variable (`DbStep`, `WorkStep`,
`SnapStep`, `ChangeStep`; `Others` for the handlers that did not move).

*`WatchlistRefinement_proofs`* proves `Spec => ImplementsService`, each of the nine
endpoints on its own. `MapInv` adds to `StoreInv` and `AnswerInv` what a handler has
built by each step (`Built`): until its statement nothing, in a listing the page of
its snapshot, and before COMMIT an image and an answer that are what the service
promises of the committed image (`Performed`). Each writing statement establishes
`Performed`; the lock keeps it true until COMMIT, which is therefore the service's
effect. Every refusal has the service's `Reason` at its statement (`RefusalDenies`).
The first read of a snapshot is the listing (`FirstReadLooks`), the reads after it
and the statements that change nothing are stutters, and a crash, which rolls back
whatever has no COMMIT, drops all requests in the service too (`OutsideMaps`).

*`WatchlistRetry_proofs`* proves `QuietRetries`, `LossesKeepCauses` and
`StampsOrdered` under one invariant, `RetryInv`. `Numbered`: the attempts in flight
have identities of their own, and what was done is in the log. `Learnt`: what anybody
was told of is over and in the log, and what the sender of a commit knew is in the
log before it. The loss of a suffix keeps that, since a prefix of the log has with each commit
all before it. `Stamped`: a handler that waits has read the clock after every commit
its client knew of; for this an attempt that is over must not commit again, so
`Stamped` needs `Learnt`. `Constant` (all attempts of a request ask the same) and
`Effective` (what an entry of the log asked for holds in its image) give the quiet
retry: `Effects` changes no image in which its request is `Satisfied`.

*`JobsDb_proofs`* proves every safety property of `jobsdb`, and `GateInSnapshot`:
a 200 or 404 about a job is true of the edition that was read. The inductive
invariant `JobsInv` relates the file and the readers. `FileGuarded`: half-written
pages have a journal, and while there is a journal nobody has SHARED. `Pinned`: who
has SHARED has read only the committed edition. So a commit, which needs the file
exclusively, changes no open snapshot; a reader that is let in finds no journal
(`ReadableIsCommitted`), and so no torn page. `Fresh` and `Consistent` carry the 404
gate from the first statement of a request to its last.

*`JobsRefinement_proofs`* proves the refinement, `Spec => ImplementsJobs`: Init maps
to the abstract initial state, and under `JobsInv` each step maps to a step of
`JobsService` or changes nothing there. The steps that matter: the first `Read`
of a request is `Found`, since what it reads is the committed edition; each later
one is a stutter, since by `Pinned` it adds no edition to what was seen; `Busy`
and `Wedged` are `RetryLater` and `NeedsOperator`, since what keeps a reader out
is the lock of a living writer or a hot journal.

*`JobsQuery_proofs`* proves the seven properties of the queries, over every table
the scraper can leave behind.

- *Aggregates.* `TablesInv` says that `latest` is what the runs say. `RangesAlwaysSplit`,
  `SourcesAlwaysOnce` and `StatsAlwaysAgree` are facts of every such table. The
  lemmas say what each filter selects (`SourceFilter`, `RangeFilters`,
  `RemoteFilters`), that NULL is not TRUE (`RangeTrue`), that the join gives each job
  at most one run (`OnIsLatest`, `JoinedIs`), so that the size of a group is a count
  of jobs (`GroupSize`).
- *Search.* `SearchAlwaysLiteral` is for every alphabet, term and text. `Encodes` says
  that a pattern is the text with the escape character before the characters of a
  set; one replacement encodes one character (`ReplacedEncodes`), a later one leaves
  alone what an earlier one added if it is not the backslash (`EncodesThrough`: here
  the order of the three matters). `PatternMatches` then goes backwards through the
  pattern. The two recursive functions are shown to exist, by induction on a bound,
  before anything is said of their values (`ReplacedSteps`, `MatchesAre`).
- *Paging.* `Before` is a strict total order on what a query selects
  (`BeforeIsOrder`), so the place of a row in any answer is its `Rank`, the number
  of rows before it (`OrderingRanks`, `PageHasRanks`), and no choice is left to the
  database. `WalkInv` relates a walk in progress to ranks: while nothing has changed,
  or rows come last, the client has the ranks up to its offset, each at its place
  (`Exact`); while rows are only added, those of the first list whose rank is below
  the offset have been received (`Kept`), since added rows can only raise a rank
  (`GrowthKeepsRanks`). `WalksAreExact`, `WalksInOrder`, `InsertsNeverLose` and
  `IdOrderAppends` follow.

`FiniteSetInduction` and `Counting` are the induction principles these need, derived
from the well-foundedness of the subset ordering and stated with a set in place of a
predicate. The proof found a defect of the model: `Key` was a CASE whose guards
overlapped for runs sorted by id, which TLC reads in order and the language does
not.

*`Pipeline_proofs`* proves the six safety properties of the pipeline under
`PipeInv`: what each variable holds (`Shaped`), that who waits for a
thread or has one is at a step that needs one (`Pooled`), and for each request where it is
(`Own`). `WayIn`: what is left of its dependencies fits what is open, the key is the
first of them, and the lock is held only at a commit or by an exception on its way
out. `Failed`: a request that is not admitted ends with nothing open and with a
failure that says nothing of the data; `code` follows from what was raised. `WayOut`:
the answer is the registered one of the exception, and the log knows it.
`Pooled` is what `HolderGoesOn` needs, and `Failed` over every route and every
exception is what `KeyFirstAlways` and `RetriesTrue` need.

*`Startup_proofs`* has two inductive invariants. `AppInv`: `app.db` has its version
only with everything before it, a start is at statement n only if all before n are
done, and who serves has been through them and has found the table of jobs. It
holds over any number of starts that are cut off, because every start begins at
the first statement. `ServeInv`: a row that was verified and not written since
still has the shape of a date, and a failed answer has a row that has not.

*Assumptions.* `BoundAssumption`, `BoundsAssumption` and `MaxEditionAssumption`: the
bounds are numbers. `FiniteAssumption`: finitely many jobs, so that totals are
numbers. `NamesAssumption`, `LowerAssumption`: the collation maps names to names and
letters to letters, and no letter is a wildcard (`LettersAssumption`).
`NoneAssumption`, `NullsAssumption`, in several modules: null, and a filter that is
not set, are different from every value they stand beside. `RequestAssumption`,
`QueriesAssumption`, `TermsAssumption`: requests have passed validation.
`RowsAssumption`: rows have the types of their columns. `HoldingAssumption`: the
editions that hold the job are numbers. `ValuesAssumption`: dates have the shape of
dates, and the order of text is a relation on values. TLC evaluates all of them in
the runs of their modules. Nothing is assumed of the environment that the models do
not say: the rules of SQLite's locks are actions, marked external in `PROJECT.json`.

*What stays with TLC.* Everything under fairness, which the proof system does not
treat: `EveryRequestEnds`, `ScraperNotStarved`, `EveryRequestAnswered`,
`HealthNeverWaits`, `StartupDecides`. That a handler which waits always has a step
(the ENABLED side of those) is part of them. And the violations of section 6, which
are counterexamples.

## 5. Fairness and bounds

*Fairness.* `WatchlistStore` assumes weak fairness of each handler's own steps: a
thread of the pool keeps being scheduled. No step needs strong fairness because
a waiting writer always has `Busy` enabled while it waits, as
`sqlite3_busy_timeout` guarantees. No fairness is assumed of clients, of the
scraper's commits or of crashes. `JobsDb` assumes the same of its readers and, of
the scraper, only that a writer in PENDING keeps trying for EXCLUSIVE, which is
what SQLite's busy handler does. `Pipeline` has two: `LoopSpec` assumes only that
the event loop runs what is ready, and under it `HealthNeverWaits` holds while
threads may hang for ever; `FairSpec` adds that threads are scheduled and given
out, and under it every request is answered. Faults are never assumed to occur.
`Startup` assumes that a process that has started goes on (`Boot`), nothing of the
scraper or of who starts it.

*Bounds.* `MaxId` bounds ids. `RoomToCreate` admits a create only while every
create in flight will find an id; an id above it would behave like the others.
Ids 1..3 are enough for two watchlists in conflict, a deletion and the reuse of
the freed id; 1..2 for the races of `store_contract`, each of which is between one
list and another request. Three handlers are enough for one to hold the lock, one
to wait and one to read or crash into both. Two `Names` equal under `Fold` and one
distinct are the cases of a collation. `MaxEdition` 2 lets a job leave and come
back within one request (`MCHolding` = {0, 2}). `MaxJob` 3 and `MaxRun` 2 allow
pages before, at and after a tie, and two runs of one clock reading. The texts of
`query_tables` hold each special character before and after the others; a term of
two characters is the shortest on which the order of the replacements shows. One
thread for two requests makes one wait whenever the other holds it, and two threads
for three requests make one queue while the others wait for the write lock in the
pool, or both threads wait for it while its holder is on the way out. `MaxTries`,
`MaxRequests`, `MaxCommits`, `MaxClock` bound `WatchlistRetry`: two attempts and
one request of another client are what a repeated request needs to do harm. The
proofs assume none of these.

## 6. What the documents say and the program does not do

Shown by a run:

- **A PUT or PATCH that was committed can be answered 404** (`store_404`).
  `replace_watchlist` commits and then calls `get_watchlist` in a new implicit
  read; a DELETE committed in between raises `WatchlistNotFound`, "A watchlist id
  was well-formed but matched no row" (`errors.py:59`), though the UPDATE matched.
- **A PATCH with `{"name": null}` is answered 409** (`store_409`), "A watchlist
  named None already exists": the message of the NOT NULL failure contains
  `watchlists.name`, which the code takes for the UNIQUE index
  (`watchlist_repository.py:71-74`, "only the name's UNIQUE constraint should
  become a 409").
- **A repeated DELETE or PUT can hit another client's list** (`retry_target`). The
  highest id is given out again once it is free (`appdb.py:37`). After a DELETE
  whose answer was lost, and a POST of somebody else, the same DELETE removes the
  new list. `routers/watchlists.py:124-125` says "a client that retries after a
  timeout cannot do damage", `docs/api.md:566` "repeating it does not change the
  *effect*".

To be seen in the models, without a run of their own:

- `POST /watchlists/{id}/jobs` can be answered 500 for an item that is saved
  (`BuildEntry`): the row of the job meets the response model after the commit. The
  next attempt is a 409.
- A 500 of the last resort has neither header and no access line (`Pipeline`,
  `LastResort`; the exception of `LogJoinsAnswer`). `docs/api.md:32`: "Every
  response carries `X-Request-ID` and `X-Response-Time-ms`."
- A 405 carries INTERNAL_ERROR (`Registered`), which `docs/api.md:131` keeps for a
  500.
- A key that is not ASCII is answered 500 (`RequireApiKey`): `compare_digest`
  raises TypeError. `security.py:36`: a wrong key is the same failure as none.
- An offset or id of 2^63 or more is answered 500 (`Fault`), as SQLite cannot bind
  it. `docs/api.md:183`: "Past the end returns `200`".
- An attempt of a PUT that was given up can commit after the client's next PUT was
  acknowledged (`SendAgain`, `Commit`), and then stays. `docs/api.md:547`.
- `2026-99-99` passes the startup check and every page that holds it is a 500
  (`Shaped` without `Dates`). `db.py:181`: "Fail loudly if `posted_at` holds
  anything but a bare ISO date."
- Only the table `jobs` is verified (`VerifySchema`): without `runs` the service
  starts and `/runs`, `/sources` and `/stats` are 500. `db.py:153`.
- The pages of a watchlist serve `posted_at` too (`Page`). `docs/api.md:496`: "The
  gate covers three endpoints".

## 7. Not modelled

- Settings (`config.py`): read once, before anything runs. The busy timeout is the
  possibility to give up, the API key the constant `KeyIsSet`.
- `scripts/make_demo_db.py`: writes a fixed data set once, before any service.
- Lengths of texts, notes, the wording of answers, durations of runs and the
  truncation of change values: each a formula over one row, without state. The
  history of a job is ordered and paged as the runs are, and not modelled beside
  them. Filters by seniority and currency are equalities like that by source.
- `limit` and `offset` of the watchlist endpoints (a page is the whole collection);
  those of `/jobs` and `/runs` are in `JobsQuery`.
- WAL checkpoints and recovery as steps of SQLite; faults of the disk, except that
  a database may not open, a statement may fail (`Pipeline`) and the power may go.
  A statement of `app.db` that fails of the disk after the commit, in the re-read of
  a PUT or PATCH, is therefore outside of `AnswerMatchesEffect`.
- Numbers beyond 64 bits, except as the unhandled exception they end in: that this
  is a 500, where a 404 or an empty page is due, no property checks.
- Timestamps of writes that overlap. `StampsFollowAcks` orders two writes only if
  one was acknowledged before the other was sent.
- The journal of the scraper before it is synced. It has a zero header until then
  and no reader takes it for a hot one, so a scraper that dies earlier leaves nothing
  a reader meets, and `Die` before `Exclude` only frees the lock.
- The scraper's own logic is outside the repository; only its locking and commits
  are modelled, from how `db.py` and its tests describe them.

## 8. Plan

In place: both databases, the two services they implement, repeated requests, the
queries, the pipeline, startup; every safety property and both refinements proved.
Next, in this order:

1. What the services themselves promise, proved of `WatchlistService` and
   `JobsService` alone: names unique and no orphan items, one edition per answer.
   By the two refinements they then hold of the handlers a second time, without
   statements or locks.
2. The safety half of the liveness properties, as invariants over the state: a
   handler that waits for the lock waits for one that can go on, for any number of
   handlers, as `HolderGoesOn` says it of threads.
3. `WatchlistRetry` over `WatchlistService`: that a commit of its log is an effect of
   that service, so that what is assumed of a write there is what is proved here.
