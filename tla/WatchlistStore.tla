--------------------------- MODULE WatchlistStore ---------------------------
(***************************************************************************)
(* The write path: the /watchlists handlers, each run by a thread of its   *)
(* own on a connection of its own, over the application database app.db    *)
(* (SQLite, WAL).  One action is one statement a handler sends to SQLite,  *)
(* or the commit, or the end of the request; between two of them every     *)
(* other handler, the scraper that owns jobs.db, and a crash of the        *)
(* process may run.                                                        *)
(*                                                                         *)
(* What SQLite contributes: a statement that writes takes the only write   *)
(* lock of app.db, whether or not it changes a row, and the connection     *)
(* keeps it until it commits or closes; a reader never waits and sees the  *)
(* last commit, or, inside read_snapshot, the commit that was last at its  *)
(* first read.                                                             *)
(***************************************************************************)
EXTENDS WatchlistData

VARIABLES
  db,       \* app.db as last committed
  writer,   \* the handler whose connection holds the write lock
  work,     \* the image each handler's open transaction has built; None without one
  jobs,     \* jobs.db as last committed by the scraper
  pc,       \* each handler's next step
  req,      \* the request it serves; None when idle
  snap,     \* the image its read snapshot holds
  ans,      \* the answer it has built
  applied   \* history: its transaction has been committed

vars == <<db, writer, work, jobs, pc, req, snap, ans, applied>>

Steps == {"idle", "job_check", "list_check", "write", "commit", "reread",
          "entry", "select", "gate", "page", "count", "join", "answer", "close"}

-----------------------------------------------------------------------------
(* Steps every handler shares                                               *)

At(c, step, kinds) == pc[c] = step /\ req[c].kind \in kinds

Goto(c, step) == pc' = [pc EXCEPT ![c] = step]

\* Faulty: the statements of a page without BEGIN, each sees the last commit.
ViewWithoutBegin(c) == db

\* The reads inside one read_snapshot see what its first read saw.
View(c) == IF snap[c] = None THEN db ELSE snap[c]

\* An exception leaves the handler: the connection closes, then it answers.
Refuse(c, status) ==
  /\ status \in Refusals
  /\ ans' = [ans EXCEPT ![c] = [Blank EXCEPT !.status = status]]
  /\ Goto(c, "close")

\* Faulty: a statement that does not wait for the lock.
CanAlwaysWrite(c, kinds) == At(c, "write", kinds)

\* The write lock is free, so the statement runs and takes it.
CanWrite(c, kinds) == At(c, "write", kinds) /\ writer = None

\* Faulty: the repository function returns without commit().
ExecuteAndAnswer(c, image, answer) ==
  /\ writer' = c
  /\ work' = [work EXCEPT ![c] = image]
  /\ ans' = [ans EXCEPT ![c] = answer]
  /\ Goto(c, "answer")
  /\ UNCHANGED <<db, jobs, req, snap, applied>>

\* Faulty: a connection in autocommit mode.
ExecuteInAutocommit(c, image, answer) ==
  /\ db' = image
  /\ writer' = c
  /\ work' = [work EXCEPT ![c] = image]
  /\ ans' = [ans EXCEPT ![c] = answer]
  /\ Goto(c, "commit")
  /\ UNCHANGED <<jobs, req, snap, applied>>

\* The statement changed rows; the commit is next.
Execute(c, image, answer) ==
  /\ writer' = c
  /\ work' = [work EXCEPT ![c] = image]
  /\ ans' = [ans EXCEPT ![c] = answer]
  /\ Goto(c, "commit")
  /\ UNCHANGED <<db, jobs, req, snap, applied>>

\* The statement failed a constraint or matched no row.  No rollback follows:
\* the transaction, and the lock, stay open until the connection closes.
Reject(c, status) ==
  /\ writer' = c
  /\ work' = [work EXCEPT ![c] = db]
  /\ Refuse(c, status)
  /\ UNCHANGED <<db, jobs, req, snap, applied>>

-----------------------------------------------------------------------------
(* The request                                                              *)

FirstStep(kind) ==
  CASE kind \in {"create", "put", "patch", "delete"} -> "write"
    [] kind = "get"    -> "select"
    [] kind = "list"   -> "page"
    [] kind = "items"  -> "gate"
    [] kind = "add"    -> "job_check"
    [] kind = "remove" -> "list_check"

\* Bound: creates in flight must find an id below MaxId.
RoomToCreate ==
  \A i \in Existing(db) :
    i + Cardinality({c \in Clients : pc[c] # "idle" /\ req[c].kind = "create"}) < MaxId

Receive(c) ==
  /\ pc[c] = "idle"
  /\ \E r \in Requests :
       /\ r.kind = "create" => RoomToCreate
       /\ req' = [req EXCEPT ![c] = r]
       /\ Goto(c, FirstStep(r.kind))
  /\ UNCHANGED <<db, writer, work, jobs, snap, ans, applied>>

\* What an error of SQLite becomes: 503 when it is a lock (or, for jobs.db, a hot
\* journal), 500 when it is anything else.
FaultStatuses == {"unavailable", "internal_error"}

\* app.db cannot be opened.  The connection is made before the handler runs; here
\* it is made when the handler takes its first step.
OpenFails(c) ==
  /\ req[c] # None /\ pc[c] = FirstStep(req[c].kind)
  /\ \E status \in FaultStatuses : Refuse(c, status)
  /\ UNCHANGED <<db, writer, work, jobs, req, snap, applied>>

-----------------------------------------------------------------------------
(* Statements that write                                                    *)

CreateWatchlist(c) ==
  /\ CanWrite(c, {"create"})
  /\ LET r == req[c] IN
     \/ NameTaken(db, r.name, 0) /\ Reject(c, "duplicate")
     \/ /\ ~NameTaken(db, r.name, 0)
        /\ \E i \in Ids :
             LET row == [name |-> r.name, desc |-> r.desc] IN
             /\ IsNextId(db, i)
             /\ Execute(c, WithRow(db, i, row),
                        [Blank EXCEPT !.status = "created", !.id = i, !.row = row])

\* PUT: every column the client owns, the name and the description.
ReplaceWatchlist(c) ==
  /\ CanWrite(c, {"put"})
  /\ LET r == req[c] IN
     \/ r.id \notin Existing(db) /\ Reject(c, "watchlist_not_found")
     \/ /\ r.id \in Existing(db)
        /\ NameTaken(db, r.name, r.id)
        /\ Reject(c, "duplicate")
     \/ /\ r.id \in Existing(db)
        /\ ~NameTaken(db, r.name, r.id)
        /\ Execute(c, WithRow(db, r.id, [name |-> r.name, desc |-> r.desc]), Blank)

\* PATCH.  The message of a NOT NULL failure names watchlists.name as well, so
\* an explicit null for the name is answered as a duplicate.
UpdateWatchlist(c) ==
  /\ CanWrite(c, {"patch"})
  /\ LET r == req[c]
         refused == \/ r.name = None
                    \/ r.name \in Names /\ NameTaken(db, r.name, r.id)
     IN \/ r.id \notin Existing(db) /\ Reject(c, "watchlist_not_found")
        \/ r.id \in Existing(db) /\ refused /\ Reject(c, "duplicate")
        \/ /\ r.id \in Existing(db)
           /\ ~refused
           /\ Execute(c, WithRow(db, r.id, Merged(db.lists[r.id], r)), Blank)

DeleteWatchlist(c) ==
  /\ CanWrite(c, {"delete"})
  /\ LET i == req[c].id IN
     \/ i \notin Existing(db) /\ Reject(c, "watchlist_not_found")
     \/ /\ i \in Existing(db)
        /\ Execute(c, WithoutList(db, i), [Blank EXCEPT !.status = "no_content"])

\* The foreign key refuses a watchlist deleted since list_check.
AddItem(c) ==
  /\ CanWrite(c, {"add"})
  /\ LET r == req[c]
         item == <<r.id, r.job>>
     IN \/ r.id \notin Existing(db) /\ Reject(c, "watchlist_not_found")
        \/ r.id \in Existing(db) /\ item \in db.items /\ Reject(c, "duplicate")
        \/ /\ r.id \in Existing(db)
           /\ item \notin db.items
           /\ Execute(c, [db EXCEPT !.items = @ \cup {item}], ans[c])

RemoveItem(c) ==
  /\ CanWrite(c, {"remove"})
  /\ LET item == <<req[c].id, req[c].job>> IN
     \/ item \notin db.items /\ Reject(c, "item_not_found")
     \/ /\ item \in db.items
        /\ Execute(c, [db EXCEPT !.items = @ \ {item}],
                   [Blank EXCEPT !.status = "no_content"])

\* Faulty: no busy timeout, the statement waits as long as it takes.
BusyNever(c) == pc[c] = "busy" /\ UNCHANGED vars

\* The busy timeout ran out while another connection kept the lock: SQLITE_BUSY,
\* answered 503.
Busy(c) ==
  /\ At(c, "write", Kinds)
  /\ writer # None
  /\ Refuse(c, "unavailable")
  /\ UNCHANGED <<db, writer, work, jobs, req, snap, applied>>

\* What a handler still has to do after its commit: PUT and PATCH read the row
\* again, outside of the transaction; the answer of an add is not yet made.
AfterCommit(kind) ==
  CASE kind \in {"put", "patch"} -> "reread"
    [] kind = "add" -> "entry"
    [] OTHER -> "answer"

Commit(c) ==
  /\ pc[c] = "commit"
  /\ db' = work[c]
  /\ writer' = None
  /\ work' = [work EXCEPT ![c] = None]
  /\ applied' = [applied EXCEPT ![c] = TRUE]
  /\ Goto(c, AfterCommit(req[c].kind))
  /\ UNCHANGED <<jobs, req, snap, ans>>

\* The row of the job, read before the item was written, meets the response model
\* only now: a posted_at that is no date raises, and the item stays.
BuildEntry(c) ==
  /\ pc[c] = "entry"
  /\ \/ ans[c].page = {} /\ Refuse(c, "internal_error")
     \/ /\ ans[c].page # {}
        /\ ans' = [ans EXCEPT ![c].status = "created"]
        /\ Goto(c, "answer")
  /\ UNCHANGED <<db, writer, work, jobs, req, snap, applied>>

-----------------------------------------------------------------------------
(* Statements that read                                                     *)

\* get_watchlist in autocommit: the GET itself, the check before an item is
\* added or removed, and the re-read after PUT and PATCH.
GetWatchlist(c) ==
  /\ pc[c] \in {"select", "list_check", "reread"}
  /\ LET i == req[c].id IN
     \/ i \notin Existing(db) /\ Refuse(c, "watchlist_not_found")
     \/ /\ i \in Existing(db)
        /\ IF pc[c] = "list_check"
           THEN Goto(c, "write") /\ UNCHANGED ans
           ELSE Goto(c, "answer") /\ ans' = [ans EXCEPT ![c] = RowAnswer(db, i)]
  /\ UNCHANGED <<db, writer, work, jobs, req, snap, applied>>

\* items_page: the 404 gate is the first read of the snapshot.
Gate(c) ==
  /\ pc[c] = "gate"
  /\ \/ /\ req[c].id \notin Existing(View(c))
        /\ Refuse(c, "watchlist_not_found")
        /\ UNCHANGED snap
     \/ /\ req[c].id \in Existing(View(c))
        /\ Goto(c, "page")
        /\ snap' = [snap EXCEPT ![c] = View(c)]
        /\ UNCHANGED ans
  /\ UNCHANGED <<db, writer, work, jobs, req, applied>>

\* The members of the collection a listing answers with.
Listed(c, d) ==
  IF req[c].kind = "list" THEN Existing(d) ELSE ItemsOf(d, req[c].id)

Page(c) ==
  /\ pc[c] = "page"
  /\ snap' = [snap EXCEPT ![c] = View(c)]
  /\ ans' = [ans EXCEPT ![c] = [Blank EXCEPT !.page = Listed(c, View(c))]]
  /\ Goto(c, "count")
  /\ UNCHANGED <<db, writer, work, jobs, req, applied>>

\* The count is the last read of the snapshot; END follows it.
Count(c) ==
  /\ pc[c] = "count"
  /\ ans' = [ans EXCEPT ![c].count = Cardinality(Listed(c, View(c))),
                        ![c].status = "ok"]
  /\ snap' = [snap EXCEPT ![c] = None]
  /\ Goto(c, IF req[c].kind = "items" THEN "join" ELSE "answer")
  /\ UNCHANGED <<db, writer, work, jobs, req, applied>>

-----------------------------------------------------------------------------
(* jobs.db: one more connection, one more moment                            *)

\* The row that is found goes into the answer, if it can be served.
GetJob(c) ==
  /\ pc[c] = "job_check"
  /\ \/ req[c].job \notin Present(jobs) /\ Refuse(c, "job_not_found")
     \/ /\ req[c].job \in Present(jobs)
        /\ Goto(c, "list_check")
        /\ ans' = [ans EXCEPT ![c] =
                      [Blank EXCEPT !.page = {req[c].job} \cap Servable(jobs)]]
  /\ UNCHANGED <<db, writer, work, jobs, req, snap, applied>>

\* get_jobs_by_ids for the page; an item whose job is gone stays, as missing, and
\* one whose job cannot be served fails the whole page.
Join(c) ==
  /\ pc[c] = "join"
  /\ LET found == ans[c].page \cap Present(jobs) IN
     \/ ~(found \subseteq Servable(jobs)) /\ Refuse(c, "internal_error")
     \/ /\ found \subseteq Servable(jobs)
        /\ ans' = [ans EXCEPT ![c].missing = ans[c].page \ Present(jobs)]
        /\ Goto(c, "answer")
  /\ UNCHANGED <<db, writer, work, jobs, req, snap, applied>>

\* jobs.db cannot be opened, before the handler runs, or cannot be read.  An empty
\* page reads nothing.
JobsUnavailable(c) ==
  /\ \/ pc[c] \in {"job_check", "gate"}
     \/ pc[c] = "join" /\ ans[c].page # {}
  /\ \E status \in FaultStatuses : Refuse(c, status)
  /\ UNCHANGED <<db, writer, work, jobs, req, snap, applied>>

-----------------------------------------------------------------------------
(* The end of a request                                                     *)

Forget(c) ==
  /\ Goto(c, "idle")
  /\ req' = [req EXCEPT ![c] = None]
  /\ ans' = [ans EXCEPT ![c] = Blank]
  /\ applied' = [applied EXCEPT ![c] = FALSE]
  /\ snap' = [snap EXCEPT ![c] = None]

Reply(c) ==
  /\ pc[c] = "answer"
  /\ Forget(c)
  /\ UNCHANGED <<db, writer, work, jobs>>

\* Faulty: the connection goes back to a pool as it is.
CloseWithoutRollback(c) ==
  /\ pc[c] = "close"
  /\ Forget(c)
  /\ UNCHANGED <<db, jobs, writer, work>>

\* Teardown after an exception, before the answer leaves: closing the
\* connection rolls back what is open and releases its locks.
Close(c) ==
  /\ pc[c] = "close"
  /\ writer' = IF writer = c THEN None ELSE writer
  /\ work' = [work EXCEPT ![c] = None]
  /\ Forget(c)
  /\ UNCHANGED <<db, jobs>>

\* The scraper, another process, commits to jobs.db.
Scrape ==
  /\ \E j \in Jobs, row \in {"absent", "dated", "undated"} :
       jobs' = [jobs EXCEPT ![j] = row]
  /\ UNCHANGED <<db, writer, work, pc, req, snap, ans, applied>>

\* The process dies and is restarted: every open request loses its connection,
\* WAL recovery keeps the commits and drops the open transaction, and
\* ensure_schema finds the tables in place.
Crash ==
  /\ pc' = [c \in Clients |-> "idle"]
  /\ req' = [c \in Clients |-> None]
  /\ ans' = [c \in Clients |-> Blank]
  /\ applied' = [c \in Clients |-> FALSE]
  /\ writer' = None
  /\ work' = [c \in Clients |-> None]
  /\ snap' = [c \in Clients |-> None]
  /\ UNCHANGED <<db, jobs>>

-----------------------------------------------------------------------------

Init ==
  /\ db = [lists |-> [i \in Ids |-> None], items |-> {}]
  /\ writer = None
  /\ work = [c \in Clients |-> None]
  /\ jobs \in Catalogue
  /\ pc = [c \in Clients |-> "idle"]
  /\ req = [c \in Clients |-> None]
  /\ snap = [c \in Clients |-> None]
  /\ ans = [c \in Clients |-> Blank]
  /\ applied = [c \in Clients |-> FALSE]

Write(c) ==
  \/ CreateWatchlist(c) \/ ReplaceWatchlist(c) \/ UpdateWatchlist(c)
  \/ DeleteWatchlist(c) \/ AddItem(c) \/ RemoveItem(c) \/ Busy(c) \/ Commit(c)

Read(c) ==
  GetWatchlist(c) \/ Gate(c) \/ Page(c) \/ Count(c)
  \/ GetJob(c) \/ Join(c) \/ JobsUnavailable(c) \/ BuildEntry(c)

\* What a handler's thread does once it has a request.
Handle(c) == Write(c) \/ Read(c) \/ Reply(c) \/ Close(c)

Next == (\E c \in Clients : Receive(c) \/ OpenFails(c) \/ Handle(c)) \/ Scrape \/ Crash

Spec == Init /\ [][Next]_vars

\* Every handler runs in a thread the operating system keeps scheduling.
Fairness == \A c \in Clients : WF_vars(Handle(c))

FairSpec == Spec /\ Fairness

-----------------------------------------------------------------------------
(* Properties                                                               *)

\* Every variable holds what SQLite or a handler can put there, and a handler is
\* idle exactly when it has no request.
TypeOK ==
  /\ db \in Image
  /\ writer \in Clients \cup {None}
  /\ work \in [Clients -> Image \cup {None}]
  /\ jobs \in Catalogue
  /\ pc \in [Clients -> Steps]
  /\ req \in [Clients -> Requests \cup {None}]
  /\ snap \in [Clients -> Image \cup {None}]
  /\ ans \in [Clients -> Answer]
  /\ applied \in [Clients -> BOOLEAN]
  /\ \A c \in Clients : pc[c] = "idle" <=> req[c] = None

Images == {db} \cup {work[c] : c \in Clients} \cup {snap[c] : c \in Clients}

\* No image anyone can read or commit holds an item of a watchlist that is gone,
\* whatever deletes, adds and re-created ids interleave (ON DELETE CASCADE and
\* the foreign key that decides the race of add_job with delete_watchlist).
NoOrphanItems ==
  \A d \in Images \ {None} : \A p \in d.items : p[1] \in Existing(d)

\* No two watchlists of an image have names equal under NOCASE, although no
\* handler looks before it writes and renames race with creates.
NamesUnique ==
  \A d \in Images \ {None} : \A i, k \in Existing(d) :
    Fold[d.lists[i].name] = Fold[d.lists[k].name] => i = k

\* The lock belongs to a handler between its statement and its commit or close,
\* and to nobody once that handler has answered: no error path leaks it.
LockHeldOnlyByOpenWrite ==
  /\ \A c \in Clients : pc[c] = "commit" => writer = c
  /\ \A c \in Clients : writer = c => pc[c] \in {"commit", "close"}
  /\ \A c \in Clients : writer = c <=> work[c] # None

\* A handler about to commit carries its own change to what is committed now,
\* and no change of anybody else's is lost: rows other than the one it names,
\* and their items, are the committed ones.
NoLostUpdate ==
  \A c \in Clients : pc[c] = "commit" =>
    LET touched == IF req[c].kind = "create" THEN ans[c].id ELSE req[c].id IN
    /\ \A i \in Ids \ {touched} : /\ work[c].lists[i] = db.lists[i]
                                  /\ ItemsOf(work[c], i) = ItemsOf(db, i)
    /\ req[c].kind \in {"create", "put", "patch"} => work[c].items = db.items
    /\ req[c].kind \in {"add", "remove"} => work[c].lists = db.lists

\* The answer of a request that writes tells the client whether its change was
\* made: a success is never sent before the commit, and a refusal is never sent
\* after one, with two exceptions: the 404 of a PUT or PATCH that finds its row
\* gone when it reads it again, and the 500 of an added job whose posted_at is no
\* date.  So a 409 and a 503 always mean that nothing was done.  (A disk that fails
\* under the second read is not modelled.)
AnswerMatchesEffect ==
  \A c \in Clients :
    /\ pc[c] = "answer" /\ req[c].kind \notin {"list", "get", "items"} => applied[c]
    /\ pc[c] = "close" /\ applied[c] =>
         \/ /\ req[c].kind \in {"put", "patch"}
            /\ ans[c].status = "watchlist_not_found"
         \/ req[c].kind = "add" /\ ans[c].status = "internal_error"

\* A 409 has a cause that is still there while the lock is held: the name is
\* taken by another watchlist or the item is already on the list; the exception
\* is a PATCH that sets the name to null.
ConflictHasCause ==
  \A c \in Clients :
    pc[c] = "close" /\ ans[c].status = "duplicate" =>
      LET r == req[c] IN
      \/ r.kind = "add" /\ <<r.id, r.job>> \in db.items
      \/ r.kind = "patch" /\ r.name = None
      \/ /\ r.name \in Names
         /\ \E k \in Existing(db) : /\ Fold[db.lists[k].name] = Fold[r.name]
                                   /\ r.kind # "create" => k # r.id

\* The literal 0 the INSERT returns as item_count is true although ids are
\* reused: a new watchlist never inherits the items of an earlier one.
NewListIsEmpty ==
  \A c \in Clients :
    pc[c] = "commit" /\ req[c].kind = "create" =>
      /\ ItemsOf(work[c], ans[c].id) = {}
      /\ ans[c].id \notin Existing(db)

\* The rows and the total of a listing were read from one image, and a page of
\* items describes a watchlist that exists in the image it is read from: a
\* concurrent DELETE cannot turn its 404 into an empty 200.
PageIsOneSnapshot ==
  \A c \in Clients :
    /\ pc[c] \in {"page", "count"} /\ req[c].kind = "items"
         => req[c].id \in Existing(View(c))
    /\ pc[c] \in {"join", "answer"} /\ req[c].kind \in {"list", "items"}
         => ans[c].count = Cardinality(ans[c].page)

\* Only a commit changes app.db: no refusal, time-out, teardown or crash does,
\* and the change is one handler's.
OnlyCommitsChange ==
  [][db' # db => \E c \in Clients : /\ pc[c] = "commit" /\ pc'[c] # "idle"
                                    /\ \A o \in Clients \ {c} : pc'[o] = pc[o]]_vars

\* Every request is answered, or dropped by a crash: a handler neither waits for
\* the write lock for ever nor keeps it.
EveryRequestEnds == \A c \in Clients : pc[c] # "idle" ~> pc[c] = "idle"

-----------------------------------------------------------------------------
(* What the documents say and the program does not do                       *)

\* A 404 is for "a watchlist id [that] was well-formed but matched no row"
\* (errors.py:59), so the request changed nothing.
NotFoundHasNoEffect ==
  \A c \in Clients :
    pc[c] = "close" /\ ans[c].status = "watchlist_not_found" => ~applied[c]

\* "Narrow: only the name's UNIQUE constraint should become a 409"
\* (watchlist_repository.py:71).
ConflictOnlyFromUnique ==
  \A c \in Clients :
    pc[c] = "close" /\ ans[c].status = "duplicate"
      /\ req[c].kind \in {"create", "put", "patch"}
    => req[c].name \in Names /\ NameTaken(db, req[c].name, 0)

=============================================================================
