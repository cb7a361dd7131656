------------------------------ MODULE Pipeline ------------------------------
(***************************************************************************)
(* What every request passes on its way to a handler and back: the         *)
(* _observe middleware, routing, the dependencies (the API key, then a     *)
(* connection to app.db, then one to jobs.db), validation, the handler,    *)
(* and the exception handlers that turn what was raised into a problem     *)
(* document.                                                               *)
(*                                                                         *)
(* Steps are taken in two places.  The event loop runs the middleware,     *)
(* validation, the exception handlers and GET /health.  Everything that is *)
(* a plain def runs in a thread of the pool, which has a fixed number of   *)
(* them and is first come, first served: each dependency and each other    *)
(* endpoint waits for a thread and gives it back when it returns.  Closing *)
(* a dependency's connection does not wait for a thread of the pool.       *)
(***************************************************************************)
EXTENDS Integers, FiniteSets, Sequences, Functions

CONSTANTS
  Slots,       \* bound: the requests that may be in progress
  Threads,     \* threads of the pool
  Inputs,      \* the requests clients send
  KeyIsSet,    \* JOBSAPI_API_KEY is configured
  None

\* The endpoints by what they need: jobs.db only, app.db only, or both; to read,
\* or to read and write.  The last two are not endpoints.
Routes == {"health", "jobs", "lists", "items", "write", "add", "no_route", "no_method"}
Guarded  == {"lists", "items", "write", "add"}
UsesApp  == Guarded
UsesJobs == {"jobs", "items", "add"}
Writes   == {"write", "add"}

Input == [route : Routes, key : {"valid", "invalid", "not_ascii"},
          body : {"json", "malformed"}, params : {"valid", "invalid"}]

\* SQLite's result codes as classify() tells them apart.
Codes == {"busy", "readonly_rollback", "other"}

\* The exceptions a handler is registered for, and all the others.
Exceptions == {"HTTP404", "HTTP405", "RequestValidationError", "ApiKeyRequired",
               "NotFound", "DuplicateResource", "DatabaseUnavailable",
               "DatabaseWedged", "sqlite3.Error", "Exception"}

ASSUME ThreadsAssumption == Threads \in Nat \ {0}
ASSUME InputsAssumption == Inputs \subseteq Input
ASSUME KeyAssumption == KeyIsSet \in BOOLEAN
ASSUME NoneAssumption == None \notin Slots \cup Input \cup Exceptions \cup Codes

VARIABLES
  pc,      \* the next step of each request
  input,   \* what the client sent
  todo,    \* the dependencies still to be solved
  queue,   \* the requests that wait for a thread
  pool,    \* the requests that hold one
  conns,   \* the databases each request has a connection to
  lock,    \* the request whose connection holds the write lock of app.db
  raised,  \* the exception that left the handler or a dependency
  code,    \* the result code of the SQLite fault behind it
  context, \* request_id_var, as the request's own context sees it
  answer,  \* the answer sent or about to be
  log      \* the log lines written about the request

vars == <<pc, input, todo, queue, pool, conns, lock, raised, code, context,
          answer, log>>

Steps == {"idle", "received", "dependency", "validate", "handler", "commit",
          "raised", "caught", "respond", "sent"}

\* The codes clients branch on; the two of a 422 are not told apart.
ProblemCodes == {"VALIDATION_FAILED", "NOT_FOUND", "DATABASE_BUSY", "DATABASE_UNAVAILABLE",
                 "INTERNAL_ERROR", "DUPLICATE_RESOURCE", "UNAUTHORIZED"}

\* The id is a fresh uuid4, so a request stands for its own; no code is a success.
Answer == [status : {200, 401, 404, 405, 409, 422, 500, 503}, code : ProblemCodes \cup {None},
           retry : BOOLEAN, id : Slots \cup {None}, tagged : BOOLEAN]

Line == [kind : {"access", "unhandled"}, id : Slots \cup {None}, status : Nat]

-----------------------------------------------------------------------------
(* Exceptions and their answers                                             *)

\* Faulty: every code SQLite has for a file it cannot read now is a lock.
ClassifyAsBusy(c) == IF c = "other" THEN "sqlite3.Error" ELSE "DatabaseUnavailable"

Classify(c) == CASE c = "busy" -> "DatabaseUnavailable"
                 [] c = "readonly_rollback" -> "DatabaseWedged"
                 [] OTHER -> "sqlite3.Error"

\* request_id(request): _observe has run before anything can raise.
RequestId(r) == r

Problem(r, status, c, retry) ==
  [status |-> status, code |-> c, retry |-> retry, id |-> RequestId(r), tagged |-> FALSE]

\* The registered handlers.  An sqlite3.Error that classify() does not know ends
\* in _unhandled as well, called by _sqlite.
Registered(r, e) ==
  CASE e = "HTTP404"                -> Problem(r, 404, "NOT_FOUND", FALSE)
    [] e = "HTTP405"                -> Problem(r, 405, "INTERNAL_ERROR", FALSE)
    [] e = "RequestValidationError" -> Problem(r, 422, "VALIDATION_FAILED", FALSE)
    [] e = "ApiKeyRequired"         -> Problem(r, 401, "UNAUTHORIZED", FALSE)
    [] e = "NotFound"               -> Problem(r, 404, "NOT_FOUND", FALSE)
    [] e = "DuplicateResource"      -> Problem(r, 409, "DUPLICATE_RESOURCE", FALSE)
    [] e = "DatabaseUnavailable"    -> Problem(r, 503, "DATABASE_BUSY", TRUE)
    [] e = "DatabaseWedged"         -> Problem(r, 503, "DATABASE_UNAVAILABLE", FALSE)
    [] OTHER                        -> Problem(r, 500, "INTERNAL_ERROR", FALSE)

\* The exception as the handlers see it: _sqlite classifies what get_app_conn
\* and the statements raise unclassified.
Effective(r) == IF raised[r] = "sqlite3.Error" THEN Classify(code[r]) ELSE raised[r]

\* Faulty: the formatter's ContextVar is trusted to name the request.
LineIdFromContext(r, ctx) == ctx

\* The formatter writes the ContextVar first and `extra` over it.
LineId(r, ctx) == RequestId(r)

-----------------------------------------------------------------------------
(* The thread pool                                                          *)

If(condition, dependency) == IF condition THEN <<dependency>> ELSE <<>>

\* Faulty: the key is a dependency of each endpoint, after its connections.
KeyLast(i) ==
  If(i.route \in UsesApp, "open_app") \o If(i.route \in UsesJobs, "open_jobs")
    \o If(i.route \in Guarded, "key")

\* The dependencies of a router come before those of the endpoint's signature.
Dependencies(i) ==
  If(i.route \in Guarded, "key") \o If(i.route \in UsesApp, "open_app")
    \o If(i.route \in UsesJobs, "open_jobs")

Goto(r, step) == pc' = [pc EXCEPT ![r] = step]

\* The request leaves its thread, if it holds one, and queues for its next job.
Submit(r, step) ==
  /\ Goto(r, step)
  /\ pool' = pool \ {r}
  /\ queue' = Append(queue, r)

\* The next dependency, or validation when all are solved.
Solve(r, deps) ==
  /\ todo' = [todo EXCEPT ![r] = deps]
  /\ \/ deps # <<>> /\ Submit(r, "dependency")
     \/ /\ deps = <<>>
        /\ Goto(r, "validate")
        /\ pool' = pool \ {r}
        /\ UNCHANGED queue

StartJob ==
  /\ queue # <<>>
  /\ Cardinality(pool) < Threads
  /\ pool' = pool \cup {Head(queue)}
  /\ queue' = Tail(queue)
  /\ UNCHANGED <<pc, input, todo, conns, lock, raised, code, context, answer, log>>

Solving(r, d) == pc[r] = "dependency" /\ r \in pool /\ Head(todo[r]) = d

\* Faulty: a job that raises never gives its thread back.
RaiseInThread(r, e, c) ==
  /\ Goto(r, "raised")
  /\ raised' = [raised EXCEPT ![r] = e]
  /\ code' = [code EXCEPT ![r] = c]
  /\ UNCHANGED <<input, todo, queue, pool, conns, context, answer, log>>

\* Faulty: closing a connection is one more job for the pool.
RaiseAndQueue(r, e, c) ==
  /\ Submit(r, "raised")
  /\ raised' = [raised EXCEPT ![r] = e]
  /\ code' = [code EXCEPT ![r] = c]
  /\ UNCHANGED <<input, todo, conns, context, answer, log>>

\* An exception leaves a step; the thread is free again.
Raise(r, e, c) ==
  /\ Goto(r, "raised")
  /\ pool' = pool \ {r}
  /\ raised' = [raised EXCEPT ![r] = e]
  /\ code' = [code EXCEPT ![r] = c]
  /\ UNCHANGED <<input, todo, queue, conns, context, answer, log>>

\* The endpoint returned.
Return(r) ==
  /\ Goto(r, "respond")
  /\ pool' = pool \ {r}
  /\ answer' = [answer EXCEPT ![r] = [Problem(r, 200, None, FALSE) EXCEPT !.id = None]]
  /\ UNCHANGED <<input, todo, queue, conns, raised, code, context, log>>

-----------------------------------------------------------------------------
(* On the way in                                                            *)

\* _observe takes an id and puts it into the request's context.
Receive(r) ==
  /\ pc[r] = "idle"
  /\ \E i \in Inputs : input' = [input EXCEPT ![r] = i]
  /\ context' = [context EXCEPT ![r] = RequestId(r)]
  /\ Goto(r, "received")
  /\ UNCHANGED <<todo, queue, pool, conns, lock, raised, code, answer, log>>

\* The router, and the body, which is parsed before the dependencies.
Route(r) ==
  /\ pc[r] = "received"
  /\ \/ input[r].route = "no_route" /\ Raise(r, "HTTP404", None)
     \/ input[r].route = "no_method" /\ Raise(r, "HTTP405", None)
     \/ /\ input[r].route \in Writes /\ input[r].body = "malformed"
        /\ Raise(r, "RequestValidationError", None)
     \/ /\ input[r].route \notin {"no_route", "no_method"}
        /\ ~(input[r].route \in Writes /\ input[r].body = "malformed")
        /\ Solve(r, Dependencies(input[r]))
        /\ UNCHANGED <<input, conns, raised, code, context, answer, log>>
  /\ UNCHANGED lock

\* compare_digest refuses strings that are not ASCII.
RequireApiKey(r) ==
  /\ Solving(r, "key")
  /\ LET key == IF KeyIsSet THEN input[r].key ELSE "valid" IN
     \/ key = "invalid" /\ Raise(r, "ApiKeyRequired", None)
     \/ key = "not_ascii" /\ Raise(r, "Exception", None)
     \/ /\ key = "valid"
        /\ Solve(r, Tail(todo[r]))
        /\ UNCHANGED <<input, conns, raised, code, context, answer, log>>
  /\ UNCHANGED lock

Connected(r, file) ==
  /\ conns' = [conns EXCEPT ![r] = @ \cup {file}]
  /\ Solve(r, Tail(todo[r]))
  /\ UNCHANGED <<input, raised, code, context, answer, log>>

GetAppConn(r) ==
  /\ Solving(r, "open_app")
  /\ \/ Connected(r, "app")
     \/ \E c \in {"busy", "other"} : Raise(r, "sqlite3.Error", c)
  /\ UNCHANGED lock

\* get_conn classifies on the spot.
GetConn(r) ==
  /\ Solving(r, "open_jobs")
  /\ \/ Connected(r, "jobs")
     \/ \E c \in Codes : Raise(r, Classify(c), c)
  /\ UNCHANGED lock

\* Faulty: GET /health as a plain def.
OnLoopNever == {}

\* async def endpoints.
OnLoop == {"health"}

\* Path, query and body are validated when the dependencies are solved.
Validate(r) ==
  /\ pc[r] = "validate"
  /\ \/ input[r].params = "invalid" /\ Raise(r, "RequestValidationError", None)
     \/ input[r].params = "valid" /\ input[r].route \in OnLoop /\ Return(r)
     \/ /\ input[r].params = "valid" /\ input[r].route \notin OnLoop
        /\ Submit(r, "handler")
        /\ UNCHANGED <<input, todo, conns, raised, code, context, answer, log>>
  /\ UNCHANGED lock

-----------------------------------------------------------------------------
(* The handler                                                              *)

Handling(r) == pc[r] = "handler" /\ r \in pool

\* What may happen before, or instead of, the write: a row is missing, SQLite
\* fails, or something is raised that no handler is registered for (a parameter
\* that does not fit into 64 bits, or, where nothing is written, a row the response
\* model does not accept).
Fault(r) ==
  /\ Handling(r)
  /\ \/ /\ input[r].route # "write"
        /\ \/ Raise(r, "NotFound", None)
           \/ Raise(r, "sqlite3.Error", "busy")
     \/ input[r].route \in UsesJobs /\ Raise(r, "sqlite3.Error", "readonly_rollback")
     \/ Raise(r, "sqlite3.Error", "other")
     \/ Raise(r, "Exception", None)
  /\ UNCHANGED lock

ReadOnly(r) ==
  /\ Handling(r)
  /\ input[r].route \notin Writes
  /\ Return(r)
  /\ UNCHANGED lock

BeginWrite(r) ==
  /\ Handling(r)
  /\ input[r].route \in Writes
  /\ lock = None
  /\ lock' = r
  /\ Goto(r, "commit")
  /\ UNCHANGED <<input, todo, queue, pool, conns, raised, code, context, answer, log>>

\* Faulty: no busy timeout.
WaitForEver(r) == Handling(r) /\ lock # None /\ UNCHANGED vars

\* The busy timeout, spent in a thread of the pool.
LockTimeout(r) ==
  /\ Handling(r)
  /\ input[r].route \in Writes
  /\ lock # None
  /\ Raise(r, "sqlite3.Error", "busy")
  /\ UNCHANGED lock

\* The statement or the commit was refused: the transaction is open, the lock kept.
RefuseWrite(r) ==
  /\ pc[r] = "commit"
  /\ \/ \E e \in {"NotFound", "DuplicateResource"} : Raise(r, e, None)
     \/ Raise(r, "sqlite3.Error", "other")
  /\ UNCHANGED lock

\* The commit gives the lock back.  What follows it may still raise: PUT and PATCH
\* read the row again and may not find it, and an added job may have a row the
\* response model does not accept.
EndWrite(r) ==
  /\ pc[r] = "commit"
  /\ lock' = None
  /\ \/ Return(r)
     \/ input[r].route = "write" /\ Raise(r, "NotFound", None)
     \/ input[r].route = "add" /\ Raise(r, "Exception", None)

-----------------------------------------------------------------------------
(* On the way out                                                           *)

\* Faulty: the generator closes its connection after the yield, without finally.
CloseOnSuccess(r) ==
  IF raised[r] = None THEN conns' = [conns EXCEPT ![r] = {}] /\ UNCHANGED lock
                      ELSE UNCHANGED <<conns, lock>>

\* The finally of get_conn and get_app_conn; a transaction left open ends.
CloseAll(r) ==
  /\ conns' = [conns EXCEPT ![r] = {}]
  /\ lock' = IF lock = r THEN None ELSE lock

\* The exit stack of the request is unwound before an exception is answered.
Unwind(r) ==
  /\ pc[r] = "raised"
  /\ CloseAll(r)
  /\ Goto(r, "caught")
  /\ UNCHANGED <<input, todo, queue, pool, raised, code, context, answer, log>>

Handled(r) == pc[r] = "caught" /\ raised[r] # "Exception"

Unhandled(r, ctx) == [kind |-> "unhandled", id |-> LineId(r, ctx), status |-> 500]

\* A registered handler answers, inside _observe.
Handle(r) ==
  /\ Handled(r)
  /\ answer' = [answer EXCEPT ![r] = Registered(r, Effective(r))]
  /\ log' = IF Effective(r) = "sqlite3.Error"
            THEN [log EXCEPT ![r] = @ \cup {Unhandled(r, context[r])}]
            ELSE log
  /\ Goto(r, "respond")
  /\ UNCHANGED <<input, todo, queue, pool, conns, lock, raised, code, context>>

\* Everything else passes through _observe, whose finally resets the ContextVar,
\* and is answered outside of it.
LastResort(r) ==
  /\ pc[r] = "caught" /\ ~Handled(r)
  /\ context' = [context EXCEPT ![r] = None]
  /\ log' = [log EXCEPT ![r] = @ \cup {Unhandled(r, context'[r])}]
  /\ answer' = [answer EXCEPT ![r] = Registered(r, "Exception")]
  /\ Goto(r, "sent")
  /\ UNCHANGED <<input, todo, queue, pool, conns, lock, raised, code>>

\* _observe gets the response: headers, the access line, and it leaves.
Observe(r) ==
  /\ pc[r] = "respond"
  /\ context' = [context EXCEPT ![r] = None]
  /\ answer' = [answer EXCEPT ![r].tagged = TRUE]
  /\ log' = [log EXCEPT ![r] = @ \cup
               {[kind |-> "access", id |-> LineId(r, context'[r]),
                 status |-> answer[r].status]}]
  /\ Goto(r, "sent")
  /\ UNCHANGED <<input, todo, queue, pool, conns, lock, raised, code>>

\* After a response the connections close, and the slot is free.
Finish(r) ==
  /\ pc[r] = "sent"
  /\ CloseAll(r)
  /\ Goto(r, "idle")
  /\ input' = [input EXCEPT ![r] = None]
  /\ todo' = [todo EXCEPT ![r] = <<>>]
  /\ raised' = [raised EXCEPT ![r] = None]
  /\ code' = [code EXCEPT ![r] = None]
  /\ answer' = [answer EXCEPT ![r] = None]
  /\ log' = [log EXCEPT ![r] = {}]
  /\ UNCHANGED <<queue, pool, context>>

-----------------------------------------------------------------------------

Init ==
  /\ pc = [r \in Slots |-> "idle"]
  /\ input = [r \in Slots |-> None]
  /\ todo = [r \in Slots |-> <<>>]
  /\ queue = <<>>
  /\ pool = {}
  /\ conns = [r \in Slots |-> {}]
  /\ lock = None
  /\ raised = [r \in Slots |-> None]
  /\ code = [r \in Slots |-> None]
  /\ context = [r \in Slots |-> None]
  /\ answer = [r \in Slots |-> None]
  /\ log = [r \in Slots |-> {}]

\* What the event loop does for a request, and what a thread does.
LoopStep(r) == \/ Route(r) \/ Validate(r) \/ Unwind(r) \/ Handle(r)
               \/ LastResort(r) \/ Observe(r) \/ Finish(r)
ThreadStep(r) == \/ RequireApiKey(r) \/ GetAppConn(r) \/ GetConn(r) \/ ReadOnly(r)
                 \/ BeginWrite(r) \/ LockTimeout(r) \/ RefuseWrite(r) \/ EndWrite(r)

Next == \/ \E r \in Slots : Receive(r) \/ LoopStep(r) \/ ThreadStep(r) \/ Fault(r)
        \/ StartJob

Spec == Init /\ [][Next]_vars

\* The event loop runs every ready callback; no thread is assumed to advance.
LoopFairness == \A r \in Slots : WF_vars(LoopStep(r))

LoopSpec == Spec /\ LoopFairness

\* The operating system also schedules the threads; no fault is assumed to occur.
FairSpec == LoopSpec /\ WF_vars(StartJob) /\ \A r \in Slots : WF_vars(ThreadStep(r))

-----------------------------------------------------------------------------
(* Properties                                                               *)

\* Every variable holds what the program can put there; a request is in a thread
\* of the pool, or waits for one, exactly in the steps that are plain defs, and
\* the pool never has more than its threads.
TypeOK ==
  /\ pc \in [Slots -> Steps]
  /\ input \in [Slots -> Inputs \cup {None}]
  /\ \A r \in Slots : todo[r] \in Seq({"key", "open_app", "open_jobs"})
  /\ queue \in Seq(Slots) /\ IsInjective(queue)
  /\ pool \subseteq Slots /\ Cardinality(pool) <= Threads
  /\ conns \in [Slots -> SUBSET {"app", "jobs"}]
  /\ lock \in Slots \cup {None}
  /\ raised \in [Slots -> Exceptions \cup {None}]
  /\ code \in [Slots -> Codes \cup {None}]
  /\ context \in [Slots -> Slots \cup {None}]
  /\ \A r \in Slots : answer[r] = None \/ answer[r] \in Answer
  /\ \A r \in Slots : log[r] \subseteq Line
  /\ pool \cap Range(queue) = {}
  /\ \A r \in Slots :
       r \in pool \cup Range(queue) <=> pc[r] \in {"dependency", "handler", "commit"}

\* Behind a configured key nothing is looked at before the key: a request without
\* a valid one opens no database, takes no lock and cannot tell from its answer
\* whether a watchlist exists, a database is busy or a parameter is valid.
KeyBeforeData ==
  \A r \in Slots :
    input[r] # None /\ KeyIsSet =>
      (input[r].route \in Guarded /\ input[r].key # "valid" =>
         /\ conns[r] = {} /\ lock # r
         /\ answer[r] # None =>
              \/ answer[r].status = 401
              \/ answer[r].status = 422 /\ input[r].body = "malformed"
              \/ answer[r].status = 500 /\ input[r].key = "not_ascii")

\* No connection and no lock outlives its request, also when the second database
\* cannot be opened, validation fails after both are open, or the handler raises
\* with a transaction open: a failed request is answered with both closed, and a
\* successful one has given the lock back before its answer is sent.
NothingOutlivesRequest ==
  \A r \in Slots :
    /\ pc[r] \in {"idle", "received", "caught"} => conns[r] = {}
    /\ raised[r] # None /\ answer[r] # None => conns[r] = {}
    /\ lock = r => "app" \in conns[r] /\ answer[r] = None

\* The pool cannot deadlock with the write lock: whoever holds the lock needs no
\* further thread to give it back, even when every thread is taken by requests
\* that wait for that lock.
HolderNeedsNoThread ==
  lock # None => /\ lock \notin Range(queue)
                 /\ pc[lock] \in {"commit", "raised"}
                 /\ pc[lock] = "commit" => lock \in pool

\* A failure can be found in the log from its answer: the body of a 500 and the
\* traceback carry the same id, also where the ContextVar has been reset by the
\* time the line is formatted, and no line carries another id or none.  Only an
\* exception no handler is registered for is answered without the headers and the
\* access line; a fault of SQLite never is, known to classify() or not.
LogJoinsAnswer ==
  \A r \in Slots :
    /\ \A l \in log[r] : l.id = r
    /\ pc[r] = "sent" =>
         /\ answer[r].status = 500 =>
              \E l \in log[r] : l.kind = "unhandled" /\ l.id = answer[r].id
         /\ \/ /\ answer[r].tagged
               /\ \E l \in log[r] : l.kind = "access" /\ l.status = answer[r].status
            \/ raised[r] = "Exception" /\ answer[r].status = 500

\* A client is told to retry exactly when what stopped its request was a lock:
\* whether it was met when a connection was opened, by either dependency, or by a
\* statement, and never for a hot journal.
RetryMeansBusy ==
  \A r \in Slots : answer[r] # None =>
    /\ answer[r].retry <=> code[r] = "busy"
    /\ answer[r].status = 503 <=> code[r] \in {"busy", "readonly_rollback"}

\* Every request is answered: neither the pool, which it may have to queue for
\* up to four times, nor the write lock keeps it for ever, also when the requests
\* that wait for the lock take every thread of the pool.
EveryRequestAnswered ==
  \A r \in Slots : pc[r] = "received" ~> pc[r] = "sent"

\* GET /health is answered as long as the event loop runs, even when no thread
\* of the pool ever comes back.
HealthNeverWaits ==
  \A r \in Slots :
    pc[r] = "received" /\ input[r].route = "health" ~> pc[r] = "sent"

=============================================================================
