--------------------------- MODULE WatchlistRetry ---------------------------
(***************************************************************************)
(* What becomes of a write whose answer the client does not get: it is     *)
(* sent again, while the first attempt may be done, still waiting for the  *)
(* write lock, or gone with the process.  The client's timeout does not    *)
(* reach the server: a handler in the thread pool goes on.                 *)
(*                                                                         *)
(* app.db is the sequence of its commits.  A process that dies loses none  *)
(* of them; a power loss may, because synchronous=NORMAL syncs the WAL at  *)
(* checkpoints only.  Each commit is one step: WatchlistStore shows how a  *)
(* handler comes to it.  Items and descriptions are left out.              *)
(***************************************************************************)
EXTENDS Integers, FiniteSets, Sequences

CONSTANTS
  Clients,
  Names,        \* watchlist names, told apart by the collation
  MaxRequests,  \* bound: requests per client
  MaxTries,     \* bound: attempts per request
  MaxCommits,   \* bound: length of the log
  MaxClock,     \* bound: clock readings
  None

ASSUME BoundsAssumption ==
  {MaxRequests, MaxTries, MaxCommits, MaxClock} \subseteq Nat \ {0}
ASSUME NoneAssumption == None \notin Nat

VARIABLES
  log,      \* the commits: the image each left, whose it was, what was acknowledged
            \* when it was sent, its updated_at, and the time it was made
  synced,   \* how many of them the last checkpoint made durable
  clock,
  started,  \* the clock when the process started
  flight,   \* the attempts the service has, or whose answers are on their way
  request,  \* what each client is trying to do, or None
  serial,   \* how many requests each client has made
  tries,    \* how often it has sent the present one
  acked     \* the commits acknowledged to a client and not lost with the power

vars == <<log, synced, clock, started, flight, request, serial, tries, acked>>

Image == log[Len(log)].image

\* The identity of a commit.
Id(e) == <<e.client, e.serial, e.try>>

-----------------------------------------------------------------------------
(* What a write does to the image                                           *)

\* Faulty: no UNIQUE on the name.
NameNeverTaken(image, name, id) == FALSE

NameTaken(image, name, id) == \E i \in DOMAIN image \ {id} : image[i].name = name

\* INTEGER PRIMARY KEY without AUTOINCREMENT: one above the highest in use.
IsNextId(image, id) ==
  /\ \A i \in DOMAIN image : i < id
  /\ id = 1 \/ id - 1 \in DOMAIN image

With(image, id, row) ==
  [i \in DOMAIN image \cup {id} |-> IF i = id THEN row ELSE image[i]]

\* The images attempt a may leave; none when it is refused with 404 or 409.
Effects(a) ==
  LET r == a.request IN
  CASE r.kind = "POST" /\ ~NameTaken(Image, r.name, None) ->
         {With(Image, i, [name |-> r.name, birth |-> Id(a)]) :
            i \in {i \in 1..MaxCommits + 1 : IsNextId(Image, i)}}
    [] r.kind = "PUT" /\ r.id \in DOMAIN Image /\ ~NameTaken(Image, r.name, r.id) ->
         {[Image EXCEPT ![r.id].name = r.name]}
    [] r.kind = "DELETE" /\ r.id \in DOMAIN Image ->
         {[i \in DOMAIN Image \ {r.id} |-> Image[i]]}
    [] OTHER -> {}

-----------------------------------------------------------------------------
(* The clients                                                              *)

Attempt(c, r, s, n) ==
  [client |-> c, serial |-> s, try |-> n, request |-> r, known |-> acked,
   stamp |-> 0, status |-> "sent"]

\* What a client may want: a list of a name, or something of a list that exists,
\* which it means by its identity and names by its id.
Wishes ==
  {[kind |-> "POST", name |-> n, id |-> None, meant |-> None] : n \in Names}
  \cup {[kind |-> "PUT", name |-> n, id |-> i, meant |-> Image[i].birth] :
          n \in Names, i \in DOMAIN Image}
  \cup {[kind |-> "DELETE", name |-> None, id |-> i, meant |-> Image[i].birth] :
          i \in DOMAIN Image}

Send(c) ==
  /\ request[c] = None /\ serial[c] < MaxRequests
  /\ \E r \in Wishes :
       /\ request' = [request EXCEPT ![c] = r]
       /\ flight' = flight \cup {Attempt(c, r, serial[c] + 1, 1)}
  /\ serial' = [serial EXCEPT ![c] = @ + 1]
  /\ tries' = [tries EXCEPT ![c] = 1]
  /\ UNCHANGED <<log, synced, clock, started, acked>>

\* The client's timeout, or a connection that broke: the same once more.  It does
\* not listen to the attempts before; those at the service go on.
SendAgain(c) ==
  /\ request[c] # None /\ tries[c] < MaxTries
  /\ flight' = {a \in flight : a.client # c \/ a.status \in {"sent", "waiting"}}
                \cup {Attempt(c, request[c], serial[c], tries[c] + 1)}
  /\ tries' = [tries EXCEPT ![c] = @ + 1]
  /\ UNCHANGED <<log, synced, clock, started, request, serial, acked>>

-----------------------------------------------------------------------------
(* The service                                                              *)

Listening(a) == a.serial = serial[a.client] /\ a.try = tries[a.client]

\* The handler returns; there may be nobody left to answer.
Finish(a, status) ==
  flight' = (flight \ {a})
            \cup (IF Listening(a) THEN {[a EXCEPT !.status = status]} ELSE {})

\* Faulty: a time read once, when the module was imported.
NowAtStart == started

Now == clock

\* The handler reads the clock, and then waits for the write lock.
Enter(a) ==
  /\ a.status = "sent"
  /\ flight' = (flight \ {a}) \cup {[a EXCEPT !.stamp = Now, !.status = "waiting"]}
  /\ UNCHANGED <<log, synced, clock, started, request, serial, tries, acked>>

\* The statement and its commit.
Commit(a) ==
  /\ a.status = "waiting" /\ Len(log) < MaxCommits
  /\ \E image \in Effects(a) :
       log' = Append(log, [image |-> image, client |-> a.client, serial |-> a.serial,
                           try |-> a.try, request |-> a.request, known |-> a.known,
                           stamp |-> a.stamp, when |-> clock])
  /\ Finish(a, "ok")
  /\ UNCHANGED <<synced, clock, started, request, serial, tries, acked>>

\* 404, 409, or 503 when the busy timeout is over.
Refuse(a) ==
  /\ a.status = "waiting"
  /\ Finish(a, "refused")
  /\ UNCHANGED <<log, synced, clock, started, request, serial, tries, acked>>

\* The answer arrives.  One that is lost is one that never does.
Deliver(a) ==
  /\ a.status \in {"ok", "refused"}
  /\ flight' = flight \ {a}
  /\ request' = [request EXCEPT ![a.client] = None]
  /\ tries' = [tries EXCEPT ![a.client] = 0]
  /\ acked' = IF a.status = "ok" THEN acked \cup {Id(a)} ELSE acked
  /\ UNCHANGED <<log, synced, clock, started, serial>>

-----------------------------------------------------------------------------
(* Time, and what may go wrong                                              *)

Tick ==
  /\ clock < MaxClock
  /\ clock' = clock + 1
  /\ UNCHANGED <<log, synced, started, flight, request, serial, tries, acked>>

Checkpoint ==
  /\ synced' = Len(log)
  /\ UNCHANGED <<log, clock, started, flight, request, serial, tries, acked>>

\* The process dies and starts again: the WAL is in the page cache.
Crash ==
  /\ flight' = {} /\ started' = clock
  /\ UNCHANGED <<log, synced, clock, request, serial, tries, acked>>

Restrict(kept) == acked \cap {Id(kept[i]) : i \in 1..Len(kept)}

\* Faulty: pages of later commits are on disk and those of an earlier one are not.
PowerLossOfAny ==
  /\ flight' = {} /\ started' = clock
  /\ \E gone \in synced + 1..Len(log) :
       LET kept == SubSeq(log, 1, gone - 1) \o SubSeq(log, gone + 1, Len(log))
       IN log' = kept /\ acked' = Restrict(kept)
  /\ UNCHANGED <<synced, clock, request, serial, tries>>

\* The WAL is replayed up to the first frame that is not whole.
PowerLoss ==
  /\ flight' = {} /\ started' = clock
  /\ \E n \in synced..Len(log) :
       LET kept == SubSeq(log, 1, n) IN log' = kept /\ acked' = Restrict(kept)
  /\ UNCHANGED <<synced, clock, request, serial, tries>>

-----------------------------------------------------------------------------

\* One watchlist is there, and the process has just started.
Init ==
  /\ \E n \in Names :
       log = <<[image |-> <<[name |-> n, birth |-> None]>>,
                client |-> None, serial |-> 0, try |-> 0, request |-> None, known |-> {},
                stamp |-> 0, when |-> 0]>>
  /\ synced = 1 /\ clock = 0 /\ started = 0
  /\ flight = {} /\ acked = {}
  /\ request = [c \in Clients |-> None]
  /\ serial = [c \in Clients |-> 0]
  /\ tries = [c \in Clients |-> 0]

Client(c) == Send(c) \/ SendAgain(c)
Service(a) == Enter(a) \/ Commit(a) \/ Refuse(a) \/ Deliver(a)
Faults == Crash \/ PowerLoss

Next ==
  \/ \E c \in Clients : Client(c)
  \/ \E a \in flight : Service(a)
  \/ Tick \/ Checkpoint \/ Faults

Spec == Init /\ [][Next]_vars

-----------------------------------------------------------------------------
(* Properties                                                               *)

SameRequest(e, f) == e.client = f.client /\ e.serial = f.serial

\* Sending a POST, a PUT or a DELETE once more, with no other commit in between,
\* changes nothing but updated_at, also when the first attempt commits last.
QuietRetryIsNoop ==
  \A i \in 2..Len(log) :
    SameRequest(log[i - 1], log[i]) =>
      log[i].image = log[i - 1].image

\* A commit that survives a power loss does so with everything its client had been
\* told before: no list outlives the acknowledged deletion it was named after.
LossKeepsCauses ==
  \A i \in 1..Len(log) : \A k \in log[i].known :
    \E j \in 1..i : Id(log[j]) = k

\* updated_at orders what happened one after the other: a write is not stamped
\* before the commit of one that was acknowledged when it was sent.  Only requests
\* that overlapped may be stamped against the order of their commits.
StampsFollowAcks ==
  \A i, j \in 1..Len(log) : Id(log[i]) \in log[j].known => log[i].when <= log[j].stamp

\* routers/watchlists.py: a client that retries a PUT after a timeout "cannot do
\* damage"; docs/api.md: repeating a DELETE "does not change the effect".  What a
\* repeated request changes is the watchlist its client meant, under whatever id.
RetryHitsItsTarget ==
  \A i \in 2..Len(log) :
    log[i].request.kind \in {"PUT", "DELETE"} /\ log[i].try > 1 =>
      log[i - 1].image[log[i].request.id].birth = log[i].request.meant

=============================================================================
