---------------------- MODULE WatchlistRefinement_proofs ----------------------
(***************************************************************************)
(* The write path implements WatchlistService: for every set of handlers,  *)
(* names, jobs and requests and every MaxId.                               *)
(***************************************************************************)
EXTENDS WatchlistRefinement, WatchlistStore_proofs

Phases == [c \in Clients |-> PhaseOf(c)]
Outcomes == [c \in Clients |-> OutcomeOf(c)]

\* What each statement that changes rows makes of the committed image d, and the
\* answer it leaves: what the service promises of the commit that follows.
Performed(r, d, e, a) ==
  \/ /\ r.kind = "create" /\ ~NameTaken(d, r.name, 0)
     /\ \E i \in Ids \ Existing(d) :
          LET row == [name |-> r.name, desc |-> r.desc] IN
          /\ e = WithRow(d, i, row)
          /\ a = [Blank EXCEPT !.status = "created", !.id = i, !.row = row]
  \/ /\ r.kind \in {"put", "patch"} /\ r.id \in Existing(d) /\ a = Blank
     /\ LET row == Merged(d.lists[r.id], r) IN
        /\ row.name \in Names /\ ~NameTaken(d, row.name, r.id)
        /\ e = WithRow(d, r.id, row)
  \/ /\ r.kind = "delete" /\ r.id \in Existing(d)
     /\ e = WithoutList(d, r.id)
     /\ a = [Blank EXCEPT !.status = "no_content"]
  \/ /\ r.kind = "add" /\ r.id \in Existing(d) /\ <<r.id, r.job>> \notin d.items
     /\ e = [d EXCEPT !.items = @ \cup {<<r.id, r.job>>}]
  \/ /\ r.kind = "remove" /\ <<r.id, r.job>> \in d.items
     /\ e = [d EXCEPT !.items = @ \ {<<r.id, r.job>>}]
     /\ a = [Blank EXCEPT !.status = "no_content"]

\* What a request has built of its answer, by its step.
Built(c) ==
  /\ pc[c] \in {"idle", "job_check", "select", "gate", "page"} => ans[c] = Blank
  /\ pc[c] \in {"list_check", "write"} /\ req[c].kind # "add" => ans[c] = Blank
  /\ snap[c] # None =>
       pc[c] = "count" \/ (pc[c] = "page" /\ req[c].kind = "items")
  /\ pc[c] = "count" => ans[c] = [Blank EXCEPT !.page = Listed(c, snap[c])]
  /\ pc[c] = "commit" => Performed(req[c], db, work[c], ans[c])

\* The invariant the mapping needs.
MapInv == StoreInv /\ AnswerInv /\ \A c \in Clients : Built(c)

-----------------------------------------------------------------------------
(* The statements that write                                                *)

\* A statement that is rejected has the reason the service gives.
Refused(c) ==
  \E status \in Refusals : Reject(c, status) /\ Service!Reason(c, status)

\* A statement that changes rows is what the service promises of its commit; the
\* answer of an add is what its checks have left.
Done(c) ==
  /\ Execute(c, work'[c], ans'[c])
  /\ Performed(req[c], db, work'[c], ans'[c])
  /\ req[c].kind = "add" => ans'[c] = ans[c]

\* The service reads an image with the same words.
LEMMA SameWords ==
  /\ \A d : Service!Existing(d) = Existing(d)
  /\ \A d, n, i : Service!NameTaken(d, n, i) <=> NameTaken(d, n, i)
  BY DEF Service!Existing, Existing, Service!Ids, Ids, Service!NameTaken, NameTaken

LEMMA SameCatalogue ==
  /\ Service!Present(jobs) = Present(jobs)
  /\ Service!Servable(jobs) = Servable(jobs)
  BY DEF Service!Present, Present, Service!Servable, Servable

LEMMA SameCount ==
  ASSUME NEW S
  PROVE  Service!Cardinality(S) = Cardinality(S)
  BY DEF Service!Cardinality, Cardinality

\* Records of the service, field by field.
LEMMA Fields ==
  ASSUME NEW a, NEW b, NEW e
  PROVE  /\ [Service!Told("ok") EXCEPT !.page = a, !.count = b] =
              [Blank EXCEPT !.status = "ok", !.page = a, !.count = b]
         /\ [Service!Blank EXCEPT !.status = "ok", !.id = a, !.row = b, !.count = e] =
              [Blank EXCEPT !.status = "ok", !.id = a, !.row = b, !.count = e]
  BY DEF Service!Told, Service!Blank, Blank

LEMMA ItemsGone ==
  ASSUME NEW d, NEW lists, NEW items, NEW gone, d = [lists |-> lists, items |-> items]
  PROVE  [d EXCEPT !.items = @ \ gone] = [lists |-> lists, items |-> items \ gone]
  <1> DEFINE kept == items \ gone
  <1>1. d.items \ gone = kept
    OBVIOUS
  <1> HIDE DEF kept
  <1>2. [d EXCEPT !.items = kept] = [lists |-> lists, items |-> kept]
    OBVIOUS
  <1>3. QED BY <1>1, <1>2 DEF kept

LEMMA DoneBy ==
  ASSUME TypeOK, NEW c \in Clients, NEW image, NEW answer,
         Execute(c, image, answer), Performed(req[c], db, image, answer),
         req[c].kind = "add" => answer = ans[c]
  PROVE  Done(c)
  <1>1. work'[c] = image /\ ans'[c] = answer
    BY DEF Execute, TypeOK
  <1>2. QED BY <1>1 DEF Done

LEMMA CreateDone ==
  ASSUME TypeOK, NEW c \in Clients, CreateWatchlist(c)
  PROVE  Refused(c) \/ Done(c)
  <1> DEFINE r == req[c]
             row == [name |-> r.name, desc |-> r.desc]
  <1>1. r.kind = "create"
    BY DEF CreateWatchlist, CanWrite, At
  <1>2. CASE NameTaken(db, r.name, 0) /\ Reject(c, "duplicate")
    BY <1>1, <1>2, SameWords DEF Refused, Refusals, Service!Reason
  <1>3. ASSUME ~NameTaken(db, r.name, 0), NEW i \in Ids, IsNextId(db, i),
               Execute(c, WithRow(db, i, row),
                       [Blank EXCEPT !.status = "created", !.id = i, !.row = row])
        PROVE  Done(c)
    <2>1. i \in Ids \ Existing(db)
      BY <1>3 DEF IsNextId, Existing, Ids
    <2>2. Performed(r, db, WithRow(db, i, row),
                    [Blank EXCEPT !.status = "created", !.id = i, !.row = row])
      BY <1>1, <1>3, <2>1 DEF Performed
    <2>3. QED BY <1>1, <1>3, <2>2, DoneBy
  <1>4. QED BY <1>2, <1>3 DEF CreateWatchlist

\* PUT names every column, PATCH those it merges.
LEMMA RowDone ==
  ASSUME TypeOK, NEW c \in Clients, ReplaceWatchlist(c) \/ UpdateWatchlist(c),
         Sound(db)
  PROVE  Refused(c) \/ Done(c)
  <1> DEFINE r == req[c]
             row == Merged(db.lists[r.id], r)
  <1>1. r \in Requests /\ r.kind \in {"put", "patch"}
    BY DEF ReplaceWatchlist, UpdateWatchlist, CanWrite, At, TypeOK
  <1>2. r \in Request /\ Valid(r)
    BY <1>1, RequestAssumption
  <1>3. CASE r.id \notin Existing(db) /\ Reject(c, "watchlist_not_found")
    BY <1>1, <1>3, SameWords DEF Refused, Refusals, Service!Reason
  <1>4. CASE /\ Reject(c, "duplicate")
             /\ \/ r.name \in Names /\ NameTaken(db, r.name, r.id)
                \/ r.kind = "patch" /\ r.name = None
    BY <1>1, <1>4, SameWords DEF Refused, Refusals, Service!Reason
  <1>5. ASSUME r.id \in Existing(db), r.name # None,
               r.name \in Names => ~NameTaken(db, r.name, r.id),
               Execute(c, WithRow(db, r.id, row), Blank)
        PROVE  Done(c)
    <2>1. db.lists[r.id] \in Row
      BY <1>2, <1>5 DEF TypeOK, Image, Existing
    <2>2. row.name \in Names /\ ~NameTaken(db, row.name, r.id)
      <3>1. CASE r.name = Unset
        <4>1. row.name = db.lists[r.id].name
          BY <3>1 DEF Merged
        <4>2. ~NameTaken(db, row.name, r.id)
          BY <1>5, <4>1 DEF NameTaken, Sound, DistinctNames
        <4>3. QED BY <2>1, <4>1, <4>2 DEF Row
      <3>2. CASE r.name # Unset
        <4>1. row.name = r.name /\ r.name \in Names
          BY <1>2, <1>5, <3>2 DEF Merged, Request
        <4>2. QED BY <1>5, <4>1
      <3>3. QED BY <3>1, <3>2
    <2>3. Performed(r, db, WithRow(db, r.id, row), Blank)
      BY <1>1, <1>5, <2>2 DEF Performed
    <2>4. QED BY <1>1, <1>5, <2>3, DoneBy
  <1>6. CASE ReplaceWatchlist(c)
    <2>1. r.kind = "put" /\ r.name \in Names /\ r.desc # Unset
      BY <1>2, <1>6 DEF ReplaceWatchlist, CanWrite, At, Valid
    <2>2. row = [name |-> r.name, desc |-> r.desc] /\ r.name # None
      BY <2>1, NoneAssumption DEF Merged
    <2>3. QED BY <1>3, <1>4, <1>5, <1>6, <2>1, <2>2 DEF ReplaceWatchlist
  <1>7. CASE UpdateWatchlist(c)
    BY <1>3, <1>4, <1>5, <1>7 DEF UpdateWatchlist, CanWrite, At
  <1>8. QED BY <1>6, <1>7

LEMMA ItemDone ==
  ASSUME TypeOK, NEW c \in Clients, DeleteWatchlist(c) \/ AddItem(c) \/ RemoveItem(c)
  PROVE  Refused(c) \/ Done(c)
  <1> DEFINE r == req[c]
             item == <<r.id, r.job>>
  <1>1. CASE DeleteWatchlist(c)
    <2>1. r.kind = "delete"
      BY <1>1 DEF DeleteWatchlist, CanWrite, At
    <2>2. CASE r.id \notin Existing(db) /\ Reject(c, "watchlist_not_found")
      BY <2>1, <2>2, SameWords DEF Refused, Refusals, Service!Reason
    <2>3. CASE /\ r.id \in Existing(db)
               /\ Execute(c, WithoutList(db, r.id), [Blank EXCEPT !.status = "no_content"])
      <3>1. Performed(r, db, WithoutList(db, r.id), [Blank EXCEPT !.status = "no_content"])
        BY <2>1, <2>3 DEF Performed
      <3>2. QED BY <2>1, <2>3, <3>1, DoneBy
    <2>4. QED BY <1>1, <2>2, <2>3 DEF DeleteWatchlist
  <1>2. CASE AddItem(c)
    <2> DEFINE e == [db EXCEPT !.items = @ \cup {item}]
               a == ans[c]
    <2>1. r.kind = "add"
      BY <1>2 DEF AddItem, CanWrite, At
    <2>2. CASE r.id \notin Existing(db) /\ Reject(c, "watchlist_not_found")
      BY <2>1, <2>2, SameWords DEF Refused, Refusals, Service!Reason
    <2>3. CASE item \in db.items /\ Reject(c, "duplicate")
      BY <2>1, <2>3, SameWords DEF Refused, Refusals, Service!Reason
    <2>4. CASE r.id \in Existing(db) /\ item \notin db.items /\ Execute(c, e, a)
      <3>1. Performed(r, db, e, a)
        BY <2>1, <2>4 DEF Performed
      <3>2. QED BY <2>4, <3>1, DoneBy
    <2>5. QED BY <1>2, <2>2, <2>3, <2>4 DEF AddItem
  <1>3. CASE RemoveItem(c)
    <2> DEFINE e == [db EXCEPT !.items = @ \ {item}]
               a == [Blank EXCEPT !.status = "no_content"]
    <2>1. r.kind = "remove"
      BY <1>3 DEF RemoveItem, CanWrite, At
    <2>2. CASE item \notin db.items /\ Reject(c, "item_not_found")
      BY <2>1, <2>2, SameWords DEF Refused, Refusals, Service!Reason
    <2>3. CASE item \in db.items /\ Execute(c, e, a)
      <3>1. Performed(r, db, e, a)
        BY <2>1, <2>3 DEF Performed
      <3>2. QED BY <2>1, <2>3, <3>1, DoneBy
    <2>4. QED BY <1>3, <2>2, <2>3 DEF RemoveItem
  <1>4. QED BY <1>1, <1>2, <1>3

\* A writing statement is rejected for a reason, or does what is promised.
LEMMA StatementCases ==
  ASSUME TypeOK, Sound(db), NEW c \in Clients, Write(c)
  PROVE  \/ Busy(c)
         \/ Commit(c)
         \/ pc[c] = "write" /\ writer = None /\ (Refused(c) \/ Done(c))
  <1> DEFINE Statement == \/ CreateWatchlist(c) \/ ReplaceWatchlist(c)
                          \/ UpdateWatchlist(c) \/ DeleteWatchlist(c)
                          \/ AddItem(c) \/ RemoveItem(c)
  <1>1. Statement => pc[c] = "write" /\ writer = None
    BY DEF CreateWatchlist, ReplaceWatchlist, UpdateWatchlist, DeleteWatchlist, AddItem,
          RemoveItem, CanWrite, At
  <1>2. Statement => Refused(c) \/ Done(c)
    BY CreateDone, RowDone, ItemDone
  <1>3. QED BY <1>1, <1>2 DEF Write

-----------------------------------------------------------------------------
(* The invariant                                                            *)

\* A handler's own step builds what the step after it needs.
LEMMA OwnBuilt ==
  ASSUME MapInv, NEW c \in Clients, Receive(c) \/ OpenFails(c) \/ Handle(c)
  PROVE  Built(c)'
  <1> USE NoneAssumption DEF MapInv
  <1>0. TypeOK /\ Built(c) /\ Fits(pc[c], req[c].kind) /\ Sound(db) /\ OneImage(c)
    BY DEF AnswerInv, Told, StoreInv, SoundImages, Images, TypeOK
  <1>1. CASE Receive(c)
    <2>1. PICK r \in Requests : /\ pc' = [pc EXCEPT ![c] = FirstStep(r.kind)]
                                /\ req' = [req EXCEPT ![c] = r]
      BY <1>1 DEF Receive, Goto
    <2>2. FirstStep(r.kind) \notin {"count", "commit"}
      BY RequestAssumption DEF FirstStep, Request, Kinds
    <2>3. pc[c] = "idle" /\ ans' = ans /\ snap' = snap
      BY <1>1 DEF Receive
    <2>4. pc'[c] = FirstStep(r.kind) /\ ans[c] = Blank /\ snap[c] = None
      BY <1>0, <2>1, <2>3 DEF TypeOK, Built
    <2>5. QED BY <2>2, <2>3, <2>4 DEF Built
  <1>2. CASE Busy(c) \/ Commit(c)
    <2>1. AfterCommit(req[c].kind) \in {"reread", "entry", "answer"}
      BY DEF AfterCommit
    <2>2. QED BY <1>0, <1>2, <2>1 DEF Busy, Commit, At, Refuse, Goto, TypeOK, Built
  <1>3. CASE pc[c] = "write" /\ Refused(c)
    BY <1>0, <1>3 DEF Refused, Reject, Refuse, Goto, TypeOK, Built
  <1>4. CASE pc[c] = "write" /\ Done(c)
    <2>1. /\ pc'[c] = "commit" /\ db' = db /\ req' = req /\ snap' = snap
          /\ Performed(req[c], db, work'[c], ans'[c])
      BY <1>0, <1>4 DEF Done, Execute, Goto, TypeOK
    <2>2. snap[c] = None
      BY <1>0, <1>4 DEF Built
    <2>3. QED BY <2>1, <2>2 DEF Built, Performed
  <1>5. CASE \/ GetWatchlist(c) \/ GetJob(c) \/ Join(c) \/ JobsUnavailable(c)
             \/ BuildEntry(c)
    BY <1>0, <1>5 DEF GetWatchlist, GetJob, Join, JobsUnavailable, BuildEntry, Refuse,
          Goto, TypeOK, Built, Fits
  <1>6. CASE Gate(c)
    BY <1>0, <1>6 DEF Gate, Refuse, Goto, TypeOK, Built, Fits
  <1>7. CASE Page(c)
    <2>1. /\ pc'[c] = "count" /\ snap'[c] = View(c) /\ req' = req
          /\ ans'[c] = [Blank EXCEPT !.page = Listed(c, View(c))]
      BY <1>0, <1>7 DEF Page, Goto, TypeOK
    <2>2. ans'[c] = [Blank EXCEPT !.page = Listed(c, snap[c])]'
      BY <2>1 DEF Listed, Blank
    <2>3. QED BY <2>1, <2>2 DEF Built
  <1>8. CASE Count(c) \/ Reply(c) \/ Close(c)
    BY <1>0, <1>8 DEF Count, Reply, Close, Forget, Goto, TypeOK, Built
  <1>9. CASE OpenFails(c)
    <2>1. pc'[c] = "close" /\ snap'[c] = snap[c]
      BY <1>0, <1>9 DEF OpenFails, Refuse, Goto, TypeOK
    <2>2. snap[c] = None
      <3>1. req[c].kind \in Kinds /\ pc[c] = FirstStep(req[c].kind)
        BY <1>0, <1>9, RequestAssumption DEF OpenFails, TypeOK, Request
      <3>2. pc[c] # "count" /\ ~(pc[c] = "page" /\ req[c].kind = "items")
        BY <3>1 DEF FirstStep, Kinds
      <3>3. QED BY <1>0, <3>2 DEF Built
    <2>3. QED BY <2>1, <2>2 DEF Built
  <1>10. QED
    BY <1>0, <1>1, <1>2, <1>3, <1>4, <1>5, <1>6, <1>7, <1>8, <1>9, StatementCases
       DEF Handle, Read

\* The image, and the transaction, of another handler are out of reach while it
\* has the lock.
LEMMA OtherCommit ==
  ASSUME MapInv, NEW c \in Clients, Receive(c) \/ OpenFails(c) \/ Handle(c),
         NEW o \in Clients, o # c, pc[o] = "commit"
  PROVE  db' = db /\ work'[o] = work[o]
  <1> USE NoneAssumption DEF MapInv
  <1>1. TypeOK /\ LockHeldOnlyByOpenWrite /\ writer = o
    BY DEF StoreInv, LockHeldOnlyByOpenWrite
  <1>2. db' = db
    BY <1>1, LockExcludes
  <1>3. work'[o] = work[o]
    <2>1. CASE Busy(c) \/ Commit(c) \/ Rejected(c) \/ Executed(c)
      BY <1>1, <2>1 DEF Busy, Commit, Rejected, Reject, Executed, Execute, TypeOK
    <2>2. CASE Read(c) \/ Receive(c) \/ OpenFails(c)
      BY <2>2 DEF Receive, OpenFails, Read, GetWatchlist, Gate, Page, Count, GetJob, Join,
            JobsUnavailable, BuildEntry
    <2>3. CASE Reply(c) \/ Close(c)
      BY <1>1, <2>3 DEF Reply, Close, TypeOK
    <2>4. QED BY <1>1, <2>1, <2>2, <2>3, WriteCases DEF Handle
  <1>4. QED BY <1>2, <1>3

\* Every step keeps the invariant.
LEMMA MapInvStep == MapInv /\ [Next]_vars => MapInv'
  <1> SUFFICES ASSUME MapInv, [Next]_vars PROVE MapInv'
    OBVIOUS
  <1>1. StoreInv' /\ AnswerInv'
    BY StoreInvStep, AnswerInvStep DEF MapInv
  <1>2. ASSUME NEW c \in Clients, Receive(c) \/ OpenFails(c) \/ Handle(c),
               NEW o \in Clients
        PROVE  Built(o)'
    <2>1. CASE o = c
      BY <1>2, <2>1, OwnBuilt
    <2>2. CASE o # c
      <3>1. Built(o) /\ TypeOK
        BY DEF MapInv, StoreInv
      <3>2. /\ pc'[o] = pc[o] /\ req'[o] = req[o] /\ snap'[o] = snap[o]
            /\ ans'[o] = ans[o]
        BY <1>2, <2>2, <3>1, Others
      <3>3. pc[o] = "commit" => db' = db /\ work'[o] = work[o]
        BY <1>2, <2>2, OtherCommit
      <3>4. pc[o] = "commit" => Performed(req'[o], db', work'[o], ans'[o])
        BY <3>1, <3>2, <3>3 DEF Built
      <3>5. Listed(o, snap[o])' = Listed(o, snap[o])
        BY <3>2 DEF Listed
      <3>6. QED BY <3>1, <3>2, <3>4, <3>5 DEF Built, Blank
    <2>3. QED BY <2>1, <2>2
  <1>3. CASE Scrape \/ UNCHANGED vars
    <2>1. UNCHANGED <<db, work, pc, req, snap, ans>>
      BY <1>3 DEF Scrape, vars
    <2>2. ASSUME NEW o \in Clients PROVE Built(o)'
      <3>1. pc[o] = "commit" => Performed(req'[o], db', work'[o], ans'[o])
        BY <2>1 DEF MapInv, Built
      <3>2. Listed(o, snap[o])' = Listed(o, snap[o])
        BY <2>1 DEF Listed
      <3>3. QED BY <2>1, <3>1, <3>2 DEF MapInv, Built, Blank
    <2>3. QED BY <1>1, <2>2 DEF MapInv
  <1>4. CASE Crash
    <2>1. ASSUME NEW o \in Clients PROVE Built(o)'
      BY <1>4 DEF Crash, Built
    <2>2. QED BY <1>1, <2>1 DEF MapInv
  <1>5. QED BY <1>1, <1>2, <1>3, <1>4 DEF Next, MapInv

\* The invariant holds in every reachable state.
LEMMA MapInvAlways == Spec => []MapInv
  <1>1. Init => StoreInv /\ \A c \in Clients : Built(c)
    BY StoreInvInit DEF Init, Built
  <1>2. StoreInv /\ AnswerInv /\ (\A c \in Clients : Built(c)) => MapInv
    BY DEF MapInv
  <1>3. QED BY <1>1, <1>2, AnswerInvAlways, MapInvStep, PTL DEF Spec

-----------------------------------------------------------------------------
(* What a step of a handler is for the service                              *)

\* A step of request c leaves the phase and the outcome of the others alone.
LEMMA OthersKept ==
  ASSUME TypeOK, NEW c \in Clients, Receive(c) \/ OpenFails(c) \/ Handle(c)
  PROVE  /\ Phases' = [Phases EXCEPT ![c] = PhaseOf(c)']
         /\ Outcomes' = [Outcomes EXCEPT ![c] = OutcomeOf(c)']
  <1>1. ASSUME NEW o \in Clients \ {c}
        PROVE  PhaseOf(o)' = PhaseOf(o) /\ OutcomeOf(o)' = OutcomeOf(o)
    <2>1. /\ pc'[o] = pc[o] /\ req'[o] = req[o] /\ snap'[o] = snap[o]
          /\ ans'[o] = ans[o]
      BY Others
    <2>2. PhaseOf(o)' = PhaseOf(o)
      BY <2>1 DEF PhaseOf
    <2>3. Listed(o, snap[o])' = Listed(o, snap[o])
      BY <2>1 DEF Listed
    <2>4. OutcomeOf(o)' = OutcomeOf(o)
      BY <2>1, <2>3 DEF OutcomeOf, Blank
    <2>5. QED BY <2>2, <2>4
  <1>2. QED BY <1>1 DEF Phases, Outcomes

\* A step that reads settles a phase and an outcome.
LEMMA Settles ==
  ASSUME TypeOK, NEW c \in Clients, Receive(c) \/ OpenFails(c) \/ Handle(c),
         UNCHANGED <<db, jobs, req>>,
         NEW next, NEW told, PhaseOf(c)' = next, OutcomeOf(c)' = told
  PROVE  Service!Settle(c, next, told)
  <1>1. Phases' = [Phases EXCEPT ![c] = next] /\ Outcomes' = [Outcomes EXCEPT ![c] = told]
    BY OthersKept
  <1>2. QED BY <1>1 DEF Service!Settle, Service!Set, Phases, Outcomes

\* A step the service does not see.
LEMMA Unseen ==
  ASSUME TypeOK, NEW c \in Clients, Handle(c),
         UNCHANGED <<db, jobs, req>>,
         PhaseOf(c)' = PhaseOf(c), OutcomeOf(c)' = OutcomeOf(c)
  PROVE  UNCHANGED <<db, jobs, Phases, req, Outcomes>>
  <1>1. Phases' = Phases /\ Outcomes' = Outcomes
    BY OthersKept DEF Phases, Outcomes
  <1>2. QED BY <1>1

LEMMA ReceiveOpens ==
  ASSUME MapInv, NEW c \in Clients, Receive(c)
  PROVE  Service!Open(c)
  <1> USE DEF MapInv, StoreInv
  <1>1. PICK r \in Requests : /\ pc' = [pc EXCEPT ![c] = FirstStep(r.kind)]
                              /\ req' = [req EXCEPT ![c] = r]
    BY DEF Receive, Goto
  <1>2. /\ pc[c] = "idle" /\ ans' = ans /\ snap' = snap /\ UNCHANGED <<db, jobs>>
        /\ snap[c] = None
    BY DEF Receive, Built
  <1>3. pc'[c] = FirstStep(r.kind) /\ req'[c] = r /\ snap'[c] = None
    BY <1>1, <1>2 DEF TypeOK
  <1>4. /\ pc'[c] \in {"write", "select", "page", "gate", "job_check", "list_check"}
        /\ pc'[c] \in {"list_check", "write"} => req'[c].kind # "add"
        /\ pc'[c] = "page" => req'[c].kind # "items"
    BY <1>3, RequestAssumption DEF FirstStep, Request, Kinds
  <1>5. PhaseOf(c) = "idle" /\ PhaseOf(c)' = "open"
    BY <1>2, <1>4 DEF PhaseOf
  <1>6. OutcomeOf(c)' = ans[c] /\ OutcomeOf(c) = ans[c]
    BY <1>2, <1>3, <1>4 DEF OutcomeOf
  <1>7. Phases' = [Phases EXCEPT ![c] = "open"] /\ Outcomes' = Outcomes
    BY <1>5, <1>6, OthersKept DEF Outcomes
  <1>8. QED BY <1>1, <1>2, <1>5, <1>7 DEF Service!Open, Service!Set, Phases, Outcomes

\* A refusal with a reason denies the request.
LEMMA RefusalDenies ==
  ASSUME TypeOK, NEW c \in Clients, OpenFails(c) \/ Handle(c),
         NEW status, Refuse(c, status),
         PhaseOf(c) \in {"open", "vetted"}, Service!Reason(c, status),
         UNCHANGED <<db, jobs, req>>
  PROVE  Service!Deny(c)
  <1>1. /\ status \in Refusals /\ pc'[c] = "close"
        /\ ans'[c] = [Blank EXCEPT !.status = status]
    BY DEF Refuse, Goto, TypeOK
  <1>2. PhaseOf(c)' = "refused" /\ OutcomeOf(c)' = Service!Told(status)
    BY <1>1 DEF PhaseOf, OutcomeOf, Service!Told, Service!Blank, Blank
  <1>3. Service!Settle(c, "refused", Service!Told(status))
    BY <1>2, Settles
  <1>4. Phases[c] \in {"open", "vetted"}
    BY DEF Phases
  <1>5. QED BY <1>1, <1>3, <1>4 DEF Service!Deny, Service!Refusals, Refusals, Phases

\* An error of SQLite is a reason of its own, before anything was done.
LEMMA FaultDenies ==
  ASSUME TypeOK, NEW c \in Clients, OpenFails(c) \/ Handle(c),
         \E status \in FaultStatuses : Refuse(c, status),
         PhaseOf(c) = "open", UNCHANGED <<db, jobs, req>>
  PROVE  Service!Deny(c)
  <1>1. PICK status \in FaultStatuses : Refuse(c, status)
    OBVIOUS
  <1>2. Service!Reason(c, status)
    BY DEF FaultStatuses, Service!Reason, PhaseOf
  <1>3. QED BY <1>1, <1>2, RefusalDenies

\* app.db is opened before anything else is done.
LEMMA OpenFailsDenies ==
  ASSUME MapInv, NEW c \in Clients, OpenFails(c)
  PROVE  Service!Deny(c)
  <1>1. TypeOK /\ UNCHANGED <<db, jobs, req>>
    BY DEF MapInv, StoreInv, OpenFails
  <1>2. req[c].kind \in Kinds /\ pc[c] = FirstStep(req[c].kind)
    BY <1>1, RequestAssumption DEF OpenFails, TypeOK, Request
  <1>3. /\ pc[c] \in {"write", "select", "page", "gate", "job_check", "list_check"}
        /\ pc[c] \in {"list_check", "write"} => req[c].kind # "add"
        /\ pc[c] = "page" => req[c].kind # "items"
    BY <1>2 DEF FirstStep, Kinds
  <1>4. PhaseOf(c) = "open"
    BY <1>3 DEF PhaseOf
  <1>5. QED BY <1>1, <1>4, OpenFailsFirst, FaultDenies

\* A time-out is a refusal without a reason to look for; so is a rejected
\* statement, which has one.  A statement that changes rows is not seen.
LEMMA WriteMaps ==
  ASSUME MapInv, NEW c \in Clients, Write(c), ~Commit(c)
  PROVE  Service!Deny(c) \/ UNCHANGED <<db, jobs, Phases, req, Outcomes>>
  <1>0. TypeOK /\ Built(c) /\ Handle(c) /\ Sound(db) /\ Fits(pc[c], req[c].kind)
    BY NoneAssumption DEF MapInv, StoreInv, SoundImages, Images, TypeOK, AnswerInv, Told,
          Handle
  <1>1. ASSUME pc[c] = "write" PROVE PhaseOf(c) \in {"open", "vetted"}
    BY <1>1 DEF PhaseOf
  <1>2. CASE Busy(c)
    <2>1. /\ pc[c] = "write" /\ Refuse(c, "unavailable") /\ UNCHANGED <<db, jobs, req>>
      BY <1>2 DEF Busy, At
    <2>2. Service!Reason(c, "unavailable")
      BY DEF Service!Reason
    <2>3. QED BY <1>0, <1>1, <2>1, <2>2, RefusalDenies
  <1>3. CASE pc[c] = "write" /\ Refused(c)
    <2>1. PICK status \in Refusals : Reject(c, status) /\ Service!Reason(c, status)
      BY <1>3 DEF Refused
    <2>2. Refuse(c, status) /\ UNCHANGED <<db, jobs, req>>
      BY <2>1 DEF Reject
    <2>3. QED BY <1>0, <1>1, <1>3, <2>1, <2>2, RefusalDenies
  <1>4. CASE pc[c] = "write" /\ Done(c)
    <2>1. /\ pc'[c] = "commit" /\ UNCHANGED <<db, jobs, req>>
      BY <1>0, <1>4 DEF Done, Execute, Goto, TypeOK
    <2>2. PhaseOf(c)' = PhaseOf(c)
      BY <1>4, <2>1 DEF PhaseOf
    <2>3. OutcomeOf(c)' = OutcomeOf(c)
      <3>1. CASE req[c].kind = "add"
        BY <1>4, <2>1, <3>1 DEF OutcomeOf, Done
      <3>2. CASE req[c].kind # "add"
        BY <1>0, <1>4, <2>1, <3>2 DEF OutcomeOf, Built, Blank
      <3>3. QED BY <3>1, <3>2
    <2>4. QED BY <1>0, <2>1, <2>2, <2>3, Unseen
  <1>5. QED BY <1>0, <1>2, <1>3, <1>4, StatementCases

\* A commit is where what the statement did takes effect, all of it.
LEMMA CommitPerforms ==
  ASSUME MapInv, NEW c \in Clients, Commit(c)
  PROVE  Service!Perform(c)
  <1> DEFINE r == req[c]
             next == work[c]
             told == ans[c]
  <1>1. /\ TypeOK /\ Performed(r, db, next, told) /\ pc[c] = "commit"
        /\ db' = next /\ ans' = ans /\ UNCHANGED <<jobs, req>>
        /\ pc' = [pc EXCEPT ![c] = AfterCommit(r.kind)]
    BY DEF Commit, Goto, MapInv, StoreInv, Built
  <1>2. /\ PhaseOf(c)' = IF r.kind \in {"put", "patch", "add"} THEN "written" ELSE "done"
        /\ OutcomeOf(c)' = told
    <2>1. pc'[c] = AfterCommit(r.kind)
      BY <1>1 DEF TypeOK
    <2>2. \/ pc'[c] = "reread" /\ r.kind \in {"put", "patch"}
          \/ pc'[c] = "entry" /\ r.kind = "add"
          \/ pc'[c] = "answer" /\ r.kind \notin {"put", "patch", "add"}
      BY <2>1 DEF AfterCommit
    <2>3. PhaseOf(c)' = IF r.kind \in {"put", "patch", "add"} THEN "written" ELSE "done"
      BY <2>2 DEF PhaseOf
    <2>4. QED BY <1>1, <2>2, <2>3 DEF OutcomeOf
  <1>3. Phases[c] = IF r.kind = "add" THEN "vetted" ELSE "open"
    BY <1>1 DEF Phases, PhaseOf
  <1>4. Service!Becomes(c, next, told)
    <2>1. Handle(c)
      BY DEF Handle, Write
    <2>2. QED BY <1>1, <1>2, <2>1, OthersKept
             DEF Service!Becomes, Service!Set, Phases, Outcomes
  <1>5. r \in Request /\ db \in Image
    BY <1>1, RequestAssumption DEF TypeOK, Performed
  <1>6. CASE r.kind = "create"
    <2>1. ~NameTaken(db, r.name, 0)
      BY <1>1, <1>6 DEF Performed
    <2> DEFINE row == [name |-> r.name, desc |-> r.desc]
    <2>2. PICK i \in Ids \ Existing(db) :
            /\ next = WithRow(db, i, row)
            /\ told = [Blank EXCEPT !.status = "created", !.id = i, !.row = row]
      BY <1>1, <1>6 DEF Performed
    <2>3. /\ next = Service!Put(i, row)
          /\ told = [Service!Told("created") EXCEPT !.id = i, !.row = row]
      BY <2>2 DEF Service!Put, WithRow, Service!Told, Service!Blank, Blank
    <2>4. Service!Created(c)
      BY <1>3, <1>4, <1>6, <2>1, <2>2, <2>3, SameWords
         DEF Service!Created, Phases, Service!Ids, Ids
    <2>5. QED BY <2>4 DEF Service!Perform
  <1>7. CASE r.kind \in {"put", "patch"}
    <2> DEFINE row == Merged(db.lists[r.id], r)
    <2>1. /\ r.id \in Existing(db) /\ told = Blank
          /\ row.name \in Names /\ ~NameTaken(db, row.name, r.id)
          /\ next = WithRow(db, r.id, row)
      BY <1>1, <1>7 DEF Performed
    <2>2. next = Service!Put(r.id, row) /\ told = Service!Blank
      BY <2>1 DEF Service!Put, WithRow, Service!Blank, Blank
    <2>3. Service!Rewritten(c)
      BY <1>3, <1>4, <1>7, <2>1, <2>2, SameWords DEF Service!Rewritten, Phases, Merged
    <2>4. QED BY <2>3 DEF Service!Perform
  <1>8. CASE r.kind = "delete"
    <2>1. /\ r.id \in Existing(db) /\ next = WithoutList(db, r.id)
          /\ told = Service!Told("no_content")
      BY <1>1, <1>8 DEF Performed, Service!Told, Service!Blank, Blank
    <2>2. next = [Service!Put(r.id, None) EXCEPT !.items = @ \ ({r.id} \X Jobs)]
      <3>1. db.items \ ({r.id} \X Jobs) = {p \in db.items : p[1] # r.id}
        BY <1>5 DEF Image
      <3>2. Service!Put(r.id, None) =
              [lists |-> [db.lists EXCEPT ![r.id] = None], items |-> db.items]
        BY <1>5 DEF Service!Put, Image
      <3>3. [Service!Put(r.id, None) EXCEPT !.items = @ \ ({r.id} \X Jobs)] =
              [lists |-> [db.lists EXCEPT ![r.id] = None],
               items |-> db.items \ ({r.id} \X Jobs)]
        <4>1. PICK d : d = Service!Put(r.id, None)
          OBVIOUS
        <4>2. PICK lists : lists = [db.lists EXCEPT ![r.id] = None]
          OBVIOUS
        <4>3. PICK gone : gone = {r.id} \X Jobs
          OBVIOUS
        <4>4. d = [lists |-> lists, items |-> db.items]
          BY <3>2, <4>1, <4>2
        <4>5. [d EXCEPT !.items = @ \ gone] = [lists |-> lists, items |-> db.items \ gone]
          BY <4>4, ItemsGone
        <4>6. QED BY <4>1, <4>2, <4>3, <4>5
      <3>4. QED BY <2>1, <3>1, <3>3 DEF WithoutList
    <2>3. Service!Deleted(c)
      BY <1>3, <1>4, <1>8, <2>1, <2>2, SameWords DEF Service!Deleted, Phases
    <2>4. QED BY <2>3 DEF Service!Perform
  <1>9. CASE r.kind = "add"
    <2>1. /\ r.id \in Existing(db) /\ <<r.id, r.job>> \notin db.items
          /\ next = [db EXCEPT !.items = @ \cup {<<r.id, r.job>>}]
          /\ told = Outcomes[c]
      BY <1>1, <1>9 DEF Performed, Outcomes, OutcomeOf
    <2>2. Service!Saved(c)
      BY <1>3, <1>4, <1>9, <2>1, SameWords DEF Service!Saved, Phases, Outcomes
    <2>3. QED BY <2>2 DEF Service!Perform
  <1>10. CASE r.kind = "remove"
    <2>1. /\ <<r.id, r.job>> \in db.items
          /\ next = [db EXCEPT !.items = @ \ {<<r.id, r.job>>}]
          /\ told = Service!Told("no_content")
      BY <1>1, <1>10 DEF Performed, Service!Told, Service!Blank, Blank
    <2>2. Service!Unsaved(c)
      BY <1>3, <1>4, <1>10, <2>1 DEF Service!Unsaved, Phases
    <2>3. QED BY <2>2 DEF Service!Perform
  <1>11. QED BY <1>1, <1>6, <1>7, <1>8, <1>9, <1>10 DEF Performed

\* Statements that read the row, or look for it before they write.
LEMMA GetMaps ==
  ASSUME MapInv, NEW c \in Clients, GetWatchlist(c)
  PROVE  \/ Service!Deny(c) \/ Service!ReadBack(c)
         \/ UNCHANGED <<db, jobs, Phases, req, Outcomes>>
  <1> DEFINE i == req[c].id
  <1>0. /\ TypeOK /\ Built(c) /\ Fits(pc[c], req[c].kind) /\ Handle(c)
        /\ UNCHANGED <<db, jobs, req>> /\ pc[c] \in {"select", "list_check", "reread"}
    BY DEF MapInv, StoreInv, AnswerInv, Told, Handle, Read, GetWatchlist
  <1>1. CASE pc[c] = "list_check"
    <2>1. PhaseOf(c) \in {"open", "vetted"}
      BY <1>1 DEF PhaseOf
    <2>2. CASE i \notin Existing(db) /\ Refuse(c, "watchlist_not_found")
      <3>1. Service!Reason(c, "watchlist_not_found")
        BY <1>0, <1>1, <2>2, SameWords DEF Fits, Service!Reason
      <3>2. QED BY <1>0, <2>1, <2>2, <3>1, RefusalDenies
    <2>3. CASE Goto(c, "write") /\ UNCHANGED ans
      <3>1. pc'[c] = "write" /\ UNCHANGED <<req, ans>>
        BY <1>0, <2>3 DEF Goto, TypeOK
      <3>2. PhaseOf(c)' = PhaseOf(c) /\ OutcomeOf(c)' = OutcomeOf(c)
        BY <1>1, <3>1 DEF PhaseOf, OutcomeOf
      <3>3. QED BY <1>0, <3>2, Unseen
    <2>4. QED BY <1>1, <2>2, <2>3 DEF GetWatchlist
  <1>2. CASE pc[c] # "list_check"
    <2>1. \/ Phases[c] = "open" /\ req[c].kind = "get"
          \/ Phases[c] = "written" /\ req[c].kind \in {"put", "patch"}
      BY <1>0, <1>2 DEF Phases, PhaseOf, Fits
    <2>2. CASE i \notin Existing(db) /\ Refuse(c, "watchlist_not_found")
      <3>1. /\ pc'[c] = "close"
            /\ ans'[c] = [Blank EXCEPT !.status = "watchlist_not_found"]
        BY <1>0, <2>2 DEF Refuse, Goto, TypeOK
      <3>2. /\ PhaseOf(c)' = "refused"
            /\ OutcomeOf(c)' = Service!Told("watchlist_not_found")
        BY <3>1 DEF PhaseOf, OutcomeOf, Service!Told, Service!Blank, Blank
      <3>3. Service!Settle(c, "refused", Service!Told("watchlist_not_found"))
        BY <1>0, <3>2, Settles
      <3>4. QED BY <2>1, <2>2, <3>3, SameWords DEF Service!ReadBack, Phases
    <2>3. CASE /\ i \in Existing(db)
               /\ Goto(c, "answer") /\ ans' = [ans EXCEPT ![c] = RowAnswer(db, i)]
      <3>1. pc'[c] = "answer" /\ ans'[c] = RowAnswer(db, i)
        BY <1>0, <2>3 DEF Goto, TypeOK
      <3>2. RowAnswer(db, i) = Service!RowAnswer(db, i)
        <4> DEFINE row == db.lists[i]
                   n == Cardinality(ItemsOf(db, i))
                   m == Service!Cardinality(Service!ItemsOf(db, i))
        <4>1. m = n
          <5>1. Service!ItemsOf(db, i) = ItemsOf(db, i)
            BY DEF Service!ItemsOf, ItemsOf
          <5>2. QED BY <5>1, SameCount
        <4>2. RowAnswer(db, i) =
                [Blank EXCEPT !.status = "ok", !.id = i, !.row = row, !.count = n]
          BY DEF RowAnswer
        <4>3. Service!RowAnswer(db, i) =
                [Service!Blank EXCEPT !.status = "ok", !.id = i, !.row = row, !.count = m]
          BY DEF Service!RowAnswer
        <4> HIDE DEF row, n, m, i
        <4>4. QED BY <4>1, <4>2, <4>3, Fields
      <3>3. PhaseOf(c)' = "done" /\ OutcomeOf(c)' = Service!RowAnswer(db, i)
        BY <3>1, <3>2 DEF PhaseOf, OutcomeOf
      <3>4. Service!Settle(c, "done", Service!RowAnswer(db, i))
        BY <1>0, <3>3, Settles
      <3>5. QED BY <2>1, <2>3, <3>4, SameWords DEF Service!ReadBack, Phases
    <2>4. QED BY <1>2, <2>2, <2>3 DEF GetWatchlist
  <1>3. QED BY <1>1, <1>2

\* What a listing of image d will be told.
Whole(c, d) ==
  [Blank EXCEPT !.status = "ok", !.page = Listed(c, d),
                !.count = Cardinality(Listed(c, d))]

\* The service lists the same members.
LEMMA WholeIsListing ==
  ASSUME NEW c, req[c].kind \in {"list", "items"}
  PROVE  Service!Listing(req[c]) = Whole(c, db)
  <1> DEFINE page == Listed(c, db)
             n == Cardinality(page)
             same == IF req[c].kind = "list" THEN Service!Existing(db)
                     ELSE Service!ItemsOf(db, req[c].id)
             m == Service!Cardinality(same)
  <1>1. same = page
    BY SameWords DEF Listed, Service!ItemsOf, ItemsOf
  <1>2. m = n
    BY <1>1, SameCount
  <1>3. Service!Listing(req[c]) = [Service!Told("ok") EXCEPT !.page = same, !.count = m]
    BY DEF Service!Listing
  <1>4. Whole(c, db) = [Blank EXCEPT !.status = "ok", !.page = page, !.count = n]
    BY DEF Whole
  <1> HIDE DEF page, same, n, m
  <1>5. [Service!Told("ok") EXCEPT !.page = same, !.count = m] =
          [Blank EXCEPT !.status = "ok", !.page = same, !.count = m]
    BY Fields
  <1>6. QED BY <1>1, <1>2, <1>3, <1>4, <1>5

\* The whole outcome of a listing stands with its snapshot.
LEMMA Snapped ==
  ASSUME NEW c \in Clients, pc[c] \in {"page", "count"}, snap[c] # None
  PROVE  OutcomeOf(c) = Whole(c, snap[c])
  BY DEF OutcomeOf, Whole

\* The first read of a listing is the moment it describes.
LEMMA FirstReadLooks ==
  ASSUME MapInv, NEW c \in Clients, Handle(c), req[c].kind \in {"list", "items"},
         pc[c] \in {"gate", "page"}, snap[c] = None,
         req[c].kind = "items" => req[c].id \in Existing(db),
         pc'[c] = IF req[c].kind = "items" THEN "page" ELSE "count",
         snap'[c] = db, UNCHANGED <<db, jobs, req>>
  PROVE  Service!Look(c)
  <1> USE NoneAssumption
  <1>0. TypeOK /\ Fits(pc[c], req[c].kind) /\ Built(c) /\ db # None
    BY DEF MapInv, StoreInv, AnswerInv, Told, TypeOK
  <1>1. Phases[c] = "open"
    <2>1. ~(pc[c] = "page" /\ req[c].kind = "items")
      BY <1>0 DEF MapInv, AnswerInv, OneImage
    <2>2. QED BY <2>1 DEF Phases, PhaseOf
  <1>2. PhaseOf(c)' = IF req[c].kind = "list" THEN "done" ELSE "looked"
    BY DEF PhaseOf
  <1>3. OutcomeOf(c)' = Whole(c, db)
    <2>1. Listed(c, snap[c])' = Listed(c, db)
      BY DEF Listed
    <2>2. QED BY <1>0, <2>1 DEF OutcomeOf, Whole, Blank
  <1>4. Service!Settle(c, IF req[c].kind = "list" THEN "done" ELSE "looked", Whole(c, db))
    BY <1>0, <1>2, <1>3, Settles
  <1>5. Service!Settle(c, IF req[c].kind = "list" THEN "done" ELSE "looked",
                       Service!Listing(req[c]))
    BY <1>4, WholeIsListing
  <1>6. QED BY <1>1, <1>5, SameWords DEF Service!Look, Phases

\* The gate of an items page, and the rows of either listing.
LEMMA PageMaps ==
  ASSUME MapInv, NEW c \in Clients, Gate(c) \/ Page(c)
  PROVE  \/ Service!Deny(c) \/ Service!Look(c)
         \/ UNCHANGED <<db, jobs, Phases, req, Outcomes>>
  <1> USE NoneAssumption
  <1>0. /\ TypeOK /\ Built(c) /\ OneImage(c) /\ Fits(pc[c], req[c].kind)
        /\ Handle(c) /\ UNCHANGED <<db, jobs, req>> /\ db # None
    BY DEF MapInv, StoreInv, AnswerInv, Told, Handle, Read, Gate, Page, TypeOK
  <1>1. CASE Gate(c)
    <2>1. /\ pc[c] = "gate" /\ req[c].kind = "items" /\ snap[c] = None /\ View(c) = db
      BY <1>0, <1>1 DEF Gate, Built, Fits, View
    <2>2. CASE req[c].id \notin Existing(db) /\ Refuse(c, "watchlist_not_found")
      <3>1. PhaseOf(c) = "open"
        BY <2>1 DEF PhaseOf
      <3>2. Service!Reason(c, "watchlist_not_found")
        BY <2>1, <2>2, SameWords DEF Service!Reason
      <3>3. QED BY <1>0, <2>2, <3>1, <3>2, RefusalDenies
    <2>3. CASE /\ req[c].id \in Existing(db) /\ Goto(c, "page")
               /\ snap' = [snap EXCEPT ![c] = db]
      <3>1. pc'[c] = "page" /\ snap'[c] = db
        BY <1>0, <2>3 DEF Goto, TypeOK
      <3>2. QED BY <1>0, <2>1, <2>3, <3>1, FirstReadLooks
    <2>4. QED BY <1>1, <2>1, <2>2, <2>3 DEF Gate
  <1>2. CASE Page(c)
    <2>1. /\ pc[c] = "page" /\ pc'[c] = "count" /\ snap'[c] = View(c)
          /\ req[c].kind \in {"list", "items"}
      BY <1>0, <1>2 DEF Page, Goto, TypeOK, Fits
    <2>2. CASE req[c].kind = "list"
      <3>1. snap[c] = None /\ View(c) = db
        BY <1>0, <2>1, <2>2 DEF Built, View
      <3>2. QED BY <1>0, <2>1, <2>2, <3>1, FirstReadLooks
    <2>3. CASE req[c].kind = "items"
      <3>1. snap[c] # None /\ snap'[c] = snap[c]
        BY <1>0, <2>1, <2>3 DEF OneImage, View
      <3>2. PhaseOf(c)' = PhaseOf(c)
        BY <1>0, <2>1, <2>3 DEF PhaseOf
      <3>3. Listed(c, snap[c])' = Listed(c, snap[c])
        BY <1>0, <3>1 DEF Listed
      <3>4. OutcomeOf(c)' = OutcomeOf(c)
        BY <2>1, <3>1, <3>3 DEF OutcomeOf, Blank
      <3>5. QED BY <1>0, <3>2, <3>4, Unseen
    <2>4. QED BY <2>1, <2>2, <2>3
  <1>3. QED BY <1>1, <1>2

\* The total is read from the snapshot the outcome already stands for.
LEMMA CountUnseen ==
  ASSUME MapInv, NEW c \in Clients, Count(c)
  PROVE  UNCHANGED <<db, jobs, Phases, req, Outcomes>>
  <1>0. /\ TypeOK /\ Built(c) /\ OneImage(c) /\ Fits(pc[c], req[c].kind)
        /\ Handle(c) /\ UNCHANGED <<db, jobs, req>>
    BY DEF MapInv, StoreInv, AnswerInv, Told, Handle, Read, Count
  <1>1. /\ pc[c] = "count" /\ snap[c] # None /\ View(c) = snap[c]
        /\ ans[c] = [Blank EXCEPT !.page = Listed(c, snap[c])]
        /\ req[c].kind \in {"list", "items"}
    BY <1>0 DEF Count, OneImage, Built, View, Fits
  <1>2. /\ pc'[c] = IF req[c].kind = "items" THEN "join" ELSE "answer"
        /\ ans'[c] = [ans[c] EXCEPT !.count = Cardinality(Listed(c, View(c))),
                                    !.status = "ok"]
    BY <1>0 DEF Count, Goto, TypeOK
  <1>3. PhaseOf(c)' = PhaseOf(c)
    BY <1>0, <1>1, <1>2 DEF PhaseOf
  <1>4. ans'[c] = Whole(c, snap[c])
    BY <1>1, <1>2 DEF Whole, Blank
  <1>5. OutcomeOf(c)' = OutcomeOf(c)
    <2>1. OutcomeOf(c)' = ans'[c]
      BY <1>2 DEF OutcomeOf
    <2>2. QED BY <1>1, <1>4, <2>1, Snapped
  <1>6. QED BY <1>0, <1>3, <1>5, Unseen

\* The answer of an add, after its commit.
LEMMA EntryConfirms ==
  ASSUME MapInv, NEW c \in Clients, BuildEntry(c)
  PROVE  Service!Confirm(c)
  <1>0. /\ TypeOK /\ Handle(c) /\ UNCHANGED <<db, jobs, req>>
        /\ pc[c] = "entry" /\ req[c].kind = "add"
    BY DEF MapInv, StoreInv, AnswerInv, Told, Fits, Handle, Read, BuildEntry
  <1>1. Phases[c] = "written" /\ Outcomes[c] = ans[c]
    BY <1>0 DEF Phases, Outcomes, PhaseOf, OutcomeOf
  <1>2. CASE ans[c].page = {} /\ Refuse(c, "internal_error")
    <2>1. pc'[c] = "close" /\ ans'[c] = [Blank EXCEPT !.status = "internal_error"]
      BY <1>0, <1>2 DEF Refuse, Goto, TypeOK
    <2>2. PhaseOf(c)' = "refused" /\ OutcomeOf(c)' = Service!Told("internal_error")
      BY <2>1 DEF PhaseOf, OutcomeOf, Service!Told, Service!Blank, Blank
    <2>3. Service!Settle(c, "refused", Service!Told("internal_error"))
      BY <1>0, <2>2, Settles
    <2>4. QED BY <1>0, <1>1, <1>2, <2>3 DEF Service!Confirm, Phases, Outcomes
  <1>3. CASE /\ ans[c].page # {} /\ Goto(c, "answer")
             /\ ans' = [ans EXCEPT ![c].status = "created"]
    <2>1. pc'[c] = "answer" /\ ans'[c] = [ans[c] EXCEPT !.status = "created"]
      BY <1>0, <1>3 DEF Goto, TypeOK
    <2>2. PhaseOf(c)' = "done" /\ OutcomeOf(c)' = [Outcomes[c] EXCEPT !.status = "created"]
      BY <1>1, <2>1 DEF PhaseOf, OutcomeOf
    <2>3. Service!Settle(c, "done", [Outcomes[c] EXCEPT !.status = "created"])
      BY <1>0, <2>2, Settles
    <2>4. QED BY <1>0, <1>1, <1>3, <2>3 DEF Service!Confirm, Phases, Outcomes
  <1>4. QED BY <1>2, <1>3 DEF BuildEntry

\* jobs.db is asked for the job of an add.
LEMMA JobMaps ==
  ASSUME MapInv, NEW c \in Clients, GetJob(c)
  PROVE  Service!Deny(c) \/ Service!Vet(c)
  <1>0. /\ TypeOK /\ Handle(c) /\ UNCHANGED <<db, jobs, req>>
        /\ pc[c] = "job_check" /\ req[c].kind = "add"
    BY DEF MapInv, StoreInv, AnswerInv, Told, Fits, Handle, Read, GetJob
  <1>1. PhaseOf(c) = "open" /\ Phases[c] = "open"
    BY <1>0 DEF PhaseOf, Phases
  <1>2. CASE req[c].job \notin Present(jobs) /\ Refuse(c, "job_not_found")
    <2>1. Service!Reason(c, "job_not_found")
      BY <1>0, <1>2, SameCatalogue DEF Service!Reason
    <2>2. QED BY <1>0, <1>1, <1>2, <2>1, RefusalDenies
  <1>3. CASE /\ req[c].job \in Present(jobs) /\ Goto(c, "list_check")
             /\ ans' = [ans EXCEPT ![c] =
                           [Blank EXCEPT !.page = {req[c].job} \cap Servable(jobs)]]
    <2> DEFINE told == [Blank EXCEPT !.page = {req[c].job} \cap Servable(jobs)]
               said == [Service!Blank EXCEPT !.page =
                          {req[c].job} \cap Service!Servable(jobs)]
    <2>1. told = said
      BY SameCatalogue DEF Service!Blank, Blank
    <2>2. pc'[c] = "list_check" /\ ans'[c] = told
      BY <1>0, <1>3 DEF Goto, TypeOK
    <2>3. PhaseOf(c)' = "vetted" /\ OutcomeOf(c)' = told
      BY <1>0, <2>2 DEF PhaseOf, OutcomeOf
    <2> HIDE DEF told, said
    <2>4. Service!Settle(c, "vetted", said)
      BY <1>0, <2>1, <2>3, Settles
    <2>5. QED BY <1>0, <1>1, <1>3, <2>4, SameCatalogue DEF Service!Vet, Phases, said
  <1>4. QED BY <1>2, <1>3 DEF GetJob

\* jobs.db is asked for the jobs of a page, or cannot be asked.
LEMMA JoinMaps ==
  ASSUME MapInv, NEW c \in Clients, Join(c) \/ JobsUnavailable(c)
  PROVE  Service!Deny(c) \/ Service!Compare(c)
  <1>0. /\ TypeOK /\ Handle(c) /\ UNCHANGED <<db, jobs, req>>
    BY DEF MapInv, StoreInv, Handle, Read, Join, JobsUnavailable
  <1>1. CASE /\ pc[c] \in {"job_check", "gate"}
             /\ \E status \in FaultStatuses : Refuse(c, status)
    <2>1. PhaseOf(c) = "open"
      BY <1>1 DEF PhaseOf
    <2>2. QED BY <1>0, <1>1, <2>1, FaultDenies
  <1>2. ASSUME pc[c] = "join" PROVE Phases[c] = "looked" /\ Outcomes[c] = ans[c]
    BY <1>2 DEF Phases, Outcomes, PhaseOf, OutcomeOf
  <1>3. CASE pc[c] = "join" /\ \E status \in FaultStatuses : Refuse(c, status)
    <2>1. PICK status \in FaultStatuses : Refuse(c, status)
      BY <1>3
    <2>2. pc'[c] = "close" /\ ans'[c] = [Blank EXCEPT !.status = status]
      BY <1>0, <2>1 DEF Refuse, Goto, TypeOK
    <2>3. PhaseOf(c)' = "refused" /\ OutcomeOf(c)' = Service!Told(status)
      BY <2>2 DEF PhaseOf, OutcomeOf, Service!Told, Service!Blank, Blank
    <2>4. Service!Settle(c, "refused", Service!Told(status))
      BY <1>0, <2>3, Settles
    <2>5. QED BY <1>2, <1>3, <2>4 DEF Service!Compare, Phases, FaultStatuses
  <1>4. CASE /\ pc[c] = "join" /\ Goto(c, "answer")
             /\ ans[c].page \cap Present(jobs) \subseteq Servable(jobs)
             /\ ans' = [ans EXCEPT ![c].missing = ans[c].page \ Present(jobs)]
    <2>1. /\ pc'[c] = "answer"
          /\ ans'[c] = [ans[c] EXCEPT !.missing = ans[c].page \ Present(jobs)]
      BY <1>0, <1>4 DEF Goto, TypeOK
    <2>2. /\ PhaseOf(c)' = "done"
          /\ OutcomeOf(c)' =
               [Outcomes[c] EXCEPT !.missing = Outcomes[c].page \ Service!Present(jobs)]
      BY <1>2, <1>4, <2>1, SameCatalogue DEF PhaseOf, OutcomeOf
    <2>3. Service!Settle(c, "done",
            [Outcomes[c] EXCEPT !.missing = Outcomes[c].page \ Service!Present(jobs)])
      BY <1>0, <2>2, Settles
    <2>4. QED BY <1>2, <1>4, <2>3, SameCatalogue DEF Service!Compare, Phases, Outcomes
  <1>5. QED BY <1>1, <1>3, <1>4 DEF Join, JobsUnavailable, FaultStatuses

LEMMA EndTells ==
  ASSUME MapInv, NEW c \in Clients, Reply(c) \/ Close(c)
  PROVE  Service!Tell(c)
  <1>0. /\ TypeOK /\ Handle(c) /\ UNCHANGED <<db, jobs>> /\ pc[c] \in {"answer", "close"}
        /\ Forget(c)
    BY DEF MapInv, StoreInv, Handle, Reply, Close
  <1>1. /\ pc'[c] = "idle" /\ ans'[c] = Blank /\ req' = [req EXCEPT ![c] = None]
    BY <1>0 DEF Forget, Goto, TypeOK
  <1>2. PhaseOf(c) \in {"done", "refused"} /\ PhaseOf(c)' = "idle"
    BY <1>0, <1>1 DEF PhaseOf
  <1>3. OutcomeOf(c)' = Service!Blank
    BY <1>1 DEF OutcomeOf, Service!Blank, Blank
  <1>4. /\ Phases' = [Phases EXCEPT ![c] = "idle"]
        /\ Outcomes' = [Outcomes EXCEPT ![c] = Service!Blank]
    BY <1>0, <1>2, <1>3, OthersKept
  <1>5. Phases[c] \in {"done", "refused"}
    BY <1>2 DEF Phases
  <1>6. QED BY <1>0, <1>1, <1>4, <1>5 DEF Service!Tell, Service!Set, Phases, Outcomes

-----------------------------------------------------------------------------
(* All together                                                             *)

\* The scraper and the crash.
LEMMA OutsideMaps ==
  ASSUME MapInv
  PROVE  /\ Scrape => Service!Publish
         /\ Crash => Service!Drop
         /\ UNCHANGED vars => UNCHANGED <<db, jobs, Phases, req, Outcomes>>
  <1>1. ASSUME UNCHANGED <<pc, req, snap, ans>>
        PROVE  Phases' = Phases /\ Outcomes' = Outcomes
    <2>1. ASSUME NEW c \in Clients
          PROVE  PhaseOf(c)' = PhaseOf(c) /\ OutcomeOf(c)' = OutcomeOf(c)
      <3>1. PhaseOf(c)' = PhaseOf(c)
        BY <1>1 DEF PhaseOf
      <3>2. Listed(c, snap[c])' = Listed(c, snap[c])
        BY <1>1 DEF Listed
      <3>3. QED BY <1>1, <3>1, <3>2 DEF OutcomeOf, Blank
    <2>2. QED BY <2>1 DEF Phases, Outcomes
  <1>2. Scrape => Service!Publish
    BY <1>1 DEF Scrape, Service!Publish, Phases, Outcomes
  <1>3. ASSUME Crash PROVE Service!Drop
    <2>1. ASSUME NEW c \in Clients
          PROVE  PhaseOf(c)' = "idle" /\ OutcomeOf(c)' = Service!Blank
      BY <1>3 DEF Crash, PhaseOf, OutcomeOf, Service!Blank, Blank
    <2>2. QED BY <1>3, <2>1 DEF Crash, Service!Drop
  <1>4. UNCHANGED vars => UNCHANGED <<db, jobs, Phases, req, Outcomes>>
    BY <1>1 DEF vars
  <1>5. QED BY <1>2, <1>3, <1>4

\* Each step of the write path is a step of the service it promises, or none of its.
LEMMA StepMaps == MapInv /\ [Next]_vars => [Service!SNext]_(Service!svars)
  <1> SUFFICES ASSUME MapInv, [Next]_vars
               PROVE  \/ Service!SNext
                      \/ UNCHANGED <<db, jobs, Phases, req, Outcomes>>
    BY DEF Service!svars, Phases, Outcomes
  <1>1. CASE \E c \in Clients : Receive(c) \/ OpenFails(c) \/ Handle(c)
    <2>1. PICK c \in Clients : Receive(c) \/ OpenFails(c) \/ Handle(c)
      BY <1>1
    <2>2. CASE Write(c)
      BY <2>2, WriteMaps, CommitPerforms DEF Service!SNext, Service!Serve
    <2>3. CASE Read(c)
      BY <2>3, GetMaps, PageMaps, CountUnseen, JobMaps, JoinMaps, EntryConfirms
         DEF Read, Service!SNext, Service!Serve
    <2>4. CASE Receive(c) \/ OpenFails(c) \/ Reply(c) \/ Close(c)
      BY <2>4, ReceiveOpens, OpenFailsDenies, EndTells DEF Service!SNext, Service!Serve
    <2>5. QED BY <2>1, <2>2, <2>3, <2>4 DEF Handle
  <1>2. CASE Scrape \/ Crash \/ UNCHANGED vars
    BY <1>2, OutsideMaps DEF Service!SNext
  <1>3. QED BY <1>1, <1>2 DEF Next

\* The write path implements its service: whatever the handlers interleave and
\* wherever they crash, each request takes effect whole at one moment, is refused for
\* a reason that holds at one moment, or does nothing, and is told which.
THEOREM StoreImplements == Spec => ImplementsService
  <1>1. Init => Service!SInit
    <2> SUFFICES ASSUME Init PROVE Service!SInit
      OBVIOUS
    <2>1. \A c \in Clients : PhaseOf(c) = "idle" /\ OutcomeOf(c) = Service!Blank
      BY DEF Init, PhaseOf, OutcomeOf, Service!Blank, Blank
    <2>2. QED BY <2>1 DEF Init, Service!SInit, Service!Ids, Ids, Service!Catalogue, Catalogue
  <1>2. QED BY <1>1, StepMaps, MapInvAlways, PTL
           DEF Spec, ImplementsService, Service!SSpec

=============================================================================
