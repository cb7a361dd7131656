------------------------ MODULE WatchlistStore_proofs ------------------------
(***************************************************************************)
(* Proofs about WatchlistStore, for every set of handlers, names, jobs and *)
(* requests and every MaxId.                                               *)
(***************************************************************************)
EXTENDS WatchlistStore, TLAPS, FiniteSetTheorems

-----------------------------------------------------------------------------
(* Images                                                                   *)

\* The statements that change a row give an image again.
LEMMA ImageChanges ==
  ASSUME NEW d \in Image, NEW i \in Ids
  PROVE  /\ \A row \in Row : WithRow(d, i, row) \in Image
         /\ WithoutList(d, i) \in Image
         /\ \A j \in Jobs : /\ [d EXCEPT !.items = @ \cup {<<i, j>>}] \in Image
                            /\ [d EXCEPT !.items = @ \ {<<i, j>>}] \in Image
  BY DEF Image, WithRow, WithoutList

\* A PATCH that keeps or sets a name makes a row.
LEMMA MergedIsRow ==
  ASSUME NEW row \in Row, NEW r \in Request, r.name # None
  PROVE  Merged(row, r) \in Row
  BY DEF Merged, Row, Request

\* A listing has finitely many members, so its total is a number.
LEMMA TotalsAreNumbers ==
  ASSUME NEW d
  PROVE  /\ Cardinality(Existing(d)) \in Nat
         /\ \A i : Cardinality(ItemsOf(d, i)) \in Nat
  <1>1. IsFiniteSet(Ids)
    BY FS_Interval, BoundAssumption DEF Ids
  <1>2. Cardinality(Existing(d)) \in Nat
    <2>1. Existing(d) \subseteq Ids
      BY DEF Existing
    <2>2. QED BY <1>1, <2>1, FS_Subset, FS_CardinalityType
  <1>3. ASSUME NEW i PROVE Cardinality(ItemsOf(d, i)) \in Nat
    <2>1. ItemsOf(d, i) \subseteq Jobs
      BY DEF ItemsOf
    <2>2. QED BY FiniteAssumption, <2>1, FS_Subset, FS_CardinalityType
  <1>4. QED BY <1>2, <1>3

\* An answer nothing has been put in is an answer.
LEMMA BlankIsAnswer == Blank \in Answer
  BY DEF Blank, Answer, Statuses

-----------------------------------------------------------------------------
(* Sound images, and what one statement may do to an image                  *)

OrphanFree(d) == \A p \in d.items : p[1] \in Existing(d)

DistinctNames(d) ==
  \A i, k \in Existing(d) : Fold[d.lists[i].name] = Fold[d.lists[k].name] => i = k

Sound(d) == OrphanFree(d) /\ DistinctNames(d)

\* The statement of request r that makes image e of image d and answers a changes
\* one watchlist or its items, and a row it creates is new and has no items.
Change(r, d, e, a) ==
  LET touched == IF r.kind = "create" THEN a.id ELSE r.id IN
  /\ \A i \in Ids \ {touched} : /\ e.lists[i] = d.lists[i]
                                /\ ItemsOf(e, i) = ItemsOf(d, i)
  /\ r.kind \in {"create", "put", "patch"} => e.items = d.items
  /\ r.kind \in {"add", "remove"} => e.lists = d.lists
  /\ r.kind = "create" => ItemsOf(e, a.id) = {} /\ a.id \notin Existing(d)

\* A row whose name nobody else has keeps an image sound.
LEMMA RowPut ==
  ASSUME NEW d \in Image, Sound(d), NEW i \in Ids, NEW row \in Row,
         ~NameTaken(d, row.name, i)
  PROVE  /\ Sound(WithRow(d, i, row))
         /\ WithRow(d, i, row).items = d.items
         /\ \A k \in Ids \ {i} : WithRow(d, i, row).lists[k] = d.lists[k]
  <1> DEFINE e == WithRow(d, i, row)
  <1>1. e.items = d.items /\ e.lists = [d.lists EXCEPT ![i] = row]
    BY DEF WithRow, Image
  <1>2. /\ \A k \in Ids \ {i} : e.lists[k] = d.lists[k]
        /\ e.lists[i] = row
    BY <1>1 DEF Image
  <1>3. Existing(e) = Existing(d) \cup {i}
    BY <1>2, NoneAssumption DEF Existing
  <1>4. OrphanFree(e)
    BY <1>1, <1>3 DEF Sound, OrphanFree
  <1>5. \A k \in Existing(d) \ {i} : Fold[e.lists[k].name] # Fold[row.name]
    BY <1>2 DEF NameTaken, Existing
  <1>6. \A k, m \in Existing(d) \ {i} :
          Fold[e.lists[k].name] = Fold[e.lists[m].name] => k = m
    BY <1>2 DEF Sound, DistinctNames, Existing
  <1>7. DistinctNames(e)
    BY <1>2, <1>3, <1>5, <1>6 DEF DistinctNames
  <1>8. QED BY <1>1, <1>2, <1>4, <1>7 DEF Sound

\* A watchlist goes with its items, so no orphan is left.
LEMMA ListGone ==
  ASSUME NEW d \in Image, Sound(d), NEW i \in Ids
  PROVE  /\ Sound(WithoutList(d, i))
         /\ \A k \in Ids \ {i} : /\ WithoutList(d, i).lists[k] = d.lists[k]
                                /\ ItemsOf(WithoutList(d, i), k) = ItemsOf(d, k)
  <1> DEFINE e == WithoutList(d, i)
  <1>1. e.items = {p \in d.items : p[1] # i} /\ e.lists = [d.lists EXCEPT ![i] = None]
    BY DEF WithoutList
  <1>2. /\ \A k \in Ids \ {i} : e.lists[k] = d.lists[k]
        /\ e.lists[i] = None
    BY <1>1 DEF Image
  <1>3. Existing(e) = Existing(d) \ {i}
    BY <1>2 DEF Existing
  <1>4. OrphanFree(e)
    BY <1>1, <1>3 DEF Sound, OrphanFree
  <1>5. DistinctNames(e)
    BY <1>2, <1>3 DEF Sound, DistinctNames, Existing
  <1>6. \A k \in Ids \ {i} : ItemsOf(e, k) = ItemsOf(d, k)
    BY <1>1 DEF ItemsOf
  <1>7. QED BY <1>2, <1>4, <1>5, <1>6 DEF Sound

\* An item comes to a watchlist that exists, or goes.
LEMMA ItemChanged ==
  ASSUME NEW d \in Image, Sound(d), NEW i \in Ids, NEW j \in Jobs, NEW e,
         \/ i \in Existing(d) /\ e = [d EXCEPT !.items = @ \cup {<<i, j>>}]
         \/ e = [d EXCEPT !.items = @ \ {<<i, j>>}]
  PROVE  /\ Sound(e)
         /\ e.lists = d.lists
         /\ \A k \in Ids \ {i} : ItemsOf(e, k) = ItemsOf(d, k)
  <1>1. e.lists = d.lists
    BY DEF Image
  <1>2. Existing(e) = Existing(d)
    BY <1>1 DEF Existing
  <1>3. \/ i \in Existing(d) /\ e.items = d.items \cup {<<i, j>>}
        \/ e.items = d.items \ {<<i, j>>}
    BY DEF Image
  <1>4. OrphanFree(e)
    BY <1>2, <1>3 DEF Sound, OrphanFree
  <1>5. DistinctNames(e)
    BY <1>1, <1>2 DEF Sound, DistinctNames
  <1>6. \A k \in Ids \ {i} : ItemsOf(e, k) = ItemsOf(d, k)
    BY <1>3 DEF ItemsOf
  <1>7. QED BY <1>1, <1>4, <1>5, <1>6 DEF Sound

-----------------------------------------------------------------------------
(* Types                                                                    *)

\* Initially every handler is idle and app.db is empty.
LEMMA InitTypeOK == Init => TypeOK
  BY BlankIsAnswer DEF Init, TypeOK, Image, Steps

\* What a statement reads from is an image of app.db, snapshot or not.
LEMMA ViewIsImage ==
  ASSUME TypeOK, NEW c \in Clients
  PROVE  View(c) \in Image
  BY DEF TypeOK, View

\* The rows of a listing make a page, and their number a total.
LEMMA ListedIsPage ==
  ASSUME NEW c, NEW d
  PROVE  /\ Listed(c, d) \in SUBSET (Ids \cup Jobs)
         /\ Cardinality(Listed(c, d)) \in Nat
  BY TotalsAreNumbers DEF Listed, Existing, ItemsOf

\* Taking a request.
LEMMA ReceiveTypeOK ==
  ASSUME TypeOK, NEW c \in Clients, Receive(c)
  PROVE  TypeOK'
  <1>1. PICK r \in Requests : /\ req' = [req EXCEPT ![c] = r]
                              /\ pc' = [pc EXCEPT ![c] = FirstStep(r.kind)]
    BY DEF Receive, Goto
  <1>2. r \in Request /\ r # None
    BY RequestAssumption, NoneAssumption
  <1>3. FirstStep(r.kind) \in Steps \ {"idle"}
    BY <1>2 DEF Request, Kinds, FirstStep, Steps
  <1>4. QED
    BY <1>1, <1>2, <1>3 DEF TypeOK, Receive

\* A request that cannot open app.db has not begun.
LEMMA OpenFailsFirst ==
  ASSUME TypeOK, NEW c \in Clients, OpenFails(c)
  PROVE  /\ pc[c] \in {"write", "select", "page", "gate", "job_check", "list_check"}
         /\ \E status \in FaultStatuses : Refuse(c, status)
  <1>1. req[c] \in Request
    BY RequestAssumption DEF OpenFails, TypeOK
  <1>2. FirstStep(req[c].kind) \in
          {"write", "select", "page", "gate", "job_check", "list_check"}
    BY <1>1 DEF Request, Kinds, FirstStep
  <1>3. QED BY <1>2 DEF OpenFails

\* Leaving a request for the teardown, or forgetting it.
LEMMA RefuseTypeOK ==
  ASSUME TypeOK, NEW c \in Clients, NEW status, Refuse(c, status), pc[c] # "idle"
  PROVE  /\ pc' \in [Clients -> Steps]
         /\ ans' \in [Clients -> Answer]
         /\ \A o \in Clients : pc'[o] = "idle" <=> req[o] = None
  <1>1. [Blank EXCEPT !.status = status] \in Answer
    BY DEF Blank, Answer, Statuses, Refuse
  <1>2. QED
    BY <1>1 DEF TypeOK, Refuse, Goto, Steps

\* A request that cannot open app.db keeps the types.
LEMMA OpenFailsTypeOK ==
  ASSUME TypeOK, NEW c \in Clients, OpenFails(c)
  PROVE  TypeOK'
  <1>1. PICK status : pc[c] # "idle" /\ Refuse(c, status)
    BY OpenFailsFirst
  <1>2. QED BY <1>1, RefuseTypeOK DEF OpenFails, TypeOK

\* A statement that built an image keeps the types.
LEMMA ExecuteTypeOK ==
  ASSUME TypeOK, NEW c \in Clients, NEW image \in Image, NEW answer \in Answer,
         Execute(c, image, answer), pc[c] = "write"
  PROVE  TypeOK'
  BY DEF TypeOK, Execute, Goto, Steps

\* A statement that was rejected keeps the types.
LEMMA RejectTypeOK ==
  ASSUME TypeOK, NEW c \in Clients, NEW status, Reject(c, status), pc[c] = "write"
  PROVE  TypeOK'
  <1>1. Refuse(c, status)
    BY DEF Reject
  <1>2. QED
    BY <1>1, RefuseTypeOK DEF TypeOK, Reject

\* A writing statement that runs finds the lock free, and is either rejected or
\* builds an image of app.db that is as sound as the one it found.  A 409 is for a
\* name another watchlist has, for an item that is there, or for the null name.
Cause(r, d) ==
  \/ r.kind = "add" /\ <<r.id, r.job>> \in d.items
  \/ r.kind = "patch" /\ r.name = None
  \/ r.name \in Names /\ NameTaken(d, r.name, IF r.kind = "create" THEN 0 ELSE r.id)

Rejected(c) ==
  \E status \in Refusals :
    Reject(c, status) /\ (status = "duplicate" => Cause(req[c], db))

Executed(c) ==
  \E image \in Image, answer \in Answer :
    /\ Execute(c, image, answer)
    /\ Sound(db) => Sound(image) /\ Change(req[c], db, image, answer)

\* The outcomes of POST /watchlists.
LEMMA CreateCases ==
  ASSUME TypeOK, NEW c \in Clients, CreateWatchlist(c)
  PROVE  Rejected(c) \/ Executed(c)
  <1> DEFINE r == req[c]
             row == [name |-> r.name, desc |-> r.desc]
  <1>1. r \in Requests /\ r.kind = "create"
    BY DEF CreateWatchlist, CanWrite, At, TypeOK
  <1>2. row \in Row
    BY <1>1, RequestAssumption DEF Valid, Request, Row
  <1>0. ASSUME NameTaken(db, r.name, 0), Reject(c, "duplicate") PROVE Rejected(c)
    BY <1>0, <1>1, RequestAssumption DEF Rejected, Refusals, Cause, Valid
  <1> SUFFICES ASSUME ~NameTaken(db, r.name, 0),
                      NEW i \in Ids, IsNextId(db, i),
                      Execute(c, WithRow(db, i, row),
                              [Blank EXCEPT !.status = "created", !.id = i, !.row = row])
               PROVE  Executed(c)
    BY <1>0 DEF CreateWatchlist
  <1> DEFINE a == [Blank EXCEPT !.status = "created", !.id = i, !.row = row]
             e == WithRow(db, i, row)
  <1>3. a \in Answer /\ a.id = i
    BY <1>2 DEF Blank, Answer, Statuses
  <1>4. e \in Image
    BY <1>2, ImageChanges DEF TypeOK
  <1>5. i \notin Existing(db)
    BY DEF IsNextId, Existing, Ids
  <1>6. ASSUME Sound(db) PROVE Sound(e) /\ Change(r, db, e, a)
    <2>1. ~NameTaken(db, row.name, i)
      BY <1>5 DEF NameTaken, Existing, Ids
    <2>2. /\ Sound(e)
          /\ e.items = db.items
          /\ \A k \in Ids \ {i} : e.lists[k] = db.lists[k]
      BY <1>2, <1>6, <2>1, RowPut DEF TypeOK
    <2>3. ItemsOf(e, i) = {}
      BY <1>5, <1>6, <2>2 DEF Sound, OrphanFree, ItemsOf
    <2>4. QED BY <1>1, <1>3, <1>5, <2>2, <2>3 DEF Change, ItemsOf
  <1>7. QED BY <1>3, <1>4, <1>6 DEF Executed

\* PUT and PATCH, once they have the row they write.
LEMMA RowExecuted ==
  ASSUME TypeOK, NEW c \in Clients, req[c].kind \in {"put", "patch"},
         req[c].id \in Existing(db), NEW row \in Row,
         Sound(db) => ~NameTaken(db, row.name, req[c].id),
         Execute(c, WithRow(db, req[c].id, row), Blank)
  PROVE  Executed(c)
  <1> DEFINE r == req[c]
             e == WithRow(db, r.id, row)
  <1>1. r.id \in Ids
    BY DEF Existing
  <1>2. e \in Image
    BY <1>1, ImageChanges DEF TypeOK
  <1>3. ASSUME Sound(db) PROVE Sound(e) /\ Change(r, db, e, Blank)
    <2>1. /\ Sound(e)
          /\ e.items = db.items
          /\ \A k \in Ids \ {r.id} : e.lists[k] = db.lists[k]
      BY <1>1, <1>3, RowPut DEF TypeOK
    <2>2. QED BY <2>1 DEF Change, ItemsOf
  <1>4. QED BY <1>2, <1>3, BlankIsAnswer DEF Executed

\* The outcomes of PUT /watchlists/{id}.
LEMMA ReplaceCases ==
  ASSUME TypeOK, NEW c \in Clients, ReplaceWatchlist(c)
  PROVE  Rejected(c) \/ Executed(c)
  <1> DEFINE r == req[c]
             row == [name |-> r.name, desc |-> r.desc]
  <1>1. r \in Requests /\ r.kind = "put"
    BY DEF ReplaceWatchlist, CanWrite, At, TypeOK
  <1>2. row \in Row
    BY <1>1, RequestAssumption DEF Valid, Request, Row
  <1>3. CASE \/ Reject(c, "watchlist_not_found")
             \/ NameTaken(db, r.name, r.id) /\ Reject(c, "duplicate")
    BY <1>1, <1>3, RequestAssumption DEF Rejected, Refusals, Cause, Valid
  <1>4. CASE /\ r.id \in Existing(db) /\ ~NameTaken(db, r.name, r.id)
             /\ Execute(c, WithRow(db, r.id, row), Blank)
    BY <1>1, <1>2, <1>4, RowExecuted
  <1>5. QED BY <1>3, <1>4 DEF ReplaceWatchlist

\* The outcomes of PATCH /watchlists/{id}: the name it writes is its own, or free.
LEMMA UpdateCases ==
  ASSUME TypeOK, NEW c \in Clients, UpdateWatchlist(c)
  PROVE  Rejected(c) \/ Executed(c)
  <1> DEFINE r == req[c]
             row == Merged(db.lists[r.id], r)
             refused == r.name = None \/ (r.name \in Names /\ NameTaken(db, r.name, r.id))
  <1>1. r \in Requests /\ r.kind = "patch"
    BY DEF UpdateWatchlist, CanWrite, At, TypeOK
  <1>2. CASE Reject(c, "watchlist_not_found") \/ (refused /\ Reject(c, "duplicate"))
    BY <1>1, <1>2 DEF Rejected, Refusals, Cause
  <1>3. CASE /\ r.id \in Existing(db) /\ ~refused
             /\ Execute(c, WithRow(db, r.id, row), Blank)
    <2>1. db.lists[r.id] \in Row
      BY <1>3 DEF TypeOK, Image, Existing
    <2>2. row \in Row
      BY <1>1, <1>3, <2>1, MergedIsRow, RequestAssumption
    <2>3. ASSUME Sound(db) PROVE ~NameTaken(db, row.name, r.id)
      <3>1. CASE r.name = Unset
        <4>1. row.name = db.lists[r.id].name
          BY <3>1 DEF Merged
        <4>2. QED BY <1>3, <2>3, <4>1 DEF Sound, DistinctNames, NameTaken
      <3>2. CASE r.name # Unset
        <4>1. row.name = r.name /\ r.name \in Names
          BY <1>1, <1>3, <3>2, RequestAssumption DEF Merged, Request
        <4>2. QED BY <1>3, <4>1
      <3>3. QED BY <3>1, <3>2
    <2>4. QED BY <1>1, <1>3, <2>2, <2>3, RowExecuted
  <1>4. QED BY <1>2, <1>3 DEF UpdateWatchlist

\* The outcomes of DELETE /watchlists/{id}.
LEMMA DeleteCases ==
  ASSUME TypeOK, NEW c \in Clients, DeleteWatchlist(c)
  PROVE  Rejected(c) \/ Executed(c)
  <1> DEFINE i == req[c].id
             e == WithoutList(db, i)
             a == [Blank EXCEPT !.status = "no_content"]
  <1>1. req[c] \in Request /\ req[c].kind = "delete"
    BY RequestAssumption DEF DeleteWatchlist, CanWrite, At, TypeOK
  <1>2. i \in Ids
    BY <1>1 DEF Request
  <1>3. CASE Reject(c, "watchlist_not_found")
    BY <1>3 DEF Rejected, Refusals
  <1>4. CASE Execute(c, e, a)
    <2>1. e \in Image
      BY <1>2, ImageChanges DEF TypeOK
    <2>2. a \in Answer
      BY DEF Blank, Answer, Statuses
    <2>3. ASSUME Sound(db) PROVE Sound(e) /\ Change(req[c], db, e, a)
      BY <1>1, <1>2, <2>3, ListGone DEF TypeOK, Change
    <2>4. QED BY <1>4, <2>1, <2>2, <2>3 DEF Executed
  <1>5. QED BY <1>3, <1>4 DEF DeleteWatchlist

\* Adding or removing an item, once it was found possible.
LEMMA ItemExecuted ==
  ASSUME TypeOK, NEW c \in Clients, req[c] \in Request, req[c].kind \in {"add", "remove"},
         NEW e, NEW a \in Answer, Execute(c, e, a),
         \/ /\ req[c].id \in Existing(db)
            /\ e = [db EXCEPT !.items = @ \cup {<<req[c].id, req[c].job>>}]
         \/ e = [db EXCEPT !.items = @ \ {<<req[c].id, req[c].job>>}]
  PROVE  Executed(c)
  <1>1. req[c].id \in Ids /\ req[c].job \in Jobs
    BY DEF Request
  <1>2. e \in Image
    <2>1. /\ [db EXCEPT !.items = @ \cup {<<req[c].id, req[c].job>>}] \in Image
          /\ [db EXCEPT !.items = @ \ {<<req[c].id, req[c].job>>}] \in Image
      BY <1>1, ImageChanges DEF TypeOK
    <2>2. QED BY <2>1
  <1>3. ASSUME Sound(db) PROVE Sound(e) /\ Change(req[c], db, e, a)
    <2>1. /\ Sound(e)
          /\ e.lists = db.lists
          /\ \A k \in Ids \ {req[c].id} : ItemsOf(e, k) = ItemsOf(db, k)
      BY <1>1, <1>3, ItemChanged DEF TypeOK
    <2>2. QED BY <2>1 DEF Change
  <1>4. QED BY <1>2, <1>3 DEF Executed

\* The outcomes of POST /watchlists/{id}/jobs, after its checks.
LEMMA AddCases ==
  ASSUME TypeOK, NEW c \in Clients, AddItem(c)
  PROVE  Rejected(c) \/ Executed(c)
  <1> DEFINE r == req[c]
             a == ans[c]
             e == [db EXCEPT !.items = @ \cup {<<r.id, r.job>>}]
  <1>1. r \in Request /\ r.kind = "add"
    BY RequestAssumption DEF AddItem, CanWrite, At, TypeOK
  <1>2. CASE \/ Reject(c, "watchlist_not_found")
             \/ <<r.id, r.job>> \in db.items /\ Reject(c, "duplicate")
    BY <1>1, <1>2 DEF Rejected, Refusals, Cause
  <1>3. CASE r.id \in Existing(db) /\ Execute(c, e, a)
    <2>1. a \in Answer
      BY DEF TypeOK
    <2>2. QED BY <1>1, <1>3, <2>1, ItemExecuted
  <1>4. QED BY <1>2, <1>3 DEF AddItem

\* The outcomes of DELETE /watchlists/{id}/jobs/{job}, after its check.
LEMMA RemoveCases ==
  ASSUME TypeOK, NEW c \in Clients, RemoveItem(c)
  PROVE  Rejected(c) \/ Executed(c)
  <1> DEFINE r == req[c]
             a == [Blank EXCEPT !.status = "no_content"]
             e == [db EXCEPT !.items = @ \ {<<r.id, r.job>>}]
  <1>1. r \in Request /\ r.kind = "remove"
    BY RequestAssumption DEF RemoveItem, CanWrite, At, TypeOK
  <1>2. CASE Reject(c, "item_not_found")
    BY <1>2 DEF Rejected, Refusals
  <1>3. CASE Execute(c, e, a)
    <2>1. a \in Answer
      BY DEF Blank, Answer, Statuses
    <2>2. QED BY <1>1, <1>3, <2>1, ItemExecuted
  <1>4. QED BY <1>2, <1>3 DEF RemoveItem

\* Every writing step is a time-out, a commit, or a statement run under the free
\* lock that is rejected or builds an image.
LEMMA WriteCases ==
  ASSUME TypeOK, NEW c \in Clients, Write(c)
  PROVE  \/ Busy(c)
         \/ Commit(c)
         \/ pc[c] = "write" /\ writer = None /\ (Rejected(c) \/ Executed(c))
  <1> DEFINE Statement == \/ CreateWatchlist(c) \/ ReplaceWatchlist(c)
                          \/ UpdateWatchlist(c) \/ DeleteWatchlist(c)
                          \/ AddItem(c) \/ RemoveItem(c)
  <1>1. ASSUME Statement PROVE pc[c] = "write" /\ writer = None
    BY <1>1 DEF CreateWatchlist, ReplaceWatchlist, UpdateWatchlist, DeleteWatchlist,
          AddItem, RemoveItem, CanWrite, At
  <1>2. ASSUME Statement PROVE Rejected(c) \/ Executed(c)
    BY <1>2, CreateCases, ReplaceCases, UpdateCases, DeleteCases, AddCases, RemoveCases
  <1>3. QED BY <1>1, <1>2 DEF Write

\* Statements that write, and commits, keep the types.
LEMMA WriteTypeOK ==
  ASSUME TypeOK, LockHeldOnlyByOpenWrite, NEW c \in Clients, Write(c)
  PROVE  TypeOK'
  <1>1. CASE Busy(c)
    <2>1. pc[c] # "idle" /\ Refuse(c, "unavailable")
      BY <1>1 DEF Busy, At
    <2>2. QED BY <1>1, <2>1, RefuseTypeOK DEF Busy, TypeOK
  <1>2. CASE Commit(c)
    <2>1. work[c] \in Image /\ pc[c] # "idle"
      BY <1>2, NoneAssumption DEF Commit, LockHeldOnlyByOpenWrite, TypeOK
    <2>2. AfterCommit(req[c].kind) \in Steps \ {"idle"}
      BY DEF AfterCommit, Steps
    <2>3. QED BY <1>2, <2>1, <2>2 DEF Commit, TypeOK, Goto
  <1>3. CASE pc[c] = "write" /\ (Rejected(c) \/ Executed(c))
    BY <1>3, RejectTypeOK, ExecuteTypeOK DEF Rejected, Executed
  <1>4. QED BY <1>1, <1>2, <1>3, WriteCases

\* Statements that read keep the types.
LEMMA ReadTypeOK ==
  ASSUME TypeOK, NEW c \in Clients, Read(c)
  PROVE  TypeOK'
  <1>1. CASE GetWatchlist(c)
    <2>1. pc[c] # "idle"
      BY <1>1 DEF GetWatchlist
    <2>2. CASE Refuse(c, "watchlist_not_found")
      BY <1>1, <2>1, <2>2, RefuseTypeOK DEF GetWatchlist, TypeOK
    <2>3. CASE Goto(c, "write") /\ UNCHANGED ans
      BY <1>1, <2>1, <2>3 DEF GetWatchlist, TypeOK, Goto, Steps
    <2>4. ASSUME req[c].id \in Existing(db), Goto(c, "answer"),
                 ans' = [ans EXCEPT ![c] = RowAnswer(db, req[c].id)]
          PROVE  TypeOK'
      <3>1. req[c].id \in Ids /\ db.lists[req[c].id] \in Row
        BY <2>4 DEF Existing, TypeOK, Image
      <3>2. Cardinality(ItemsOf(db, req[c].id)) \in Nat
        BY TotalsAreNumbers
      <3>3. RowAnswer(db, req[c].id) \in Answer
        BY <3>1, <3>2 DEF RowAnswer, Blank, Answer, Statuses
      <3>4. QED BY <1>1, <2>1, <2>4, <3>3 DEF GetWatchlist, TypeOK, Goto, Steps
    <2>5. QED BY <1>1, <2>2, <2>3, <2>4 DEF GetWatchlist
  <1>2. CASE Gate(c)
    <2>1. pc[c] # "idle" /\ View(c) \in Image
      BY <1>2, ViewIsImage DEF Gate
    <2>2. CASE Refuse(c, "watchlist_not_found") /\ UNCHANGED snap
      BY <1>2, <2>1, <2>2, RefuseTypeOK DEF Gate, TypeOK
    <2>3. CASE Goto(c, "page") /\ snap' = [snap EXCEPT ![c] = View(c)] /\ UNCHANGED ans
      BY <1>2, <2>1, <2>3 DEF Gate, TypeOK, Goto, Steps
    <2>4. QED BY <1>2, <2>2, <2>3 DEF Gate
  <1>3. CASE Page(c)
    <2>1. View(c) \in Image
      BY ViewIsImage
    <2>2. [Blank EXCEPT !.page = Listed(c, View(c))] \in Answer
      BY ListedIsPage DEF Blank, Answer, Statuses
    <2>3. QED BY <1>3, <2>1, <2>2 DEF Page, TypeOK, Goto, Steps
  <1>4. CASE Count(c)
    <2>1. [ans[c] EXCEPT !.count = Cardinality(Listed(c, View(c))), !.status = "ok"]
             \in Answer
      <3>1. PICK n : n = Cardinality(Listed(c, View(c)))
        OBVIOUS
      <3>2. n \in Nat /\ ans[c] \in Answer
        BY <3>1, ListedIsPage DEF TypeOK
      <3>3. [ans[c] EXCEPT !.count = n, !.status = "ok"] \in Answer
        BY <3>2 DEF Answer, Statuses
      <3>4. QED BY <3>1, <3>3
    <2>2. ans' = [ans EXCEPT ![c] =
                   [ans[c] EXCEPT !.count = Cardinality(Listed(c, View(c))), !.status = "ok"]]
      BY <1>4 DEF Count, TypeOK, Answer
    <2>3. QED BY <1>4, <2>1, <2>2 DEF Count, TypeOK, Goto, Steps
  <1>5. CASE GetJob(c)
    <2>1. pc[c] # "idle"
      BY <1>5 DEF GetJob
    <2>2. CASE Refuse(c, "job_not_found")
      BY <1>5, <2>1, <2>2, RefuseTypeOK DEF GetJob, TypeOK
    <2>3. CASE /\ req[c].job \in Present(jobs) /\ Goto(c, "list_check")
               /\ ans' = [ans EXCEPT ![c] =
                             [Blank EXCEPT !.page = {req[c].job} \cap Servable(jobs)]]
      <3>1. {req[c].job} \cap Servable(jobs) \in SUBSET (Ids \cup Jobs)
        BY DEF Servable
      <3>2. [Blank EXCEPT !.page = {req[c].job} \cap Servable(jobs)] \in Answer
        BY <3>1 DEF Blank, Answer, Statuses
      <3>3. QED BY <1>5, <2>1, <2>3, <3>2 DEF GetJob, TypeOK, Goto, Steps
    <2>4. QED BY <1>5, <2>2, <2>3 DEF GetJob
  <1>6. CASE Join(c)
    <2>1. pc[c] # "idle"
      BY <1>6 DEF Join
    <2>2. CASE Refuse(c, "internal_error")
      BY <1>6, <2>1, <2>2, RefuseTypeOK DEF Join, TypeOK
    <2>3. CASE /\ Goto(c, "answer")
               /\ ans' = [ans EXCEPT ![c].missing = ans[c].page \ Present(jobs)]
      <3>1. [ans[c] EXCEPT !.missing = ans[c].page \ Present(jobs)] \in Answer
        BY DEF Answer, TypeOK
      <3>2. ans' = [ans EXCEPT ![c] =
                     [ans[c] EXCEPT !.missing = ans[c].page \ Present(jobs)]]
        BY <2>3 DEF TypeOK, Answer
      <3>3. QED BY <1>6, <2>1, <2>3, <3>1, <3>2 DEF Join, TypeOK, Goto, Steps
    <2>4. QED BY <1>6, <2>2, <2>3 DEF Join
  <1>7. CASE JobsUnavailable(c)
    <2>1. PICK status : pc[c] # "idle" /\ Refuse(c, status)
      BY <1>7 DEF JobsUnavailable
    <2>2. QED BY <1>7, <2>1, RefuseTypeOK DEF JobsUnavailable, TypeOK
  <1>8. CASE BuildEntry(c)
    <2>1. pc[c] # "idle"
      BY <1>8 DEF BuildEntry
    <2>2. CASE Refuse(c, "internal_error")
      BY <1>8, <2>1, <2>2, RefuseTypeOK DEF BuildEntry, TypeOK
    <2>3. CASE Goto(c, "answer") /\ ans' = [ans EXCEPT ![c].status = "created"]
      <3>1. [ans[c] EXCEPT !.status = "created"] \in Answer
        BY DEF Answer, Statuses, TypeOK
      <3>2. ans' = [ans EXCEPT ![c] = [ans[c] EXCEPT !.status = "created"]]
        BY <2>3 DEF TypeOK, Answer
      <3>3. QED BY <1>8, <2>1, <2>3, <3>1, <3>2 DEF BuildEntry, TypeOK, Goto, Steps
    <2>4. QED BY <1>8, <2>2, <2>3 DEF BuildEntry
  <1>9. QED
    BY <1>1, <1>2, <1>3, <1>4, <1>5, <1>6, <1>7, <1>8 DEF Read

\* Types are kept by every step.
LEMMA TypeStep ==
  ASSUME TypeOK, LockHeldOnlyByOpenWrite, [Next]_vars
  PROVE  TypeOK'
  <1>1. ASSUME NEW c \in Clients, Reply(c) \/ Close(c) PROVE TypeOK'
    <2>1. /\ writer' \in Clients \cup {None} /\ work' \in [Clients -> Image \cup {None}]
          /\ db' = db /\ jobs' = jobs
      BY <1>1 DEF Reply, Close, TypeOK
    <2>2. Forget(c)
      BY <1>1 DEF Reply, Close
    <2>3. QED BY <2>1, <2>2, BlankIsAnswer DEF Forget, Goto, Steps, TypeOK
  <1>2. CASE Scrape
    BY <1>2 DEF Scrape, Catalogue, TypeOK
  <1>3. CASE Crash
    BY <1>3, BlankIsAnswer DEF Crash, TypeOK, Steps
  <1>4. CASE UNCHANGED vars
    BY <1>4 DEF vars, TypeOK
  <1>5. QED
    BY <1>1, <1>2, <1>3, <1>4, ReceiveTypeOK, OpenFailsTypeOK, WriteTypeOK, ReadTypeOK
       DEF Next, Handle

-----------------------------------------------------------------------------
(* The write lock                                                           *)

\* What keeps the lock with the handler that took it: only a handler that finds
\* it free takes it, and only its holder moves on or lets go.
LEMMA LockStep ==
  ASSUME TypeOK, LockHeldOnlyByOpenWrite, [Next]_vars
  PROVE  LockHeldOnlyByOpenWrite'
  <1> USE NoneAssumption DEF LockHeldOnlyByOpenWrite
  <1>1. ASSUME NEW c \in Clients, Receive(c) PROVE LockHeldOnlyByOpenWrite'
    <2>1. PICK r \in Requests : pc' = [pc EXCEPT ![c] = FirstStep(r.kind)]
      BY <1>1 DEF Receive, Goto
    <2>2. FirstStep(r.kind) # "commit"
      BY <2>1, RequestAssumption DEF FirstStep, Request, Kinds
    <2>3. QED BY <1>1, <2>1, <2>2 DEF Receive, TypeOK
  <1>2. ASSUME NEW c \in Clients, Executed(c), writer = None
        PROVE  LockHeldOnlyByOpenWrite'
    <2>1. PICK image \in Image, answer \in Answer : Execute(c, image, answer)
      BY <1>2 DEF Executed
    <2>2. QED BY <1>2, <2>1 DEF Execute, Goto, TypeOK
  <1>3. ASSUME NEW c \in Clients, Rejected(c), writer = None
        PROVE  LockHeldOnlyByOpenWrite'
    BY <1>3 DEF Rejected, Reject, Refuse, Goto, TypeOK
  <1>4. ASSUME NEW c \in Clients, Write(c) PROVE LockHeldOnlyByOpenWrite'
    <2>1. CASE Busy(c)
      BY <2>1 DEF Busy, Refuse, Goto, At, TypeOK
    <2>2. CASE Commit(c)
      <3>1. AfterCommit(req[c].kind) # "commit"
        BY DEF AfterCommit
      <3>2. QED BY <2>2, <3>1 DEF Commit, Goto, TypeOK
    <2>3. QED BY <1>2, <1>3, <1>4, <2>1, <2>2, WriteCases
  <1>5. ASSUME NEW c \in Clients, Read(c) PROVE LockHeldOnlyByOpenWrite'
    BY <1>5 DEF Read, GetWatchlist, Gate, Page, Count, GetJob, Join, JobsUnavailable,
          BuildEntry, Refuse, Goto, TypeOK
  <1>6. ASSUME NEW c \in Clients, OpenFails(c) PROVE LockHeldOnlyByOpenWrite'
    <2>1. pc[c] # "commit" /\ pc'[c] = "close" /\ \A o \in Clients \ {c} : pc'[o] = pc[o]
      BY <1>6, OpenFailsFirst DEF Refuse, Goto, TypeOK
    <2>2. writer' = writer /\ work' = work
      BY <1>6 DEF OpenFails
    <2>3. QED BY <1>6, <2>1, <2>2, OpenFailsFirst
  <1>7. ASSUME NEW c \in Clients, Reply(c) \/ Close(c) PROVE LockHeldOnlyByOpenWrite'
    BY <1>7 DEF Reply, Close, Forget, Goto, TypeOK
  <1>8. CASE Scrape
    BY <1>8 DEF Scrape
  <1>9. CASE Crash
    BY <1>9 DEF Crash
  <1>10. CASE UNCHANGED vars
    BY <1>10 DEF vars
  <1>11. QED
    BY <1>1, <1>4, <1>5, <1>7, <1>8, <1>9, <1>10, <1>6 DEF Next, Handle

\* In every reachable state the types hold, and the write lock of app.db is with a
\* handler that is about to commit or to close its connection, or with nobody.
THEOREM TypesAndLock == Spec => [](TypeOK /\ LockHeldOnlyByOpenWrite)
  <1>1. Init => TypeOK /\ LockHeldOnlyByOpenWrite
    BY InitTypeOK, NoneAssumption DEF Init, LockHeldOnlyByOpenWrite
  <1>2. TypeOK /\ LockHeldOnlyByOpenWrite /\ [Next]_vars
          => TypeOK' /\ LockHeldOnlyByOpenWrite'
    BY TypeStep, LockStep
  <1>3. QED BY <1>1, <1>2, PTL DEF Spec

-----------------------------------------------------------------------------
(* What is committed, and what is about to be                               *)

\* Every image anyone can read or commit is sound.
SoundImages == \A d \in Images \ {None} : Sound(d)

\* A handler about to commit has made one statement's change to what is committed
\* now.
OneChange == \A c \in Clients : pc[c] = "commit" => Change(req[c], db, work[c], ans[c])

\* The inductive invariant.
StoreInv == TypeOK /\ LockHeldOnlyByOpenWrite /\ SoundImages /\ OneChange

\* app.db changes in a commit only, and then to the image of the lock's holder.
LEMMA DbStep ==
  ASSUME TypeOK, [Next]_vars
  PROVE  db' = db \/ \E c \in Clients : Commit(c)
  <1>1. ASSUME NEW c \in Clients, Write(c), ~Commit(c) PROVE db' = db
    <2>1. CASE Busy(c)
      BY <2>1 DEF Busy
    <2>2. CASE Rejected(c) \/ Executed(c)
      BY <2>2 DEF Rejected, Executed, Reject, Execute
    <2>3. QED BY <1>1, <2>1, <2>2, WriteCases
  <1>2. ASSUME NEW c \in Clients,
               Receive(c) \/ OpenFails(c) \/ Read(c) \/ Reply(c) \/ Close(c)
        PROVE  db' = db
    BY <1>2 DEF Receive, OpenFails, Read, GetWatchlist, Gate, Page, Count, GetJob, Join,
          JobsUnavailable, BuildEntry, Reply, Close
  <1>3. CASE Scrape \/ Crash \/ UNCHANGED vars
    BY <1>3 DEF Scrape, Crash, vars
  <1>4. QED BY <1>1, <1>2, <1>3 DEF Next, Handle

\* A transaction's image is built by one statement, on the image committed then.
LEMMA WorkStep ==
  ASSUME StoreInv, [Next]_vars, NEW o \in Clients, work'[o] # None
  PROVE  Sound(work'[o])
  <1>0. /\ Sound(db)
        /\ work[o] # None => Sound(work[o])
    BY NoneAssumption DEF StoreInv, SoundImages, Images, TypeOK
  <1>1. ASSUME NEW c \in Clients, Write(c) PROVE Sound(work'[o])
    <2>1. CASE Busy(c)
      BY <1>0, <2>1 DEF Busy
    <2>2. CASE Commit(c)
      BY <1>0, <2>2 DEF Commit, StoreInv, TypeOK
    <2>3. CASE Rejected(c)
      BY <1>0, <2>3 DEF Rejected, Reject, StoreInv, TypeOK
    <2>4. CASE Executed(c)
      <3>1. PICK image \in Image, answer \in Answer :
              Execute(c, image, answer) /\ Sound(image)
        BY <1>0, <2>4 DEF Executed
      <3>2. QED BY <1>0, <3>1 DEF Execute, StoreInv, TypeOK
    <2>5. QED BY <1>1, <2>1, <2>2, <2>3, <2>4, WriteCases DEF StoreInv
  <1>2. ASSUME NEW c \in Clients, Receive(c) \/ OpenFails(c) \/ Read(c) \/ Reply(c)
        PROVE  Sound(work'[o])
    BY <1>0, <1>2 DEF Receive, OpenFails, Read, GetWatchlist, Gate, Page, Count, GetJob,
          Join, JobsUnavailable, BuildEntry, Reply
  <1>3. ASSUME NEW c \in Clients, Close(c) PROVE Sound(work'[o])
    BY <1>0, <1>3 DEF Close, StoreInv, TypeOK
  <1>4. CASE Scrape \/ UNCHANGED vars
    BY <1>0, <1>4 DEF Scrape, vars
  <1>5. CASE Crash
    BY <1>5 DEF Crash
  <1>6. QED BY <1>1, <1>2, <1>3, <1>4, <1>5 DEF Next, Handle

\* A snapshot is the image that was committed at its first read.
LEMMA SnapStep ==
  ASSUME StoreInv, [Next]_vars, NEW o \in Clients, snap'[o] # None
  PROVE  Sound(snap'[o])
  <1>0. /\ Sound(db)
        /\ snap[o] # None => Sound(snap[o])
        /\ \A c \in Clients : Sound(View(c))
    BY NoneAssumption DEF StoreInv, SoundImages, Images, TypeOK, View
  <1>1. ASSUME NEW c \in Clients, Write(c) PROVE snap' = snap
    <2>1. CASE Busy(c) \/ Commit(c)
      BY <2>1 DEF Busy, Commit
    <2>2. CASE Rejected(c) \/ Executed(c)
      BY <2>2 DEF Rejected, Reject, Executed, Execute
    <2>3. QED BY <1>1, <2>1, <2>2, WriteCases DEF StoreInv
  <1>2. ASSUME NEW c \in Clients, Gate(c) \/ Page(c) \/ Count(c) \/ Reply(c) \/ Close(c)
        PROVE  Sound(snap'[o])
    BY <1>0, <1>2 DEF Gate, Page, Count, Reply, Close, Forget, StoreInv, TypeOK
  <1>3. ASSUME NEW c \in Clients,
               \/ Receive(c) \/ OpenFails(c) \/ GetWatchlist(c) \/ GetJob(c)
               \/ Join(c) \/ JobsUnavailable(c) \/ BuildEntry(c)
        PROVE  snap' = snap
    BY <1>3 DEF Receive, OpenFails, GetWatchlist, GetJob, Join, JobsUnavailable, BuildEntry
  <1>4. CASE Scrape \/ UNCHANGED vars
    BY <1>0, <1>4 DEF Scrape, vars
  <1>5. CASE Crash
    BY <1>5 DEF Crash
  <1>6. QED BY <1>0, <1>1, <1>2, <1>3, <1>4, <1>5 DEF Next, Handle, Read

\* No step gives anyone an image that is not sound.
LEMMA SoundStep ==
  ASSUME StoreInv, [Next]_vars
  PROVE  SoundImages'
  <1>1. Sound(db')
    <2>1. ASSUME NEW c \in Clients, Commit(c) PROVE Sound(db')
      <3>1. work[c] # None
        BY <2>1, NoneAssumption DEF Commit, StoreInv, LockHeldOnlyByOpenWrite
      <3>2. Sound(work[c])
        BY <3>1 DEF StoreInv, SoundImages, Images
      <3>3. QED BY <2>1, <3>2 DEF Commit
    <2>2. Sound(db)
      BY NoneAssumption DEF StoreInv, SoundImages, Images, TypeOK
    <2>3. QED BY <2>1, <2>2, DbStep DEF StoreInv
  <1>2. QED BY <1>1, WorkStep, SnapStep DEF SoundImages, Images

\* Between a handler's statement and its commit nobody else changes app.db, since
\* nobody else has the lock.
LEMMA ChangeStep ==
  ASSUME StoreInv, [Next]_vars, NEW o \in Clients, pc'[o] = "commit"
  PROVE  Change(req'[o], db', work'[o], ans'[o])
  <1> DEFINE Same == /\ req'[o] = req[o] /\ db' = db
                     /\ work'[o] = work[o] /\ ans'[o] = ans[o]
  <1>0. /\ pc[o] = "commit" => Change(req[o], db, work[o], ans[o])
        /\ pc[o] = "commit" => writer = o
        /\ o # None
    BY NoneAssumption DEF StoreInv, OneChange, LockHeldOnlyByOpenWrite
  <1>1. ASSUME NEW c \in Clients, Receive(c) PROVE pc[o] = "commit" /\ Same
    <2>1. PICK r \in Requests : /\ pc' = [pc EXCEPT ![c] = FirstStep(r.kind)]
                                /\ req' = [req EXCEPT ![c] = r]
      BY <1>1 DEF Receive, Goto
    <2>2. FirstStep(r.kind) # "commit"
      BY RequestAssumption DEF FirstStep, Request, Kinds
    <2>3. o # c /\ pc[o] = "commit"
      BY <2>1, <2>2 DEF StoreInv, TypeOK
    <2>4. QED BY <1>1, <2>1, <2>3 DEF Receive, StoreInv, TypeOK
  <1>2. ASSUME NEW c \in Clients, OpenFails(c) \/ Busy(c) \/ Read(c)
        PROVE  pc[o] = "commit" /\ Same
    BY <1>2 DEF OpenFails, Busy, Read, GetWatchlist, Gate, Page, Count, GetJob, Join,
          JobsUnavailable, BuildEntry, Refuse, Goto, StoreInv, TypeOK
  <1>3. ASSUME NEW c \in Clients, Commit(c) PROVE FALSE
    <2>1. o # c /\ pc[o] = "commit"
      BY <1>3 DEF Commit, AfterCommit, Goto, StoreInv, TypeOK
    <2>2. writer = c
      BY <1>3 DEF Commit, StoreInv, LockHeldOnlyByOpenWrite
    <2>3. QED BY <1>0, <2>1, <2>2
  <1>4. ASSUME NEW c \in Clients, writer = None, Rejected(c) PROVE FALSE
    <2>1. pc[o] = "commit"
      BY <1>4 DEF Rejected, Reject, Refuse, Goto, StoreInv, TypeOK
    <2>2. QED BY <1>0, <1>4, <2>1
  <1>5. ASSUME NEW c \in Clients, writer = None, Executed(c)
        PROVE  Change(req'[o], db', work'[o], ans'[o])
    <2>1. Sound(db)
      BY NoneAssumption DEF StoreInv, SoundImages, Images, TypeOK
    <2>2. PICK image \in Image, answer \in Answer :
            Execute(c, image, answer) /\ Change(req[c], db, image, answer)
      BY <1>5, <2>1 DEF Executed
    <2>3. o = c
      BY <1>0, <1>5, <2>2 DEF Execute, Goto, StoreInv, TypeOK
    <2>4. /\ req'[c] = req[c] /\ db' = db
          /\ work'[c] = image /\ ans'[c] = answer
      BY <2>2 DEF Execute, StoreInv, TypeOK
    <2>5. QED BY <2>2, <2>3, <2>4
  <1>6. ASSUME NEW c \in Clients, Write(c)
        PROVE  Change(req'[o], db', work'[o], ans'[o])
    BY <1>0, <1>2, <1>3, <1>4, <1>5, <1>6, WriteCases DEF StoreInv
  <1>7. ASSUME NEW c \in Clients, Reply(c) \/ Close(c) PROVE pc[o] = "commit" /\ Same
    BY <1>7 DEF Reply, Close, Forget, Goto, StoreInv, TypeOK
  <1>8. CASE Scrape \/ UNCHANGED vars
    BY <1>0, <1>8 DEF Scrape, vars
  <1>9. CASE Crash
    BY <1>9 DEF Crash
  <1>10. QED
    BY <1>0, <1>1, <1>2, <1>6, <1>7, <1>8, <1>9 DEF Next, Handle

\* The invariant holds at first.
LEMMA StoreInvInit == Init => StoreInv
  <1> SUFFICES ASSUME Init PROVE StoreInv
    OBVIOUS
  <1>1. TypeOK
    BY InitTypeOK
  <1>2. LockHeldOnlyByOpenWrite /\ OneChange
    BY NoneAssumption DEF Init, LockHeldOnlyByOpenWrite, OneChange
  <1>3. Existing(db) = {} /\ db.items = {}
    BY DEF Init, Existing
  <1>4. SoundImages
    BY <1>3 DEF Init, SoundImages, Images, Sound, OrphanFree, DistinctNames
  <1>5. QED BY <1>1, <1>2, <1>4 DEF StoreInv

\* Every step keeps the invariant.
LEMMA StoreInvStep == StoreInv /\ [Next]_vars => StoreInv'
  <1> SUFFICES ASSUME StoreInv, [Next]_vars PROVE StoreInv'
    OBVIOUS
  <1>1. TypeOK' /\ LockHeldOnlyByOpenWrite'
    BY TypeStep, LockStep DEF StoreInv
  <1>2. OneChange'
    BY ChangeStep DEF OneChange
  <1>3. QED BY <1>1, <1>2, SoundStep DEF StoreInv

\* In every reachable state: no image holds an item of a watchlist that is gone,
\* and no image holds two names equal under NOCASE.
THEOREM ImagesSound == Spec => [](NoOrphanItems /\ NamesUnique)
  <1>1. StoreInv => NoOrphanItems /\ NamesUnique
    BY DEF StoreInv, SoundImages, Sound, OrphanFree, DistinctNames, NoOrphanItems,
          NamesUnique
  <1>2. QED BY <1>1, StoreInvInit, StoreInvStep, PTL DEF Spec

\* In every reachable state a handler about to commit changes what is committed
\* now, where its request says and nowhere else, and a watchlist it creates is
\* new and empty.
THEOREM UpdatesKept == Spec => [](NoLostUpdate /\ NewListIsEmpty)
  <1>1. StoreInv => NoLostUpdate /\ NewListIsEmpty
    BY DEF StoreInv, OneChange, Change, NoLostUpdate, NewListIsEmpty
  <1>2. QED BY <1>1, StoreInvInit, StoreInvStep, PTL DEF Spec

\* app.db changes in a commit and in no other step: not in a refusal, a time-out, a
\* teardown or a crash.
THEOREM CommitsOnly == Spec => OnlyCommitsChange
  <1>1. ASSUME TypeOK, [Next]_vars, db' # db
        PROVE  \E c \in Clients : /\ pc[c] = "commit" /\ pc'[c] # "idle"
                                  /\ \A o \in Clients \ {c} : pc'[o] = pc[o]
    <2>1. PICK c \in Clients : Commit(c)
      BY <1>1, DbStep
    <2>2. QED BY <1>1, <2>1 DEF Commit, AfterCommit, Goto, TypeOK
  <1>2. QED BY <1>1, TypesAndLock, PTL DEF Spec, OnlyCommitsChange

-----------------------------------------------------------------------------
(* What a handler has done and what it is about to say                      *)

\* The kinds of request that come to a step.
Fits(step, kind) ==
  /\ step = "job_check" => kind = "add"
  /\ step = "list_check" => kind \in {"add", "remove"}
  /\ step \in {"write", "commit"} =>
       kind \in {"create", "put", "patch", "delete", "add", "remove"}
  /\ step = "reread" => kind \in {"put", "patch"}
  /\ step = "entry" => kind = "add"
  /\ step = "select" => kind = "get"
  /\ step \in {"gate", "join"} => kind = "items"
  /\ step \in {"page", "count"} => kind \in {"list", "items"}

\* Whether a handler's transaction has been committed can be told from its step,
\* and when it is about to answer, from its answer.
Told(c) ==
  /\ Fits(pc[c], req[c].kind)
  /\ applied[c] => pc[c] \in {"reread", "entry", "answer", "close"}
  /\ pc[c] \in {"reread", "entry"} => applied[c]
  /\ pc[c] = "answer" => applied[c] \/ req[c].kind \in {"list", "get", "items"}
  /\ pc[c] = "close" /\ applied[c] =>
       \/ /\ req[c].kind \in {"put", "patch"}
          /\ ans[c].status = "watchlist_not_found"
       \/ req[c].kind = "add" /\ ans[c].status = "internal_error"

\* From its first read to its last, a listing has one image.
OneImage(c) ==
  /\ pc[c] = "page" /\ req[c].kind = "items" =>
       snap[c] # None /\ req[c].id \in Existing(snap[c])
  /\ pc[c] = "count" => snap[c] # None /\ ans[c].page = Listed(c, snap[c])
  /\ pc[c] = "count" /\ req[c].kind = "items" => req[c].id \in Existing(snap[c])
  /\ pc[c] \in {"join", "answer"} /\ req[c].kind \in {"list", "items"} =>
       ans[c].count = Cardinality(ans[c].page)

\* The inductive invariant.
AnswerInv == TypeOK /\ LockHeldOnlyByOpenWrite /\ \A c \in Clients : Told(c) /\ OneImage(c)

\* A step of one handler leaves what another handler has alone.
LEMMA Others ==
  ASSUME TypeOK, NEW c \in Clients, Receive(c) \/ OpenFails(c) \/ Handle(c),
         NEW o \in Clients, o # c
  PROVE  /\ pc'[o] = pc[o] /\ req'[o] = req[o] /\ snap'[o] = snap[o]
         /\ ans'[o] = ans[o] /\ applied'[o] = applied[o]
  <1>1. ASSUME Write(c)
        PROVE  /\ pc'[o] = pc[o] /\ req'[o] = req[o] /\ snap'[o] = snap[o]
               /\ ans'[o] = ans[o] /\ applied'[o] = applied[o]
    <2>1. CASE Busy(c) \/ Commit(c)
      BY <2>1 DEF Busy, Refuse, Commit, Goto, TypeOK
    <2>2. CASE Rejected(c) \/ Executed(c)
      BY <2>2 DEF Rejected, Reject, Refuse, Executed, Execute, Goto, TypeOK
    <2>3. QED BY <1>1, <2>1, <2>2, WriteCases
  <1>2. ASSUME Receive(c) \/ GetWatchlist(c) \/ Gate(c) \/ Page(c) \/ Count(c)
        PROVE  /\ pc'[o] = pc[o] /\ req'[o] = req[o] /\ snap'[o] = snap[o]
               /\ ans'[o] = ans[o] /\ applied'[o] = applied[o]
    BY <1>2 DEF Receive, GetWatchlist, Gate, Page, Count, Refuse, Goto, TypeOK
  <1>3. ASSUME \/ OpenFails(c) \/ GetJob(c) \/ Join(c) \/ JobsUnavailable(c)
               \/ BuildEntry(c) \/ Reply(c) \/ Close(c)
        PROVE  /\ pc'[o] = pc[o] /\ req'[o] = req[o] /\ snap'[o] = snap[o]
               /\ ans'[o] = ans[o] /\ applied'[o] = applied[o]
    BY <1>3 DEF OpenFails, GetJob, Join, JobsUnavailable, BuildEntry, Reply, Close, Forget,
          Refuse, Goto, TypeOK
  <1>4. QED BY <1>1, <1>2, <1>3 DEF Handle, Read

\* A handler that takes a request starts with nothing done and no image.
LEMMA ReceiveTold ==
  ASSUME TypeOK, NEW c \in Clients, Told(c), Receive(c)
  PROVE  Told(c)' /\ OneImage(c)'
  <1>1. PICK r \in Requests : /\ pc' = [pc EXCEPT ![c] = FirstStep(r.kind)]
                              /\ req' = [req EXCEPT ![c] = r]
    BY DEF Receive, Goto
  <1>2. r.kind \in Kinds
    BY RequestAssumption DEF Request
  <1>3. pc'[c] = FirstStep(r.kind) /\ req'[c] = r
    BY <1>1 DEF TypeOK
  <1>4. /\ Fits(FirstStep(r.kind), r.kind)
        /\ FirstStep(r.kind) \in {"write", "select", "page", "gate", "job_check", "list_check"}
        /\ FirstStep(r.kind) = "page" => r.kind = "list"
    BY <1>2 DEF Fits, FirstStep, Kinds
  <1>5. applied'[c] = applied[c] /\ ~applied[c]
    BY DEF Receive, Told
  <1>6. QED BY <1>3, <1>4, <1>5 DEF Told, OneImage

\* A statement that writes leaves nothing applied; its commit does, and only that.
LEMMA WriteTold ==
  ASSUME TypeOK, NEW c \in Clients, Told(c), Write(c)
  PROVE  Told(c)' /\ OneImage(c)'
  <1>1. CASE Busy(c)
    BY <1>1 DEF Busy, At, Refuse, Goto, TypeOK, Told, OneImage, Fits
  <1>2. CASE Commit(c)
    <2>1. /\ pc'[c] = AfterCommit(req[c].kind) /\ req' = req /\ applied'[c]
          /\ pc[c] = "commit"
      BY <1>2 DEF Commit, Goto, TypeOK
    <2>2. req[c].kind \in {"create", "put", "patch", "delete", "add", "remove"}
      BY <2>1 DEF Told, Fits
    <2>3. /\ pc'[c] \in {"reread", "entry", "answer"}
          /\ pc'[c] = "reread" => req[c].kind \in {"put", "patch"}
          /\ pc'[c] = "entry" => req[c].kind = "add"
      BY <2>1 DEF AfterCommit
    <2>4. QED BY <2>1, <2>2, <2>3 DEF Told, OneImage, Fits
  <1>3. CASE pc[c] = "write" /\ Rejected(c)
    BY <1>3 DEF Rejected, Reject, Refuse, Goto, TypeOK, Told, OneImage, Fits
  <1>4. CASE pc[c] = "write" /\ Executed(c)
    BY <1>4 DEF Executed, Execute, Goto, TypeOK, Told, OneImage, Fits
  <1>5. QED BY <1>1, <1>2, <1>3, <1>4, WriteCases

\* The snapshot taken by the gate or by the page is the one the count is made in.
LEMMA ReadTold ==
  ASSUME TypeOK, NEW c \in Clients, Told(c), OneImage(c), Read(c)
  PROVE  Told(c)' /\ OneImage(c)'
  <1>1. CASE GetWatchlist(c)
    <2>1. CASE Refuse(c, "watchlist_not_found")
      BY <1>1, <2>1 DEF GetWatchlist, Refuse, Goto, TypeOK, Told, OneImage, Fits, Blank
    <2>2. CASE pc[c] = "list_check" /\ Goto(c, "write")
      BY <1>1, <2>2 DEF GetWatchlist, Goto, TypeOK, Told, OneImage, Fits
    <2>3. CASE pc[c] # "list_check" /\ Goto(c, "answer")
      BY <1>1, <2>3 DEF GetWatchlist, Goto, TypeOK, Told, OneImage, Fits
    <2>4. QED BY <1>1, <2>1, <2>2, <2>3 DEF GetWatchlist
  <1>2. CASE Gate(c)
    <2>1. View(c) # None
      BY NoneAssumption, ViewIsImage
    <2>2. QED
      BY <1>2, <2>1 DEF Gate, Refuse, Goto, TypeOK, Told, OneImage, Fits
  <1>3. CASE Page(c)
    <2>1. View(c) # None
      BY NoneAssumption, ViewIsImage
    <2>2. /\ pc'[c] = "count" /\ snap'[c] = View(c) /\ req' = req /\ applied' = applied
          /\ ans'[c].page = Listed(c, View(c))
      BY <1>3 DEF Page, Goto, TypeOK, Blank
    <2>3. pc[c] = "page" /\ (req[c].kind = "items" => View(c) = snap[c])
      BY <1>3 DEF Page, OneImage, View
    <2>4. ans'[c].page = Listed(c, snap[c])'
      BY <2>2 DEF Listed
    <2>5. QED BY <2>1, <2>2, <2>3, <2>4 DEF Told, OneImage, Fits
  <1>4. CASE Count(c)
    <2>1. /\ pc[c] = "count" /\ View(c) = snap[c]
          /\ ans[c].page = Listed(c, snap[c])
      BY <1>4 DEF Count, OneImage, View
    <2>2. ans' = [ans EXCEPT ![c] =
                   [ans[c] EXCEPT !.count = Cardinality(Listed(c, View(c))), !.status = "ok"]]
      BY <1>4 DEF Count, TypeOK, Answer
    <2>3. ans'[c].count = Cardinality(ans'[c].page)
      BY <2>1, <2>2 DEF TypeOK, Answer
    <2>4. QED BY <1>4, <2>1, <2>3 DEF Count, Goto, TypeOK, Told, OneImage, Fits
  <1>5. CASE GetJob(c) \/ JobsUnavailable(c)
    BY <1>5 DEF GetJob, JobsUnavailable, Refuse, Goto, TypeOK, Told, OneImage, Fits
  <1>6. CASE Join(c)
    <2>1. CASE Refuse(c, "internal_error")
      BY <1>6, <2>1 DEF Join, Refuse, Goto, TypeOK, Told, OneImage, Fits
    <2>2. CASE /\ Goto(c, "answer")
               /\ ans' = [ans EXCEPT ![c].missing = ans[c].page \ Present(jobs)]
      <3>1. ans' = [ans EXCEPT ![c] =
                     [ans[c] EXCEPT !.missing = ans[c].page \ Present(jobs)]]
        BY <2>2 DEF TypeOK, Answer
      <3>2. ans'[c].count = ans[c].count /\ ans'[c].page = ans[c].page
        BY <3>1 DEF TypeOK, Answer
      <3>3. QED BY <1>6, <2>2, <3>2 DEF Join, Goto, TypeOK, Told, OneImage, Fits
    <2>3. QED BY <1>6, <2>1, <2>2 DEF Join
  <1>7. CASE BuildEntry(c)
    <2>1. CASE Refuse(c, "internal_error")
      BY <1>7, <2>1 DEF BuildEntry, Refuse, Goto, TypeOK, Told, OneImage, Fits, Blank
    <2>2. CASE Goto(c, "answer")
      BY <1>7, <2>2 DEF BuildEntry, Goto, TypeOK, Told, OneImage, Fits
    <2>3. QED BY <1>7, <2>1, <2>2 DEF BuildEntry
  <1>8. QED BY <1>1, <1>2, <1>3, <1>4, <1>5, <1>6, <1>7 DEF Read

\* A request that cannot open app.db has done nothing.
LEMMA OpenFailsTold ==
  ASSUME TypeOK, NEW c \in Clients, Told(c), OpenFails(c)
  PROVE  Told(c)' /\ OneImage(c)'
  BY OpenFailsFirst DEF OpenFails, Refuse, Goto, TypeOK, Told, OneImage, Fits

\* Every step keeps the invariant.
LEMMA AnswerInvStep == AnswerInv /\ [Next]_vars => AnswerInv'
  <1> SUFFICES ASSUME AnswerInv, [Next]_vars PROVE AnswerInv'
    OBVIOUS
  <1>1. TypeOK' /\ LockHeldOnlyByOpenWrite'
    BY TypeStep, LockStep DEF AnswerInv
  <1>2. ASSUME NEW c \in Clients, Receive(c) \/ OpenFails(c) \/ Handle(c),
               NEW o \in Clients
        PROVE  Told(o)' /\ OneImage(o)'
    <2>1. CASE o # c
      BY <1>2, <2>1, Others DEF AnswerInv, Told, OneImage, Listed
    <2>2. CASE o = c
      <3>1. CASE Reply(c) \/ Close(c)
        BY <2>2, <3>1 DEF Reply, Close, Forget, Goto, AnswerInv, TypeOK, Told, OneImage, Fits
      <3>2. QED
        BY <1>2, <2>2, <3>1, ReceiveTold, OpenFailsTold, WriteTold, ReadTold
           DEF AnswerInv, Handle
    <2>3. QED BY <2>1, <2>2
  <1>3. CASE Scrape \/ UNCHANGED vars
    BY <1>1, <1>3 DEF Scrape, vars, AnswerInv, Told, OneImage, Listed
  <1>4. CASE Crash
    BY <1>1, <1>4 DEF Crash, AnswerInv, Told, OneImage, Fits
  <1>5. QED BY <1>1, <1>2, <1>3, <1>4 DEF Next, AnswerInv

\* The invariant holds in every reachable state.
LEMMA AnswerInvAlways == Spec => []AnswerInv
  <1>1. Init => AnswerInv
    <2> SUFFICES ASSUME Init PROVE AnswerInv
      OBVIOUS
    <2>1. TypeOK /\ LockHeldOnlyByOpenWrite
      BY InitTypeOK, NoneAssumption DEF Init, LockHeldOnlyByOpenWrite
    <2>2. QED BY <2>1 DEF Init, AnswerInv, Told, OneImage, Fits
  <1>2. QED BY <1>1, AnswerInvStep, PTL DEF Spec

\* In every reachable state: success is about to be sent only after the commit, and
\* a refusal after a commit is only the 404 of a PUT or PATCH whose row was deleted
\* before it was read again, or the 500 of an added job that no response can show.
THEOREM AnswersTrue == Spec => []AnswerMatchesEffect
  <1>1. AnswerInv => AnswerMatchesEffect
    BY DEF AnswerInv, Told, AnswerMatchesEffect
  <1>2. QED BY <1>1, AnswerInvAlways, PTL

\* In every reachable state the 404 gate, the rows and the total of a listing are of
\* one image.
THEOREM PagesConsistent == Spec => []PageIsOneSnapshot
  <1>1. AnswerInv => PageIsOneSnapshot
    BY DEF AnswerInv, OneImage, View, PageIsOneSnapshot
  <1>2. QED BY <1>1, AnswerInvAlways, PTL

-----------------------------------------------------------------------------
(* Conflicts                                                                *)

\* A handler that is about to answer 409 still has the lock, and the cause is
\* still there.
Justified(c) ==
  pc[c] = "close" /\ ans[c].status = "duplicate" => writer = c /\ Cause(req[c], db)

ConflictInv == TypeOK /\ LockHeldOnlyByOpenWrite /\ \A c \in Clients : Justified(c)

\* What a handler's own step does to its 409: only a rejected statement gives one.
LEMMA OwnConflict ==
  ASSUME TypeOK, NEW c \in Clients, Receive(c) \/ OpenFails(c) \/ Handle(c)
  PROVE  Justified(c)'
  <1>1. ASSUME Receive(c) PROVE Justified(c)'
    <2>1. PICK r \in Requests : pc' = [pc EXCEPT ![c] = FirstStep(r.kind)]
      BY <1>1 DEF Receive, Goto
    <2>2. FirstStep(r.kind) # "close"
      BY RequestAssumption DEF FirstStep, Request, Kinds
    <2>3. QED BY <2>1, <2>2 DEF TypeOK, Justified
  <1>2. CASE Busy(c) \/ Commit(c)
    BY <1>2 DEF Busy, Commit, AfterCommit, Refuse, Goto, TypeOK, Justified, Blank
  <1>3. CASE Executed(c)
    BY <1>3 DEF Executed, Execute, Goto, TypeOK, Justified
  <1>4. CASE Rejected(c)
    <2>1. PICK status \in Refusals :
            Reject(c, status) /\ (status = "duplicate" => Cause(req[c], db))
      BY <1>4 DEF Rejected
    <2>2. /\ ans'[c].status = status
          /\ writer' = c /\ db' = db /\ req' = req
      BY <2>1 DEF Reject, Refuse, TypeOK, Blank
    <2>3. QED BY <2>1, <2>2 DEF Justified, Cause
  <1>5. CASE Read(c)
    BY <1>5 DEF Read, GetWatchlist, Gate, Page, Count, GetJob, Join, JobsUnavailable,
          BuildEntry, FaultStatuses, Refuse, Goto, TypeOK, Justified, Blank
  <1>6. CASE Reply(c) \/ Close(c)
    BY <1>6 DEF Reply, Close, Forget, Goto, TypeOK, Justified
  <1>7. CASE OpenFails(c)
    BY <1>7 DEF OpenFails, FaultStatuses, Refuse, TypeOK, Justified, Blank
  <1>8. QED BY <1>1, <1>2, <1>3, <1>4, <1>5, <1>6, <1>7, WriteCases DEF Handle

\* While one handler has the lock no other step takes it or changes app.db.
LEMMA LockExcludes ==
  ASSUME TypeOK, LockHeldOnlyByOpenWrite, NEW o \in Clients, writer = o,
         NEW c \in Clients, c # o, Receive(c) \/ OpenFails(c) \/ Handle(c)
  PROVE  writer' = o /\ db' = db
  <1> USE NoneAssumption
  <1>1. CASE Write(c)
    <2>1. CASE Busy(c)
      BY <2>1 DEF Busy
    <2>2. CASE Commit(c)
      BY <2>2 DEF Commit, LockHeldOnlyByOpenWrite
    <2>3. QED BY <1>1, <2>1, <2>2, WriteCases
  <1>2. CASE Read(c)
    BY <1>2 DEF Read, GetWatchlist, Gate, Page, Count, GetJob, Join, JobsUnavailable,
          BuildEntry
  <1>3. CASE Receive(c) \/ OpenFails(c) \/ Reply(c) \/ Close(c)
    BY <1>3 DEF Receive, OpenFails, Reply, Close
  <1>4. QED BY <1>1, <1>2, <1>3 DEF Handle

\* Every step keeps the invariant.
LEMMA ConflictInvStep == ConflictInv /\ [Next]_vars => ConflictInv'
  <1> SUFFICES ASSUME ConflictInv, [Next]_vars PROVE ConflictInv'
    OBVIOUS
  <1>1. TypeOK' /\ LockHeldOnlyByOpenWrite'
    BY TypeStep, LockStep DEF ConflictInv
  <1>2. ASSUME NEW c \in Clients, Receive(c) \/ OpenFails(c) \/ Handle(c),
               NEW o \in Clients
        PROVE  Justified(o)'
    <2>1. CASE o = c
      BY <1>2, <2>1, OwnConflict DEF ConflictInv
    <2>2. CASE o # c
      BY <1>2, <2>2, Others, LockExcludes DEF ConflictInv, Justified
    <2>3. QED BY <2>1, <2>2
  <1>3. CASE Scrape \/ UNCHANGED vars
    BY <1>1, <1>3 DEF Scrape, vars, ConflictInv, Justified
  <1>4. CASE Crash
    BY <1>1, <1>4 DEF Crash, ConflictInv, Justified
  <1>5. QED BY <1>1, <1>2, <1>3, <1>4 DEF Next, ConflictInv

\* In every reachable state a 409 that is about to be sent has its cause.
THEOREM ConflictsCaused == Spec => []ConflictHasCause
  <1>1. Init => ConflictInv
    <2> SUFFICES ASSUME Init PROVE ConflictInv
      OBVIOUS
    <2>1. TypeOK /\ LockHeldOnlyByOpenWrite
      BY InitTypeOK, NoneAssumption DEF Init, LockHeldOnlyByOpenWrite
    <2>2. QED BY <2>1 DEF Init, ConflictInv, Justified
  <1>2. ConflictInv => ConflictHasCause
    BY DEF ConflictInv, Justified, Cause, NameTaken, ConflictHasCause
  <1>3. QED BY <1>1, <1>2, ConflictInvStep, PTL DEF Spec

=============================================================================
