-------------------------- MODULE WatchlistService --------------------------
(***************************************************************************)
(* What the /watchlists resource promises a client, without connections,   *)
(* locks, statements or transactions.  A request is open until it has its  *)
(* outcome; in between its effect happens once, at one moment, on the      *)
(* whole store, or it is refused for a reason that holds of the store at   *)
(* one moment, or it is unavailable and nothing happened.                  *)
(*                                                                         *)
(* Four promises are weaker than that, and are here because the program    *)
(* keeps only these: a PUT or PATCH answers with the row as it is found    *)
(* after the effect, which may be another request's or gone; an added job  *)
(* was in the catalogue at some earlier moment of the request; a job whose *)
(* posted_at is no date is added and then answered with a 500; and a page  *)
(* of items is compared with the catalogue at some later moment.           *)
(***************************************************************************)
EXTENDS WatchlistData

VARIABLES
  store,      \* the watchlists and their items
  catalogue,  \* the jobs the other database holds, and which can be served
  phase,      \* how far each request is
  request,    \* what it asks
  outcome     \* what it will be told

svars == <<store, catalogue, phase, request, outcome>>

Phases == {"idle", "open", "vetted", "written", "looked", "done", "refused"}

Set(f, c, value) == [f EXCEPT ![c] = value]

Open(c) ==
  /\ phase[c] = "idle"
  /\ \E r \in Requests : request' = Set(request, c, r)
  /\ phase' = Set(phase, c, "open")
  /\ UNCHANGED <<store, catalogue, outcome>>

\* The request moves to a phase with an outcome; the store stays as it is.
Settle(c, next, result) ==
  /\ phase' = Set(phase, c, next)
  /\ outcome' = Set(outcome, c, result)
  /\ UNCHANGED <<store, catalogue, request>>

Told(status) == [Blank EXCEPT !.status = status]

-----------------------------------------------------------------------------
(* Effects: the whole change at one moment                                  *)

\* The store becomes next and the request is told result.
Becomes(c, next, result) ==
  /\ store' = next
  /\ outcome' = Set(outcome, c, result)
  /\ phase' = Set(phase, c, IF request[c].kind \in {"put", "patch", "add"}
                            THEN "written" ELSE "done")
  /\ UNCHANGED <<catalogue, request>>

Put(i, row) == [store EXCEPT !.lists = [@ EXCEPT ![i] = row]]

Created(c) ==
  /\ phase[c] = "open" /\ request[c].kind = "create"
  /\ ~NameTaken(store, request[c].name, 0)
  /\ \E i \in Ids \ Existing(store) :
       LET row == [name |-> request[c].name, desc |-> request[c].desc] IN
       Becomes(c, Put(i, row), [Told("created") EXCEPT !.id = i, !.row = row])

\* PUT names every field; PATCH leaves the ones it does not name.
Rewritten(c) ==
  LET r == request[c]
      old == store.lists[r.id]
      new == [name |-> IF r.name = Unset THEN old.name ELSE r.name,
              desc |-> IF r.desc = Unset THEN old.desc ELSE r.desc]
  IN /\ phase[c] = "open" /\ r.kind \in {"put", "patch"}
     /\ r.id \in Existing(store)
     /\ new.name \in Names /\ ~NameTaken(store, new.name, r.id)
     /\ Becomes(c, Put(r.id, new), Blank)

Deleted(c) ==
  LET i == request[c].id IN
  /\ phase[c] = "open" /\ request[c].kind = "delete"
  /\ i \in Existing(store)
  /\ Becomes(c, [Put(i, None) EXCEPT !.items = @ \ ({i} \X Jobs)], Told("no_content"))

Saved(c) ==
  LET item == <<request[c].id, request[c].job>> IN
  /\ phase[c] = "vetted" /\ request[c].kind = "add"
  /\ item[1] \in Existing(store) /\ item \notin store.items
  /\ Becomes(c, [store EXCEPT !.items = @ \cup {item}], outcome[c])

Unsaved(c) ==
  LET item == <<request[c].id, request[c].job>> IN
  /\ phase[c] = "open" /\ request[c].kind = "remove"
  /\ item \in store.items
  /\ Becomes(c, [store EXCEPT !.items = @ \ {item}], Told("no_content"))

Perform(c) == Created(c) \/ Rewritten(c) \/ Deleted(c) \/ Saved(c) \/ Unsaved(c)

-----------------------------------------------------------------------------
(* Refusals: no change, for a reason                                        *)

Reason(c, status) ==
  LET r == request[c] IN
  CASE status = "watchlist_not_found" ->
         r.kind \notin {"create", "list"} /\ r.id \notin Existing(store)
    [] status = "job_not_found" -> r.kind = "add" /\ r.job \notin Present(catalogue)
    [] status = "item_not_found" ->
         r.kind = "remove" /\ <<r.id, r.job>> \notin store.items
    [] status = "duplicate" ->
         \/ r.kind = "add" /\ <<r.id, r.job>> \in store.items
         \/ r.kind = "create" /\ NameTaken(store, r.name, 0)
         \/ r.kind \in {"put", "patch"} /\ r.name \in Names
              /\ NameTaken(store, r.name, r.id)
         \/ r.kind = "patch" /\ r.name = None
    [] status = "unavailable" -> TRUE
    [] status = "internal_error" -> phase[c] = "open"

Deny(c) ==
  /\ phase[c] \in {"open", "vetted"}
  /\ \E status \in Refusals :
       Reason(c, status) /\ Settle(c, "refused", Told(status))

-----------------------------------------------------------------------------
(* Answers that take more than one moment                                   *)

\* The job is in the catalogue; what can be told of it is noted.
Vet(c) ==
  /\ phase[c] = "open" /\ request[c].kind = "add"
  /\ request[c].job \in Present(catalogue)
  /\ Settle(c, "vetted", [Blank EXCEPT !.page = {request[c].job} \cap Servable(catalogue)])

\* The row, after a GET or after the effect of a PUT or PATCH.
ReadBack(c) ==
  /\ \/ phase[c] = "open" /\ request[c].kind = "get"
     \/ phase[c] = "written" /\ request[c].kind \in {"put", "patch"}
  /\ IF request[c].id \in Existing(store)
     THEN Settle(c, "done", RowAnswer(store, request[c].id))
     ELSE Settle(c, "refused", Told("watchlist_not_found"))

\* The saved item with its job, if that can be told.
Confirm(c) ==
  /\ phase[c] = "written" /\ request[c].kind = "add"
  /\ IF outcome[c].page = {}
     THEN Settle(c, "refused", Told("internal_error"))
     ELSE Settle(c, "done", [outcome[c] EXCEPT !.status = "created"])

\* Rows and total of a listing, of one moment.
Listing(r) ==
  LET page == IF r.kind = "list" THEN Existing(store) ELSE ItemsOf(store, r.id) IN
  [Told("ok") EXCEPT !.page = page, !.count = Cardinality(page)]

Look(c) ==
  /\ phase[c] = "open"
  /\ \/ request[c].kind = "list"
     \/ request[c].kind = "items" /\ request[c].id \in Existing(store)
  /\ Settle(c, IF request[c].kind = "list" THEN "done" ELSE "looked",
            Listing(request[c]))

Compare(c) ==
  /\ phase[c] = "looked"
  /\ \/ /\ outcome[c].page \cap Present(catalogue) \subseteq Servable(catalogue)
        /\ Settle(c, "done",
                  [outcome[c] EXCEPT !.missing = outcome[c].page \ Present(catalogue)])
     \/ \E status \in {"unavailable", "internal_error"} :
          Settle(c, "refused", Told(status))

-----------------------------------------------------------------------------

Tell(c) ==
  /\ phase[c] \in {"done", "refused"}
  /\ phase' = Set(phase, c, "idle")
  /\ request' = Set(request, c, None)
  /\ outcome' = Set(outcome, c, Blank)
  /\ UNCHANGED <<store, catalogue>>

\* Every open request is dropped at once; what was performed stays.
Drop ==
  /\ phase' = [c \in Clients |-> "idle"]
  /\ request' = [c \in Clients |-> None]
  /\ outcome' = [c \in Clients |-> Blank]
  /\ UNCHANGED <<store, catalogue>>

Publish ==
  /\ \E j \in Jobs, row \in {"absent", "dated", "undated"} :
       catalogue' = [catalogue EXCEPT ![j] = row]
  /\ UNCHANGED <<store, phase, request, outcome>>

SInit ==
  /\ store = [lists |-> [i \in Ids |-> None], items |-> {}]
  /\ catalogue \in Catalogue
  /\ phase = [c \in Clients |-> "idle"]
  /\ request = [c \in Clients |-> None]
  /\ outcome = [c \in Clients |-> Blank]

Serve(c) ==
  \/ Perform(c) \/ Deny(c) \/ Vet(c) \/ ReadBack(c) \/ Confirm(c)
  \/ Look(c) \/ Compare(c) \/ Tell(c)

SNext == (\E c \in Clients : Open(c) \/ Serve(c)) \/ Publish \/ Drop

SSpec == SInit /\ [][SNext]_svars

=============================================================================
