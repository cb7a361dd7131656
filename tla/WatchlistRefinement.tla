------------------------- MODULE WatchlistRefinement -------------------------
(***************************************************************************)
(* The handlers of WatchlistStore keep what WatchlistService promises.  A  *)
(* change happens, for the client, at its COMMIT; a refusal at the         *)
(* statement that met it, under the write lock or in one read; a listing   *)
(* at the first read of its snapshot.                                      *)
(***************************************************************************)
EXTENDS WatchlistStore

\* How far a request is for its client, from the handler's next step.
PhaseOf(c) ==
  CASE pc[c] = "idle"   -> "idle"
    [] pc[c] \in {"reread", "entry"} -> "written"
    [] pc[c] = "answer" -> "done"
    [] pc[c] = "close"  -> "refused"
    [] pc[c] = "join" \/ (pc[c] \in {"page", "count"} /\ req[c].kind = "items") -> "looked"
    [] pc[c] = "count" /\ req[c].kind = "list" -> "done"
    [] pc[c] \in {"list_check", "write", "commit"} /\ req[c].kind = "add" -> "vetted"
    [] OTHER -> "open"

\* What a request will be told: nothing before its commit, except the job an add
\* has found; and the whole listing as soon as its snapshot is taken, although it
\* is still to be read.
OutcomeOf(c) ==
  CASE pc[c] = "commit" /\ req[c].kind # "add" -> Blank
    [] pc[c] \in {"page", "count"} /\ snap[c] # None ->
         LET page == Listed(c, snap[c]) IN
         [Blank EXCEPT !.status = "ok", !.page = page, !.count = Cardinality(page)]
    [] OTHER -> ans[c]

Service == INSTANCE WatchlistService WITH
  store     <- db,
  catalogue <- jobs,
  phase     <- [c \in Clients |-> PhaseOf(c)],
  request   <- req,
  outcome   <- [c \in Clients |-> OutcomeOf(c)]

\* Every behaviour of the handlers, with all their interleavings and crashes, is
\* one in which each request takes effect at one moment or not at all.
ImplementsService == Service!SSpec

=============================================================================
