-------------------------- MODULE MCWatchlistStore --------------------------
(***************************************************************************)
(* Small instances of WatchlistStore: which requests the clients send, and *)
(* the NOCASE key of the names used.                                       *)
(***************************************************************************)
EXTENDS WatchlistRefinement, TLC

CONSTANTS n1, N1, n2, d1, j1, j2, c1, c2, c3

\* n1 and N1 differ in case only.
MCFold == (n1 :> n1) @@ (N1 :> n1) @@ (n2 :> n2)

Body(kind, i, n, d) == [kind |-> kind, id |-> i, name |-> n, desc |-> d, job |-> j1]
Item(kind, i, j) == [kind |-> kind, id |-> i, name |-> Unset, desc |-> Unset, job |-> j]
Plain(kind, i) == Item(kind, i, j1)

\* Names in contention: creates and renames that collide under NOCASE.
NameRequests ==
  {Body("create", 1, n, None) : n \in {n1, N1, n2}}
  \cup {Body("put", 1, N1, d1), Body("patch", 2, n1, Unset)}
  \cup {Plain("delete", i) : i \in {1, 2}}

\* Bodies that set the name to null.
NullNameRequests ==
  {Body("create", 1, n1, None), Body("patch", 1, None, Unset), Plain("delete", 1)}

\* One request of every kind.
LiveRequests ==
  {Body("create", 1, n1, None), Body("put", 1, n2, d1), Body("patch", 1, N1, Unset),
   Item("add", 1, j1), Item("remove", 1, j1)}
  \cup {Plain(kind, 1) : kind \in {"delete", "list", "get", "items"}}

\* One request of every kind, and a name set to null.
ContractRequests ==
  {Body("create", 1, n1, d1), Body("put", 1, n2, d1), Body("patch", 1, n1, Unset),
   Body("patch", 1, None, Unset), Item("add", 1, j1), Item("remove", 1, j1)}
  \cup {Plain(kind, 1) : kind \in {"delete", "list", "get", "items"}}

HandlerSymmetry == Permutations(Clients)

=============================================================================
