----------------------------- MODULE MCPipeline -----------------------------
(***************************************************************************)
(* Instances of Pipeline for TLC: two endpoints that write, so that they   *)
(* meet at the lock, one of them with both databases, and the requests     *)
(* that are refused on the way to a handler.                               *)
(***************************************************************************)
EXTENDS Pipeline

Good(route) == [route |-> route, key |-> "valid", body |-> "json", params |-> "valid"]

\* Requests that reach their handler.
Served == {Good("health"), Good("jobs"), Good("write"), Good("add")}

\* Requests that are refused: by the router, the body, the key, or validation.
Refused ==
  {[Good("add") EXCEPT !.key = "invalid", !.params = "invalid"],
   [Good("write") EXCEPT !.key = "not_ascii"],
   [Good("write") EXCEPT !.key = "invalid", !.body = "malformed"],
   [Good("items") EXCEPT !.params = "invalid"],
   Good("no_route"), Good("no_method"), Good("lists")}

\* A reader and writers: while one request has the lock and others wait for it in
\* the threads of the pool, the next one waits for a thread.
Contending == {Good("write"), Good("lists")}

AllInputs == Served \cup Refused

=============================================================================
