---------------------------- MODULE MCJobsQuery ----------------------------
(***************************************************************************)
(* Instances of JobsQuery: many kinds of rows and no client, to compare    *)
(* the filters and aggregates on every table; and few kinds of rows, most  *)
(* of them tied, for clients that page through them.                       *)
(***************************************************************************)
EXTENDS JobsQuery

Row(source, remote, posted, low, high, title, company) ==
  [source |-> source, remote |-> remote, posted |-> posted, low |-> low, high |-> high,
   title |-> title, company |-> company]

\* Two sources, every value of remote, two adjacent dates and none, salaries with
\* both bounds, one, none, and the wrong way round; and between them each character
\* that means something to LIKE, before and after the others.
ManyRows ==
  {Row(1, 1, 1, 1, 2, <<"a">>, <<"%", "A">>),
   Row(1, 0, 2, 2, 1, <<"A">>, <<"\\", "_">>),
   Row(1, Null, Null, Null, Null, <<"_">>, <<"a", "\\", "%">>),
   Row(2, Null, 1, 2, Null, <<"\\">>, <<"a", "A", "%">>),
   Row(2, 1, 2, Null, 1, <<"%">>, <<"a", "_">>)}

\* Two tied rows, and one that is undated.
FewRows ==
  {Row(1, 1, 1, 1, 1, <<"a">>, <<"a">>), Row(1, Null, Null, Null, Null, <<"a">>, <<"a">>)}

\* All texts of one or two characters.
TwoCases == {"a", "A"}
LowerCase == [c \in TwoCases |-> "a"]
ShortTerms == UNION {[1..n -> Chars] : n \in {1, 2}}
NoTerms == {}

NoQueries == {}

Runs == [Everything EXCEPT !.table = "runs", !.sort = "started"]

\* The default order, the same one page of two at a time, a filter with the other
\* direction, the order by id, and the runs.
Walks ==
  {Everything, [Everything EXCEPT !.limit = 2],
   [Everything EXCEPT !.after = 1, !.order = "asc"],
   [Everything EXCEPT !.sort = "id", !.order = "asc"], Runs}

=============================================================================
