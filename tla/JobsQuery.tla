----------------------------- MODULE JobsQuery -----------------------------
(***************************************************************************)
(* What the queries of the read path answer: the filters of GET /jobs with *)
(* SQL's three-valued conditions, the order of a page, paging by limit and *)
(* offset while the scraper writes, and the aggregates of GET /sources and *)
(* GET /stats.  A request is one step here: JobsDb shows that its          *)
(* statements read one edition of the file.                                *)
(*                                                                         *)
(* A job is its source, its tri-state remote, its two texts, and three     *)
(* nullable columns that can be compared: posted (posted_at), low          *)
(* (salary_min) and high (salary_max).  A run is its source and the time   *)
(* it started.                                                             *)
(***************************************************************************)
EXTENDS LikeSearch, FiniteSets, SequencesExt, FiniteSetsExt

CONSTANTS
  JobRows,     \* the rows the scraper may write
  Queries,     \* the lists a client may walk
  Terms,       \* the texts a client may search for
  MaxJob,      \* bound: job ids
  MaxRun,      \* bound: runs
  Null, Unset, None

Sources == {r.source : r \in JobRows}
Dates == {r.posted : r \in JobRows} \ {Null}
Pays == ({r.low : r \in JobRows} \cup {r.high : r \in JobRows}) \ {Null}

ASSUME BoundsAssumption == MaxJob \in Nat /\ MaxRun \in Nat
ASSUME RowsAssumption ==
  \A r \in JobRows : /\ r.remote \in {0, 1, Null}
                     /\ {r.posted, r.low, r.high} \subseteq Nat \cup {Null}
                     /\ {r.title, r.company} \subseteq Seq(Chars)
ASSUME TermsAssumption == Terms \subseteq Seq(Chars) \ {<<>>}
ASSUME QueriesAssumption ==
  \A q \in Queries : /\ q.table \in {"jobs", "runs"} /\ q.order \in {"asc", "desc"}
                     /\ q.sort \in IF q.table = "jobs" THEN {"id", "posted", "low", "high"}
                                  ELSE {"id", "started"}
                     /\ q.limit \in Nat \ {0}
ASSUME NullsAssumption ==
  /\ Null \notin Nat \cup BOOLEAN
  /\ Unset \notin Nat \cup Sources \cup Terms \cup {"true", "false", "unknown"}
ASSUME NoneAssumption == None \notin [items : Seq(Nat), total : Nat]

VARIABLES
  jobs,    \* id -> row
  runs,    \* the runs, by id
  latest,  \* source -> the run that was started last
  query,   \* the list a client is walking, or None
  offset,  \* the offset of its next request
  got,     \* the ids it has received
  first,   \* the ids its query selected when it began
  world,   \* what the scraper has done since: "still", "grown" or "changed"
  answer   \* the last answer

tables == <<jobs, runs, latest>>
walk == <<query, offset, got, first>>
vars == <<jobs, runs, latest, query, offset, got, first, world, answer>>

-----------------------------------------------------------------------------
(* WHERE                                                                    *)

\* What JobFilters holds when nothing is asked for.
Everything == [table |-> "jobs", q |-> Unset, company |-> Unset, source |-> Unset,
               remote |-> Unset, after |-> Unset, before |-> Unset,
               least |-> Unset, most |-> Unset,
               sort |-> "posted", order |-> "desc", limit |-> 1]

\* Faulty: the bound itself is left out.
AtLeastStrictly(v, bound) == IF v = Null THEN Null ELSE v > bound

\* v >= bound and v <= bound in SQL: NULL when v is.
AtLeast(v, bound) == IF v = Null THEN Null ELSE v >= bound
AtMost(v, bound) == IF v = Null THEN Null ELSE v <= bound

RemoteIs(v, remote) ==
  IF remote = "unknown" THEN v = Null
  ELSE IF v = Null THEN Null
  ELSE v = (IF remote = "true" THEN 1 ELSE 0)

\* The truth values of the conditions _build_where joins with AND.
Clauses(q, row) ==
  {Found(t, row.title, row.company) : t \in {q.q} \ {Unset}}
  \cup {Prefixed(t, row.company) : t \in {q.company} \ {Unset}}
  \cup {row.source = s : s \in {q.source} \ {Unset}}
  \cup {RemoteIs(row.remote, r) : r \in {q.remote} \ {Unset}}
  \cup {AtLeast(row.posted, d) : d \in {q.after} \ {Unset}}
  \cup {AtMost(row.posted, d) : d \in {q.before} \ {Unset}}
  \cup {AtLeast(row.low, n) : n \in {q.least} \ {Unset}}
  \cup {AtMost(row.high, n) : n \in {q.most} \ {Unset}}

\* The rows for which all of them are true.
Selected(q) ==
  IF q.table = "runs" THEN DOMAIN runs
  ELSE {j \in DOMAIN jobs : Clauses(q, jobs[j]) \subseteq {TRUE}}

Count(q) == Cardinality(Selected(q))

\* CROSS_FIELD_CONFLICT.
Refused(q) ==
  \/ q.least # Unset /\ q.most # Unset /\ q.least > q.most
  \/ q.after # Unset /\ q.before # Unset /\ q.after > q.before

-----------------------------------------------------------------------------
(* ORDER BY, LIMIT and OFFSET                                               *)

Key(q, i) ==
  IF q.sort = "id" THEN i
  ELSE IF q.table = "runs" THEN runs[i].started ELSE jobs[i][q.sort]

\* NULL is smaller than every value.
Smaller(a, b) == b # Null /\ (a = Null \/ a < b)

\* Faulty: the tie-break only backs a sort by id.
BeforeByColumn(q, i, j) ==
  IF q.order = "asc" THEN Smaller(Key(q, i), Key(q, j))
  ELSE Smaller(Key(q, j), Key(q, i))

\* Faulty: newest first, whatever the client asked for.
BeforeNewestFirst(q, i, j) ==
  Smaller(Key(q, j), Key(q, i)) \/ (Key(q, i) = Key(q, j) /\ i > j)

\* The column in the direction asked for, then the id in the same direction.
Before(q, i, j) ==
  LET less(a, b) == \/ Smaller(Key(q, a), Key(q, b))
                    \/ Key(q, a) = Key(q, b) /\ a < b
  IN IF q.order = "asc" THEN less(i, j) ELSE less(j, i)

\* The orders the database may read the rows in.
Orderings(q) ==
  {s \in SetToSeqs(Selected(q)) :
     \A x, y \in DOMAIN s : Before(q, s[x], s[y]) => x < y}

\* Faulty: the offset counts pages.
WindowOfPages(s, o, limit) == SubSeq(s, o * limit + 1, Min({(o + 1) * limit, Len(s)}))

Window(s, o, limit) == SubSeq(s, o + 1, Min({o + limit, Len(s)}))

\* The answers to one request.
Responses(q, o) ==
  {[items |-> Window(s, o, q.limit), total |-> Count(q)] : s \in Orderings(q)}

-----------------------------------------------------------------------------
(* GET /sources and GET /stats                                              *)

\* Faulty: the newest by its clock, which a batch shares.
OnLatestStart(j, r) ==
  LET mine == {s \in DOMAIN runs : runs[s].source = jobs[j].source}
  IN r \in mine /\ \A s \in mine : runs[s].started <= runs[r].started

\* ON r.id = (SELECT MAX(id) ...)
On(j, r) ==
  LET mine == {s \in DOMAIN runs : runs[s].source = jobs[j].source}
  IN mine # {} /\ r = Max(mine)

\* FROM jobs LEFT JOIN runs
Joined ==
  {p \in (DOMAIN jobs) \X (DOMAIN runs) : On(p[1], p[2])}
  \cup {<<j, Null>> : j \in {j \in DOMAIN jobs : \A r \in DOMAIN runs : ~On(j, r)}}

\* GROUP BY the source and the run's columns, one entry per group.
SourceList ==
  LET group(p) == <<jobs[p[1]].source, p[2]>>
  IN {[source |-> g[1], run |-> g[2],
       job_count |-> Cardinality({p \in Joined : group(p) = g})] :
      g \in {group(p) : p \in Joined}}

\* SUM(CASE WHEN ... THEN 1 ELSE 0 END) where the rows ids satisfy the condition:
\* NULL over no rows.
SumWhen(ids) == IF jobs = <<>> THEN Null ELSE Cardinality(ids)

OrZero(n) == IF n = Null THEN 0 ELSE n

Known(column) == {jobs[j][column] : j \in DOMAIN jobs} \ {Null}

RemoteRows(v) == {j \in DOMAIN jobs : jobs[j].remote = v}

Total == Cardinality(DOMAIN jobs)
Present(column) == OrZero(SumWhen({j \in DOMAIN jobs : jobs[j][column] # Null}))
Remotes == OrZero(SumWhen(RemoteRows(1)))

\* Faulty: on-site is what is not remote.
OnSiteByDifference == Total - Remotes

OnSite == OrZero(SumWhen(RemoteRows(0)))

Stats ==
  [total |-> Total, dated |-> Present("posted"), undated |-> Total - Present("posted"),
   remoteless |-> Total - Present("remote"),
   yes |-> Remotes, no |-> OnSite,
   unknown |-> OrZero(SumWhen(RemoteRows(Null))),
   sources |-> Cardinality({jobs[j].source : j \in DOMAIN jobs}),
   earliest |-> IF Known("posted") = {} THEN Null ELSE Min(Known("posted")),
   latest |-> IF Known("posted") = {} THEN Null ELSE Max(Known("posted"))]

-----------------------------------------------------------------------------
(* The scraper                                                              *)

NewId == 1 + Max(DOMAIN jobs \cup {0})

AddJob ==
  /\ NewId <= MaxJob
  /\ \E row \in JobRows :
       jobs' = [j \in DOMAIN jobs \cup {NewId} |-> IF j = NewId THEN row ELSE jobs[j]]
  /\ world' = IF world = "still" THEN "grown" ELSE world
  /\ UNCHANGED <<runs, latest, walk, answer>>

ChangeJob ==
  /\ \E j \in DOMAIN jobs, row \in JobRows : jobs' = [jobs EXCEPT ![j] = row]
  /\ world' = "changed"
  /\ UNCHANGED <<runs, latest, walk, answer>>

RemoveJob ==
  /\ \E gone \in DOMAIN jobs : jobs' = [j \in DOMAIN jobs \ {gone} |-> jobs[j]]
  /\ world' = "changed"
  /\ UNCHANGED <<runs, latest, walk, answer>>

\* Runs of one batch carry one clock reading.
StartRun ==
  /\ Len(runs) < MaxRun
  /\ \E s \in Sources, tick \in {0, 1} :
       LET now == tick + (IF runs = <<>> THEN 0 ELSE Last(runs).started)
       IN /\ runs' = Append(runs, [source |-> s, started |-> now])
          /\ latest' = [latest EXCEPT ![s] = Len(runs')]
  /\ world' = IF world = "still" THEN "grown" ELSE world
  /\ UNCHANGED <<jobs, walk, answer>>

Scraper == AddJob \/ ChangeJob \/ RemoveJob \/ StartRun

-----------------------------------------------------------------------------
(* A client that asks for one page after the other, until the total        *)

StartWalk ==
  /\ query = None
  /\ query' \in {q \in Queries : ~Refused(q)}
  /\ first' = Selected(query')
  /\ offset' = 0 /\ got' = <<>>
  /\ world' = "still" /\ answer' = None
  /\ UNCHANGED tables

Done == query # None /\ answer # None /\ offset >= answer.total

NextPage ==
  /\ query # None /\ ~Done
  /\ \E a \in Responses(query, offset) :
       /\ answer' = a
       /\ got' = got \o a.items
  /\ offset' = offset + query.limit
  /\ UNCHANGED <<tables, query, first, world>>

Leave ==
  /\ Done
  /\ query' = None /\ answer' = None
  /\ offset' = 0 /\ got' = <<>> /\ first' = {} /\ world' = "still"
  /\ UNCHANGED tables

Client == StartWalk \/ NextPage \/ Leave

Init ==
  /\ jobs = <<>> /\ runs = <<>>
  /\ latest = [s \in Sources |-> Null]
  /\ query = None /\ offset = 0 /\ got = <<>> /\ first = {}
  /\ world = "still" /\ answer = None

Next == Scraper \/ Client

Spec == Init /\ [][Next]_vars

-----------------------------------------------------------------------------
(* Properties: the tables and what is computed from them                    *)

\* Queries to put to every table the scraper can leave behind.
Between(s, a, b) == [Everything EXCEPT !.source = s, !.after = a, !.before = b]

DateRanges ==
  {Between(s, a, b) :
     s \in Sources \cup {Unset}, a \in Dates \cup {Unset}, b \in Dates \cup {Unset}}

\* A salary filter compares one bound with salary_min, the other with salary_max.
Paying(a, b) == [Everything EXCEPT !.least = a, !.most = b]

PayRanges == {Paying(a, b) : a \in Pays \cup {Unset}, b \in Pays \cup {Unset}}

\* Both bounds are inclusive and an undated row satisfies neither: the rows up to
\* a date, the rows after it and the rows without one are all rows.  And a 422
\* hides no row that makes sense: a range of dates that is refused selects nothing
\* from any table, and a range of salaries that is refused only rows whose own
\* salary_min is above their salary_max.
RangesSplitDated ==
  /\ \A d \in Dates :
       LET upto == Selected([Everything EXCEPT !.before = d])
           after == Selected([Everything EXCEPT !.after = d + 1])
           from == Selected([Everything EXCEPT !.after = d])
       IN /\ upto \cap after = {}
          /\ Cardinality(upto) + Cardinality(after) + Stats.undated = Stats.total
          /\ upto \cap from = Selected([Everything EXCEPT !.after = d, !.before = d])
  /\ \A q \in DateRanges : Refused(q) => Selected(q) = {}
  /\ \A q \in PayRanges : Refused(q) =>
       \A j \in Selected(q) : /\ Null \notin {jobs[j].low, jobs[j].high}
                              /\ jobs[j].low > jobs[j].high

\* A search means what the user typed: it finds a row exactly when the term, with
\* its %, _ and \ as plain characters, stands in the title or the company, upper and
\* lower case alike.  The company filter reads the term the same way, at the
\* beginning only.
SearchIsLiteral ==
  \A t \in Terms :
    /\ Selected([Everything EXCEPT !.q = t]) =
         {j \in DOMAIN jobs : StandsIn(t, jobs[j].title) \/ StandsIn(t, jobs[j].company)}
    /\ Selected([Everything EXCEPT !.company = t]) =
         {j \in DOMAIN jobs : StandsAt(t, jobs[j].company, 0)}

\* GET /sources has one entry per source that has jobs.  Its count is the total of
\* the jobs filtered by that source, so the join with the runs adds no row; and its
\* run is the one the scraper started last for it, also when several were stamped
\* with one clock reading.
SourcesOncePerSource ==
  /\ \A a, b \in SourceList : a.source = b.source => a = b
  /\ \A e \in SourceList : e.run = latest[e.source]
  /\ \A s \in Sources :
       LET n == Count([Everything EXCEPT !.source = s])
       IN IF n = 0 THEN \A e \in SourceList : e.source # s
          ELSE \E e \in SourceList : e.source = s /\ e.job_count = n

\* The numbers of GET /stats agree with one another, with the totals of GET /jobs
\* and with GET /sources, on an empty table too.
StatsAgree ==
  /\ Stats.yes = Count([Everything EXCEPT !.remote = "true"])
  /\ Stats.no = Count([Everything EXCEPT !.remote = "false"])
  /\ Stats.unknown = Count([Everything EXCEPT !.remote = "unknown"])
  /\ Stats.unknown = Stats.remoteless
  /\ Stats.yes + Stats.no + Stats.unknown = Stats.total
  /\ Stats.sources = Cardinality(SourceList)
  /\ IF Stats.earliest = Null THEN Stats.dated = 0
     ELSE Count([Everything EXCEPT !.after = Stats.earliest, !.before = Stats.latest])
            = Stats.dated

-----------------------------------------------------------------------------
(* Properties: paging                                                       *)

NoneDoubled == \A x, y \in DOMAIN got : got[x] = got[y] => x = y

\* Paging through tables that stand still gives every selected row exactly once,
\* in every order, although most rows tie on the column.
WalkIsExact ==
  Done /\ world = "still" => NoneDoubled /\ ToSet(got) = first

\* While the scraper only adds rows, a client may see one twice but loses none
\* that was there when it began, whatever the order.
InsertsLoseNothing == Done /\ world # "changed" => first \subseteq ToSet(got)

\* Sorted by ascending id, added rows come at the end: nothing is seen twice, and
\* the client receives every row it was told the total of.
IdOrderIsAppendOnly ==
  (query # None /\ query.table = "jobs" /\ query.sort = "id" /\ query.order = "asc"
     /\ world # "changed") =>
    /\ NoneDoubled
    /\ Done => Len(got) = answer.total

=============================================================================
