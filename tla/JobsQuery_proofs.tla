--------------------------- MODULE JobsQuery_proofs ---------------------------
(***************************************************************************)
(* Proofs about JobsQuery, for every set of rows, queries and terms, every *)
(* table the scraper can leave behind, and every page size.                *)
(***************************************************************************)
EXTENDS JobsQuery, FunctionTheorems, FiniteSetTheorems, TLAPS

-----------------------------------------------------------------------------
(* Finite sets of numbers                                                   *)

\* A family of sets that has the empty set, and a set whenever it has the set
\* without some element of it, has every finite set.
LEMMA FiniteSetInduction ==
  ASSUME NEW D, IsFiniteSet(D), NEW P, {} \in P,
         \A S \in SUBSET D : S # {} => \E x \in S : S \ {x} \in P => S \in P
  PROVE  \A S \in SUBSET D : S \in P
  <1> DEFINE Bad == {S \in SUBSET D : S \notin P}
             R == StrictSubsetOrdering(D)
  <1>1. SUFFICES ASSUME Bad # {} PROVE FALSE
    OBVIOUS
  <1>2. IsWellFoundedOn(R, SUBSET D)
    BY FS_StrictSubsetOrderingWellFounded, FS_FiniteSubsetsOfFinite
  <1>3. Bad \subseteq SUBSET D
    OBVIOUS
  <1> HIDE DEF R
  <1>4. PICK S \in Bad : \A T \in Bad : <<T, S>> \notin R
    BY <1>1, <1>2, <1>3, WFMin
  <1>5. S \in SUBSET D /\ S # {} /\ S \notin P
    BY <1>4
  <1>6. PICK x \in S : S \ {x} \in P => S \in P
    BY <1>5
  <1>7. S \ {x} \in Bad
    BY <1>5, <1>6
  <1>8. <<S \ {x}, S>> \in R
    BY <1>5, <1>6 DEF R, StrictSubsetOrdering
  <1>9. QED BY <1>4, <1>7, <1>8

LEMMA FiniteExtremes ==
  ASSUME NEW D \in SUBSET Int, IsFiniteSet(D), D # {}
  PROVE  /\ Max(D) \in D /\ \A x \in D : x <= Max(D)
         /\ Min(D) \in D /\ \A x \in D : Min(D) <= x
  <1> DEFINE P == {S \in SUBSET D :
                   S = {} \/ \E lo, hi \in S : \A x \in S : lo <= x /\ x <= hi}
  <1>1. {} \in P
    OBVIOUS
  <1>2. ASSUME NEW S \in SUBSET D, S # {} PROVE \E x \in S : S \ {x} \in P => S \in P
    <2>1. PICK x \in S : TRUE
      BY <1>2
    <2>2. ASSUME S \ {x} \in P PROVE S \in P
      <3>1. CASE S \ {x} = {}
        <4>1. S = {x}
          BY <3>1
        <4>2. QED BY <4>1
      <3>2. CASE S \ {x} # {}
        <4>1. PICK lo \in S \ {x}, hi \in S \ {x} : \A y \in S \ {x} : lo <= y /\ y <= hi
          BY <2>2, <3>2
        <4>2. x \in Int /\ lo \in Int /\ hi \in Int /\ \A y \in S : y \in Int
          OBVIOUS
        <4>3. \E l \in {lo, x} : l <= lo /\ l <= x
          BY <4>2
        <4>4. \E h \in {hi, x} : hi <= h /\ x <= h
          BY <4>2
        <4>5. PICK l \in {lo, x}, h \in {hi, x} : l <= lo /\ l <= x /\ hi <= h /\ x <= h
          BY <4>3, <4>4
        <4>6. ASSUME NEW y \in S PROVE l <= y /\ y <= h
          <5>1. CASE y = x
            BY <4>5, <5>1
          <5>2. CASE y # x
            BY <4>1, <4>2, <4>5, <5>2
          <5>3. QED BY <5>1, <5>2
        <4>7. l \in S /\ h \in S
          OBVIOUS
        <4>8. QED BY <4>6, <4>7
      <3>3. QED BY <3>1, <3>2
    <2>3. QED BY <2>1, <2>2
  <1> HIDE DEF P
  <1>3. D \in P
    BY <1>1, <1>2, FiniteSetInduction
  <1>4. PICK lo \in D, hi \in D : \A x \in D : lo <= x /\ x <= hi
    BY <1>3 DEF P
  <1>5. Max(D) \in D /\ \A x \in D : Max(D) >= x
    BY <1>4 DEF Max
  <1>6. Min(D) \in D /\ \A x \in D : Min(D) =< x
    BY <1>4 DEF Min
  <1>7. QED BY <1>5, <1>6

-----------------------------------------------------------------------------
(* The tables                                                               *)

Tables == UNION {[S -> JobRows] : S \in SUBSET (1..MaxJob)}
RunRows == [source : Sources, started : Nat]

\* The rows are rows, and latest is what a client could read off the runs.
TablesInv ==
  /\ jobs \in Tables
  /\ runs \in Seq(RunRows)
  /\ latest \in [Sources -> Nat \cup {Null}]
  /\ \A s \in Sources :
       LET mine == {r \in DOMAIN runs : runs[r].source = s}
       IN IF mine = {} THEN latest[s] = Null
          ELSE latest[s] \in mine /\ \A r \in mine : r <= latest[s]

LEMMA Rows ==
  ASSUME TablesInv
  PROVE  /\ DOMAIN jobs \in SUBSET Nat /\ IsFiniteSet(DOMAIN jobs)
         /\ \A j \in DOMAIN jobs : /\ jobs[j] \in JobRows /\ jobs[j].source \in Sources
                                   /\ jobs[j].posted \in Nat \cup {Null}
                                   /\ jobs[j].low \in Nat \cup {Null}
                                   /\ jobs[j].high \in Nat \cup {Null}
                                   /\ jobs[j].remote \in {0, 1, Null}
  <1>1. PICK S \in SUBSET (1..MaxJob) : jobs \in [S -> JobRows]
    BY DEF TablesInv, Tables
  <1>2. IsFiniteSet(S)
    <2>1. MaxJob \in Int
      BY BoundsAssumption
    <2>2. IsFiniteSet(1..MaxJob)
      BY <2>1, FS_Interval
    <2>3. QED BY <2>2, FS_Subset
  <1>3. QED BY <1>1, <1>2, RowsAssumption DEF Sources

LEMMA NewIdIsNew ==
  ASSUME TablesInv
  PROVE  NewId \in Nat \ {0} /\ \A j \in DOMAIN jobs : j < NewId
  <1> DEFINE D == DOMAIN jobs \cup {0}
  <1>1. D \in SUBSET Int /\ IsFiniteSet(D) /\ D # {} /\ D \subseteq Nat
    BY Rows, FS_AddElement
  <1>2. Max(D) \in D /\ \A x \in D : x <= Max(D)
    BY <1>1, FiniteExtremes
  <1>3. QED BY <1>1, <1>2 DEF NewId

LEMMA TablesInit ==
  ASSUME Init
  PROVE  TablesInv
  <1>1. jobs \in [{} -> JobRows]
    BY DEF Init
  <1>2. jobs \in Tables
    BY <1>1 DEF Tables
  <1>3. runs \in Seq(RunRows) /\ DOMAIN runs = {}
    BY DEF Init
  <1>4. QED BY <1>2, <1>3 DEF Init, TablesInv

LEMMA TablesStep ==
  ASSUME TablesInv, [Next]_vars
  PROVE  TablesInv'
  <1>0. PICK S \in SUBSET (1..MaxJob) : jobs \in [S -> JobRows]
    BY DEF TablesInv, Tables
  <1>1. CASE AddJob
    <2>1. PICK row \in JobRows :
            jobs' = [j \in DOMAIN jobs \cup {NewId} |-> IF j = NewId THEN row ELSE jobs[j]]
      BY <1>1 DEF AddJob
    <2>2. NewId \in 1..MaxJob
      BY <1>1, NewIdIsNew, BoundsAssumption DEF AddJob
    <2>3. jobs' \in [S \cup {NewId} -> JobRows]
      BY <1>0, <2>1
    <2>4. jobs' \in Tables
      BY <2>2, <2>3 DEF Tables
    <2>5. QED BY <1>1, <2>4 DEF AddJob, TablesInv
  <1>2. CASE ChangeJob
    <2>1. jobs' \in [S -> JobRows]
      BY <1>0, <1>2 DEF ChangeJob
    <2>2. QED BY <1>2, <2>1 DEF ChangeJob, TablesInv, Tables
  <1>3. CASE RemoveJob
    <2>1. PICK gone \in DOMAIN jobs : jobs' = [j \in DOMAIN jobs \ {gone} |-> jobs[j]]
      BY <1>3 DEF RemoveJob
    <2>2. jobs' \in [S \ {gone} -> JobRows]
      BY <1>0, <2>1
    <2>3. jobs' \in Tables
      BY <2>2 DEF Tables
    <2>4. QED BY <1>3, <2>3 DEF RemoveJob, TablesInv
  <1>4. CASE StartRun
    <2>1. PICK s \in Sources, tick \in {0, 1} :
            LET now == tick + (IF runs = <<>> THEN 0 ELSE Last(runs).started)
            IN /\ runs' = Append(runs, [source |-> s, started |-> now])
               /\ latest' = [latest EXCEPT ![s] = Len(runs')]
      BY <1>4 DEF StartRun
    <2> DEFINE now == tick + (IF runs = <<>> THEN 0 ELSE Last(runs).started)
               n == Len(runs)
               Mine(o) == {r \in DOMAIN runs : runs[r].source = o}
    <2>2. now \in Nat
      <3>1. CASE runs = <<>>
        BY <3>1
      <3>2. CASE runs # <<>>
        <4>1. runs \in Seq(RunRows)
          BY DEF TablesInv
        <4>2. Len(runs) \in 1..Len(runs)
          BY <3>2, <4>1
        <4>3. Last(runs) \in RunRows
          BY <4>1, <4>2 DEF Last
        <4>4. QED BY <3>2, <4>3 DEF RunRows
      <3>3. QED BY <3>1, <3>2
    <2> HIDE DEF now
    <2>3. /\ n \in Nat /\ DOMAIN runs = 1..n
          /\ runs' \in Seq(RunRows)
          /\ DOMAIN runs' = 1..n + 1 /\ runs'[n + 1].source = s
          /\ \A r \in 1..n : runs'[r] = runs[r]
          /\ latest' = [latest EXCEPT ![s] = n + 1]
      BY <2>1, <2>2 DEF TablesInv, RunRows, now
    <2> HIDE DEF n
    <2>4. latest' \in [Sources -> Nat \cup {Null}]
      BY <2>3 DEF TablesInv
    <2>5. ASSUME NEW o \in Sources
          PROVE  LET mine == {r \in DOMAIN runs' : runs'[r].source = o}
                 IN IF mine = {} THEN latest'[o] = Null
                    ELSE latest'[o] \in mine /\ \A r \in mine : r <= latest'[o]
      <3>1. CASE o = s
        BY <2>3, <3>1 DEF TablesInv
      <3>2. CASE o # s
        <4>1. {r \in DOMAIN runs' : runs'[r].source = o} = Mine(o)
          BY <2>3, <3>2
        <4>2. latest'[o] = latest[o]
          BY <2>3, <3>2 DEF TablesInv
        <4>3. QED BY <4>1, <4>2 DEF TablesInv
      <3>3. QED BY <3>1, <3>2
    <2>6. QED BY <1>4, <2>3, <2>4, <2>5 DEF StartRun, TablesInv
  <1>5. CASE Client \/ UNCHANGED vars
    BY <1>5 DEF Client, StartWalk, NextPage, Leave, TablesInv, tables, vars
  <1>6. QED BY <1>1, <1>2, <1>3, <1>4, <1>5 DEF Next, Scraper

LEMMA TablesAlways == Spec => []TablesInv
  <1>1. QED BY TablesInit, TablesStep, PTL DEF Spec

-----------------------------------------------------------------------------
(* The filters                                                              *)

\* The conditions hold when each one that is asked for is true.
LEMMA ClausesHold ==
  ASSUME NEW q, NEW row
  PROVE  Clauses(q, row) \subseteq {TRUE} <=>
           /\ q.q # Unset => Found(q.q, row.title, row.company) = TRUE
           /\ q.company # Unset => Prefixed(q.company, row.company) = TRUE
           /\ q.source # Unset => (row.source = q.source) = TRUE
           /\ q.remote # Unset => RemoteIs(row.remote, q.remote) = TRUE
           /\ q.after # Unset => AtLeast(row.posted, q.after) = TRUE
           /\ q.before # Unset => AtMost(row.posted, q.before) = TRUE
           /\ q.least # Unset => AtLeast(row.low, q.least) = TRUE
           /\ q.most # Unset => AtMost(row.high, q.most) = TRUE
  <1> DEFINE c1 == {Found(t, row.title, row.company) : t \in {q.q} \ {Unset}}
             c2 == {Prefixed(t, row.company) : t \in {q.company} \ {Unset}}
             c3 == {row.source = s : s \in {q.source} \ {Unset}}
             c4 == {RemoteIs(row.remote, r) : r \in {q.remote} \ {Unset}}
             c5 == {AtLeast(row.posted, d) : d \in {q.after} \ {Unset}}
             c6 == {AtMost(row.posted, d) : d \in {q.before} \ {Unset}}
             c7 == {AtLeast(row.low, n) : n \in {q.least} \ {Unset}}
             c8 == {AtMost(row.high, n) : n \in {q.most} \ {Unset}}
  <1>1. Clauses(q, row) = c1 \cup c2 \cup c3 \cup c4 \cup c5 \cup c6 \cup c7 \cup c8
    BY DEF Clauses
  <1>2. c1 \subseteq {TRUE} <=> (q.q # Unset => Found(q.q, row.title, row.company) = TRUE)
    OBVIOUS
  <1>3. c2 \subseteq {TRUE} <=>
          (q.company # Unset => Prefixed(q.company, row.company) = TRUE)
    OBVIOUS
  <1>4. c3 \subseteq {TRUE} <=> (q.source # Unset => (row.source = q.source) = TRUE)
    OBVIOUS
  <1>5. c4 \subseteq {TRUE} <=> (q.remote # Unset => RemoteIs(row.remote, q.remote) = TRUE)
    OBVIOUS
  <1>6. c5 \subseteq {TRUE} <=> (q.after # Unset => AtLeast(row.posted, q.after) = TRUE)
    OBVIOUS
  <1>7. c6 \subseteq {TRUE} <=> (q.before # Unset => AtMost(row.posted, q.before) = TRUE)
    OBVIOUS
  <1>8. c7 \subseteq {TRUE} <=> (q.least # Unset => AtLeast(row.low, q.least) = TRUE)
    OBVIOUS
  <1>9. c8 \subseteq {TRUE} <=> (q.most # Unset => AtMost(row.high, q.most) = TRUE)
    OBVIOUS
  <1> HIDE DEF c1, c2, c3, c4, c5, c6, c7, c8
  <1>10. Clauses(q, row) \subseteq {TRUE} <=>
           /\ c1 \subseteq {TRUE} /\ c2 \subseteq {TRUE} /\ c3 \subseteq {TRUE}
           /\ c4 \subseteq {TRUE} /\ c5 \subseteq {TRUE} /\ c6 \subseteq {TRUE}
           /\ c7 \subseteq {TRUE} /\ c8 \subseteq {TRUE}
    BY <1>1
  <1>11. QED BY <1>2, <1>3, <1>4, <1>5, <1>6, <1>7, <1>8, <1>9, <1>10

\* NULL is not true, so an undated row is in no range.
LEMMA RangeTrue ==
  ASSUME NEW v \in Nat \cup {Null}, NEW d \in Nat
  PROVE  /\ AtLeast(v, d) = TRUE <=> v # Null /\ v >= d
         /\ AtMost(v, d) = TRUE <=> v # Null /\ v <= d
  <1>1. CASE v = Null
    <2>1. Null # TRUE
      BY NullsAssumption
    <2>2. AtLeast(v, d) = Null /\ AtMost(v, d) = Null
      BY <1>1 DEF AtLeast, AtMost
    <2>3. QED BY <1>1, <2>1, <2>2
  <1>2. CASE v # Null
    <2>1. AtLeast(v, d) = (v >= d) /\ AtMost(v, d) = (v <= d)
      BY <1>2 DEF AtLeast, AtMost
    <2>2. QED BY <1>2, <2>1
  <1>3. QED BY <1>1, <1>2

LEMMA RemoteTrue ==
  ASSUME NEW v \in {0, 1, Null}
  PROVE  /\ RemoteIs(v, "true") = TRUE <=> v = 1
         /\ RemoteIs(v, "false") = TRUE <=> v = 0
         /\ RemoteIs(v, "unknown") = TRUE <=> v = Null
  <1>1. Null # TRUE /\ Null # 0 /\ Null # 1
    <2>1. Null \notin BOOLEAN /\ Null \notin Nat
      BY NullsAssumption
    <2>2. Null # TRUE
      BY <2>1
    <2>3. Null # 0 /\ Null # 1
      BY <2>1
    <2>4. QED BY <2>2, <2>3
  <1>2. RemoteIs(v, "unknown") = (v = Null)
    BY DEF RemoteIs
  <1>3. CASE v = Null
    <2>1. RemoteIs(v, "true") = Null /\ RemoteIs(v, "false") = Null
      BY <1>3 DEF RemoteIs
    <2>2. QED BY <1>1, <1>2, <1>3, <2>1
  <1>4. CASE v # Null
    <2>1. RemoteIs(v, "true") = (v = 1) /\ RemoteIs(v, "false") = (v = 0)
      BY <1>4 DEF RemoteIs
    <2>2. QED BY <1>2, <1>4, <2>1
  <1>5. QED BY <1>3, <1>4

\* A query for jobs with no text selects by its source, its remote, its dates and
\* its salaries.
LEMMA SelectedJobs ==
  ASSUME TablesInv, NEW q, q.table = "jobs", q.q = Unset, q.company = Unset,
         q.after \in Nat \cup {Unset}, q.before \in Nat \cup {Unset},
         q.least \in Nat \cup {Unset}, q.most \in Nat \cup {Unset}
  PROVE  Selected(q) =
           {j \in DOMAIN jobs :
              /\ q.source # Unset => jobs[j].source = q.source
              /\ q.remote # Unset => RemoteIs(jobs[j].remote, q.remote) = TRUE
              /\ q.after # Unset => jobs[j].posted # Null /\ jobs[j].posted >= q.after
              /\ q.before # Unset => jobs[j].posted # Null /\ jobs[j].posted <= q.before
              /\ q.least # Unset => jobs[j].low # Null /\ jobs[j].low >= q.least
              /\ q.most # Unset => jobs[j].high # Null /\ jobs[j].high <= q.most}
  <1>1. Selected(q) = {j \in DOMAIN jobs : Clauses(q, jobs[j]) \subseteq {TRUE}}
    BY DEF Selected
  <1>2. ASSUME NEW j \in DOMAIN jobs
        PROVE  Clauses(q, jobs[j]) \subseteq {TRUE} <=>
                 /\ q.source # Unset => jobs[j].source = q.source
                 /\ q.remote # Unset => RemoteIs(jobs[j].remote, q.remote) = TRUE
                 /\ q.after # Unset => jobs[j].posted # Null /\ jobs[j].posted >= q.after
                 /\ q.before # Unset => jobs[j].posted # Null /\ jobs[j].posted <= q.before
                 /\ q.least # Unset => jobs[j].low # Null /\ jobs[j].low >= q.least
                 /\ q.most # Unset => jobs[j].high # Null /\ jobs[j].high <= q.most
    <2>1. /\ jobs[j].posted \in Nat \cup {Null}
          /\ jobs[j].low \in Nat \cup {Null} /\ jobs[j].high \in Nat \cup {Null}
      BY Rows
    <2>2. q.after # Unset =>
            (AtLeast(jobs[j].posted, q.after) = TRUE
               <=> jobs[j].posted # Null /\ jobs[j].posted >= q.after)
      BY <2>1, RangeTrue
    <2>3. q.before # Unset =>
            (AtMost(jobs[j].posted, q.before) = TRUE
               <=> jobs[j].posted # Null /\ jobs[j].posted <= q.before)
      BY <2>1, RangeTrue
    <2>4. q.least # Unset =>
            (AtLeast(jobs[j].low, q.least) = TRUE
               <=> jobs[j].low # Null /\ jobs[j].low >= q.least)
      BY <2>1, RangeTrue
    <2>5. q.most # Unset =>
            (AtMost(jobs[j].high, q.most) = TRUE
               <=> jobs[j].high # Null /\ jobs[j].high <= q.most)
      BY <2>1, RangeTrue
    <2>6. QED BY <2>2, <2>3, <2>4, <2>5, ClausesHold
  <1>3. QED BY <1>1, <1>2

\* What the properties ask for.
LEMMA SourceFilter ==
  ASSUME TablesInv, NEW s \in Sources
  PROVE  Selected([Everything EXCEPT !.source = s]) =
           {j \in DOMAIN jobs : jobs[j].source = s}
  <1> DEFINE q == [Everything EXCEPT !.source = s]
  <1>1. /\ q.table = "jobs" /\ q.q = Unset /\ q.company = Unset /\ q.remote = Unset
        /\ q.source = s /\ q.after = Unset /\ q.before = Unset
        /\ q.least = Unset /\ q.most = Unset
    BY DEF Everything
  <1>2. s # Unset
    BY NullsAssumption
  <1> HIDE DEF q
  <1>3. Selected(q) = {j \in DOMAIN jobs : jobs[j].source = s}
    BY <1>1, <1>2, SelectedJobs
  <1>4. QED BY <1>3 DEF q

LEMMA RangeFilters ==
  ASSUME TablesInv, NEW a \in Nat, NEW b \in Nat
  PROVE  /\ Selected([Everything EXCEPT !.after = a]) =
              {j \in DOMAIN jobs : jobs[j].posted # Null /\ jobs[j].posted >= a}
         /\ Selected([Everything EXCEPT !.before = b]) =
              {j \in DOMAIN jobs : jobs[j].posted # Null /\ jobs[j].posted <= b}
         /\ Selected([Everything EXCEPT !.after = a, !.before = b]) =
              {j \in DOMAIN jobs : /\ jobs[j].posted # Null
                                   /\ jobs[j].posted >= a /\ jobs[j].posted <= b}
  <1> DEFINE q1 == [Everything EXCEPT !.after = a]
             q2 == [Everything EXCEPT !.before = b]
             q3 == [Everything EXCEPT !.after = a, !.before = b]
  <1>0. a # Unset /\ b # Unset
    BY NullsAssumption
  <1>1. /\ q1.table = "jobs" /\ q1.q = Unset /\ q1.company = Unset
        /\ q1.remote = Unset /\ q1.source = Unset /\ q1.after = a /\ q1.before = Unset
        /\ q1.least = Unset /\ q1.most = Unset
    BY DEF Everything
  <1>2. /\ q2.table = "jobs" /\ q2.q = Unset /\ q2.company = Unset
        /\ q2.remote = Unset /\ q2.source = Unset /\ q2.after = Unset /\ q2.before = b
        /\ q2.least = Unset /\ q2.most = Unset
    BY DEF Everything
  <1>7. /\ q3.table = "jobs" /\ q3.q = Unset /\ q3.company = Unset
        /\ q3.remote = Unset /\ q3.source = Unset /\ q3.after = a /\ q3.before = b
        /\ q3.least = Unset /\ q3.most = Unset
    BY DEF Everything
  <1> HIDE DEF q1, q2, q3
  <1>3. Selected(q1) = {j \in DOMAIN jobs : jobs[j].posted # Null /\ jobs[j].posted >= a}
    BY <1>0, <1>1, SelectedJobs
  <1>4. Selected(q2) = {j \in DOMAIN jobs : jobs[j].posted # Null /\ jobs[j].posted <= b}
    BY <1>0, <1>2, SelectedJobs
  <1>5. Selected(q3) = {j \in DOMAIN jobs : /\ jobs[j].posted # Null
                                            /\ jobs[j].posted >= a /\ jobs[j].posted <= b}
    BY <1>0, <1>7, SelectedJobs
  <1>6. QED BY <1>3, <1>4, <1>5 DEF q1, q2, q3

LEMMA RemoteFilters ==
  ASSUME TablesInv
  PROVE  /\ Selected([Everything EXCEPT !.remote = "true"]) = RemoteRows(1)
         /\ Selected([Everything EXCEPT !.remote = "false"]) = RemoteRows(0)
         /\ Selected([Everything EXCEPT !.remote = "unknown"]) = RemoteRows(Null)
  <1>1. ASSUME NEW r \in {"true", "false", "unknown"}
        PROVE  Selected([Everything EXCEPT !.remote = r]) =
                 {j \in DOMAIN jobs : RemoteIs(jobs[j].remote, r) = TRUE}
    <2> DEFINE q == [Everything EXCEPT !.remote = r]
    <2>1. /\ q.table = "jobs" /\ q.q = Unset /\ q.company = Unset /\ q.remote = r
          /\ q.source = Unset /\ q.after = Unset /\ q.before = Unset
          /\ q.least = Unset /\ q.most = Unset
      BY DEF Everything
    <2>2. r # Unset
      BY NullsAssumption
    <2> HIDE DEF q
    <2>3. Selected(q) = {j \in DOMAIN jobs : RemoteIs(jobs[j].remote, r) = TRUE}
      BY <2>1, <2>2, SelectedJobs
    <2>4. QED BY <2>3 DEF q
  <1>2. \A j \in DOMAIN jobs :
          /\ RemoteIs(jobs[j].remote, "true") = TRUE <=> jobs[j].remote = 1
          /\ RemoteIs(jobs[j].remote, "false") = TRUE <=> jobs[j].remote = 0
          /\ RemoteIs(jobs[j].remote, "unknown") = TRUE <=> jobs[j].remote = Null
    BY Rows, RemoteTrue
  <1>3. QED BY <1>1, <1>2 DEF RemoteRows

-----------------------------------------------------------------------------
(* GET /stats                                                               *)

LEMMA SubsetsFinite ==
  ASSUME TablesInv, NEW S \in SUBSET DOMAIN jobs
  PROVE  IsFiniteSet(S) /\ Cardinality(S) \in Nat
  BY Rows, FS_Subset, FS_CardinalityType

\* SUM over no rows is NULL, and COALESCE makes it 0.
LEMMA SumIsCount ==
  ASSUME TablesInv, NEW S \in SUBSET DOMAIN jobs
  PROVE  OrZero(SumWhen(S)) = Cardinality(S)
  <1>1. Cardinality(S) # Null
    BY SubsetsFinite, NullsAssumption
  <1>2. CASE jobs = <<>>
    <2>1. S = {}
      BY <1>2
    <2>2. QED BY <1>2, <2>1, FS_EmptySet DEF OrZero, SumWhen
  <1>3. CASE jobs # <<>>
    BY <1>1, <1>3 DEF OrZero, SumWhen
  <1>4. QED BY <1>2, <1>3

Dated == {j \in DOMAIN jobs : jobs[j].posted # Null}

LEMMA TwoParts ==
  ASSUME TablesInv, NEW S \in SUBSET DOMAIN jobs, NEW T \in SUBSET DOMAIN jobs,
         S \cap T = {}
  PROVE  Cardinality(S \cup T) = Cardinality(S) + Cardinality(T)
  <1>1. /\ IsFiniteSet(S) /\ Cardinality(S) \in Nat
        /\ IsFiniteSet(T) /\ Cardinality(T) \in Nat
    BY SubsetsFinite
  <1>2. Cardinality(S \cup T) = Cardinality(S) + Cardinality(T) - Cardinality(S \cap T)
    BY <1>1, FS_Union
  <1>3. Cardinality(S \cap T) = 0
    BY FS_EmptySet
  <1>4. QED BY <1>1, <1>2, <1>3

LEMMA StatsFields ==
  ASSUME TablesInv
  PROVE  /\ Stats.total = Cardinality(DOMAIN jobs)
         /\ Stats.dated = Cardinality(Dated)
         /\ Stats.undated = Cardinality(DOMAIN jobs) - Cardinality(Dated)
         /\ Stats.yes = Cardinality(RemoteRows(1))
         /\ Stats.no = Cardinality(RemoteRows(0))
         /\ Stats.unknown = Cardinality(RemoteRows(Null))
         /\ Stats.remoteless =
              Cardinality(DOMAIN jobs) - Cardinality(RemoteRows(1) \cup RemoteRows(0))
         /\ Stats.sources = Cardinality({jobs[j].source : j \in DOMAIN jobs})
         /\ Stats.earliest = IF Known("posted") = {} THEN Null ELSE Min(Known("posted"))
         /\ Stats.latest = IF Known("posted") = {} THEN Null ELSE Max(Known("posted"))
  <1>1. Present("posted") = Cardinality(Dated)
    <2>1. Dated = {j \in DOMAIN jobs : jobs[j]["posted"] # Null}
      BY DEF Dated
    <2>2. QED BY <2>1, SumIsCount DEF Present, Dated
  <1>2. Present("remote") = Cardinality(RemoteRows(1) \cup RemoteRows(0))
    <2>1. RemoteRows(1) \cup RemoteRows(0) = {j \in DOMAIN jobs : jobs[j]["remote"] # Null}
      <3>1. Null # 0 /\ Null # 1
        BY NullsAssumption
      <3>2. \A j \in DOMAIN jobs : jobs[j].remote \in {0, 1, Null}
        BY Rows
      <3>3. QED BY <3>1, <3>2 DEF RemoteRows
    <2>2. QED BY <2>1, SumIsCount DEF Present
  <1>3. \A v : OrZero(SumWhen(RemoteRows(v))) = Cardinality(RemoteRows(v))
    BY SumIsCount DEF RemoteRows
  <1>4. QED BY <1>1, <1>2, <1>3 DEF Stats, Total, Remotes, OnSite

LEMMA RangesOnTables == TablesInv => RangesSplitDated
  <1> SUFFICES ASSUME TablesInv PROVE RangesSplitDated
    OBVIOUS
  <1>0. Dates \subseteq Nat
    BY RowsAssumption DEF Dates
  <1>1. ASSUME NEW d \in Dates
        PROVE  LET upto == Selected([Everything EXCEPT !.before = d])
                   after == Selected([Everything EXCEPT !.after = d + 1])
                   from == Selected([Everything EXCEPT !.after = d])
               IN /\ upto \cap after = {}
                  /\ Cardinality(upto) + Cardinality(after) + Stats.undated = Stats.total
                  /\ upto \cap from =
                       Selected([Everything EXCEPT !.after = d, !.before = d])
    <2> DEFINE upto == {j \in DOMAIN jobs : jobs[j].posted # Null /\ jobs[j].posted <= d}
               after == {j \in DOMAIN jobs : jobs[j].posted # Null /\ jobs[j].posted >= d + 1}
               from == {j \in DOMAIN jobs : jobs[j].posted # Null /\ jobs[j].posted >= d}
    <2>1. d \in Nat /\ d + 1 \in Nat /\ d # Unset /\ d + 1 # Unset
      BY <1>0, NullsAssumption
    <2>2. /\ Selected([Everything EXCEPT !.before = d]) = upto
          /\ Selected([Everything EXCEPT !.after = d + 1]) = after
          /\ Selected([Everything EXCEPT !.after = d]) = from
      <3>1. Selected([Everything EXCEPT !.before = d]) = upto
        BY <2>1, RangeFilters
      <3>2. Selected([Everything EXCEPT !.after = d + 1]) = after
        BY <2>1, RangeFilters
      <3>3. Selected([Everything EXCEPT !.after = d]) = from
        BY <2>1, RangeFilters
      <3>4. QED BY <3>1, <3>2, <3>3
    <2>3. Selected([Everything EXCEPT !.after = d, !.before = d]) = upto \cap from
      <3>1. Selected([Everything EXCEPT !.after = d, !.before = d]) =
              {j \in DOMAIN jobs : /\ jobs[j].posted # Null
                                   /\ jobs[j].posted >= d /\ jobs[j].posted <= d}
        BY <2>1, RangeFilters
      <3>2. QED BY <3>1
    <2>4. \A j \in DOMAIN jobs : jobs[j].posted \in Nat \cup {Null}
      BY Rows
    <2>5. upto \cap after = {} /\ upto \cup after = Dated
      BY <2>1, <2>4 DEF Dated
    <2>6. Cardinality(upto) + Cardinality(after) = Cardinality(Dated)
      BY <2>5, TwoParts
    <2>7. Cardinality(Dated) \in Nat /\ Cardinality(DOMAIN jobs) \in Nat
      BY SubsetsFinite DEF Dated
    <2> HIDE DEF upto, after, from
    <2>8. Cardinality(upto) + Cardinality(after) + Stats.undated = Stats.total
      BY <2>6, <2>7, StatsFields
    <2>9. QED BY <2>2, <2>3, <2>5, <2>8
  <1>2. ASSUME NEW q \in DateRanges, Refused(q) PROVE Selected(q) = {}
    <2>1. /\ q.table = "jobs" /\ q.q = Unset /\ q.company = Unset
          /\ q.after \in Dates \cup {Unset} /\ q.before \in Dates \cup {Unset}
          /\ q.least = Unset /\ q.most = Unset
      <3>1. PICK s \in Sources \cup {Unset}, a \in Dates \cup {Unset},
                 b \in Dates \cup {Unset} :
              q = Between(s, a, b)
        BY DEF DateRanges
      <3>2. QED BY <3>1 DEF Between, Everything
    <2>2. q.after # Unset /\ q.before # Unset /\ q.after > q.before
      BY <1>2, <2>1 DEF Refused
    <2>3. q.after \in Nat /\ q.before \in Nat
      BY <1>0, <2>1, <2>2
    <2>4. Selected(q) \subseteq {j \in DOMAIN jobs : /\ jobs[j].posted # Null
                                                     /\ jobs[j].posted >= q.after
                                                     /\ jobs[j].posted <= q.before}
      BY <2>1, <2>2, <2>3, SelectedJobs
    <2>5. \A j \in DOMAIN jobs : jobs[j].posted \in Nat \cup {Null}
      BY Rows
    <2>6. QED BY <2>2, <2>3, <2>4, <2>5
  <1>3. ASSUME NEW q \in PayRanges, Refused(q), NEW j \in Selected(q)
        PROVE  /\ Null \notin {jobs[j].low, jobs[j].high}
               /\ jobs[j].low > jobs[j].high
    <2>1. /\ q.table = "jobs" /\ q.q = Unset /\ q.company = Unset
          /\ q.least \in Pays \cup {Unset} /\ q.most \in Pays \cup {Unset}
          /\ q.after = Unset /\ q.before = Unset
      <3>1. PICK a \in Pays \cup {Unset}, b \in Pays \cup {Unset} : q = Paying(a, b)
        BY DEF PayRanges
      <3>2. QED BY <3>1 DEF Paying, Everything
    <2>2. q.least # Unset /\ q.most # Unset /\ q.least > q.most
      BY <1>3, <2>1 DEF Refused
    <2>3. q.least \in Nat /\ q.most \in Nat
      <3>1. Pays \subseteq Nat
        BY RowsAssumption DEF Pays
      <3>2. QED BY <2>1, <2>2, <3>1
    <2>4. j \in {i \in DOMAIN jobs : /\ jobs[i].low # Null /\ jobs[i].low >= q.least
                                    /\ jobs[i].high # Null /\ jobs[i].high <= q.most}
      BY <1>3, <2>1, <2>2, <2>3, SelectedJobs
    <2>5. jobs[j].low \in Nat \cup {Null} /\ jobs[j].high \in Nat \cup {Null}
      BY <2>4, Rows
    <2>6. QED BY <2>2, <2>3, <2>4, <2>5
  <1>4. QED BY <1>1, <1>2, <1>3 DEF RangesSplitDated

-----------------------------------------------------------------------------
(* GET /sources                                                             *)

SourcesWithJobs == {jobs[j].source : j \in DOMAIN jobs}

JobsOf(s) == {j \in DOMAIN jobs : jobs[j].source = s}

\* The entry of a source, without the join.
Entry(s) == [source |-> s, run |-> latest[s], job_count |-> Cardinality(JobsOf(s))]

\* MAX(id) finds the run that was started last.
LEMMA OnIsLatest ==
  ASSUME TablesInv, NEW j \in DOMAIN jobs, NEW r \in DOMAIN runs
  PROVE  On(j, r) <=> r = latest[jobs[j].source]
  <1> DEFINE s == jobs[j].source
             mine == {t \in DOMAIN runs : runs[t].source = s}
  <1>1. s \in Sources
    BY Rows
  <1>2. DOMAIN runs \subseteq Nat /\ r \in Nat
    BY DEF TablesInv
  <1>3. On(j, r) <=> mine # {} /\ r = Max(mine)
    BY DEF On
  <1>4. IF mine = {} THEN latest[s] = Null
        ELSE latest[s] \in mine /\ \A t \in mine : t <= latest[s]
    BY <1>1 DEF TablesInv
  <1>5. mine \subseteq Nat
    BY <1>2
  <1> HIDE DEF mine
  <1>6. CASE mine = {}
    BY <1>2, <1>3, <1>4, <1>6, NullsAssumption
  <1>7. CASE mine # {}
    <2>1. Max(mine) \in mine /\ \A t \in mine : Max(mine) >= t
      BY <1>4, <1>5, <1>7 DEF Max
    <2>2. Max(mine) = latest[s]
      <3>1. latest[s] \in Nat /\ Max(mine) \in Nat
        BY <1>4, <1>5, <1>7, <2>1
      <3>2. Max(mine) >= latest[s]
        BY <1>4, <1>7, <2>1
      <3>3. Max(mine) <= latest[s]
        BY <1>4, <1>7, <2>1
      <3>4. QED BY <3>1, <3>2, <3>3
    <2>3. QED BY <1>3, <1>7, <2>2
  <1>8. QED BY <1>6, <1>7

\* The left join gives every job one row.
LEMMA JoinedIs ==
  ASSUME TablesInv
  PROVE  \A p : p \in Joined <=>
                  \E j \in DOMAIN jobs : p = <<j, latest[jobs[j].source]>>
  <1>1. ASSUME NEW j \in DOMAIN jobs
        PROVE  \/ latest[jobs[j].source] \in DOMAIN runs
               \/ /\ latest[jobs[j].source] = Null
                  /\ \A r \in DOMAIN runs : ~On(j, r)
    <2>1. jobs[j].source \in Sources
      BY Rows
    <2>2. DOMAIN runs \subseteq Nat
      BY DEF TablesInv
    <2>3. \/ latest[jobs[j].source] \in DOMAIN runs
          \/ latest[jobs[j].source] = Null
      BY <2>1 DEF TablesInv
    <2>4. QED BY <2>2, <2>3, OnIsLatest, NullsAssumption
  <1>2. ASSUME NEW p \in Joined
        PROVE  \E j \in DOMAIN jobs : p = <<j, latest[jobs[j].source]>>
    <2>1. CASE p \in (DOMAIN jobs) \X (DOMAIN runs) /\ On(p[1], p[2])
      BY <2>1, OnIsLatest
    <2>2. CASE p \in {<<j, Null>> :
                       j \in {j \in DOMAIN jobs : \A r \in DOMAIN runs : ~On(j, r)}}
      <3>1. PICK j \in DOMAIN jobs : p = <<j, Null>> /\ \A r \in DOMAIN runs : ~On(j, r)
        BY <2>2
      <3>2. latest[jobs[j].source] = Null
        BY <1>1, <3>1, OnIsLatest
      <3>3. QED BY <3>1, <3>2
    <2>3. QED BY <1>2, <2>1, <2>2 DEF Joined
  <1>3. ASSUME NEW j \in DOMAIN jobs
        PROVE  <<j, latest[jobs[j].source]>> \in Joined
    <2>1. CASE latest[jobs[j].source] \in DOMAIN runs
      BY <2>1, OnIsLatest DEF Joined
    <2>2. CASE latest[jobs[j].source] = Null /\ \A r \in DOMAIN runs : ~On(j, r)
      BY <2>2 DEF Joined
    <2>3. QED BY <1>1, <2>1, <2>2
  <1>4. QED BY <1>2, <1>3

\* The group of a source has as many rows as the source has jobs.
LEMMA GroupSize ==
  ASSUME TablesInv, NEW s \in SourcesWithJobs
  PROVE  Cardinality({p \in Joined : <<jobs[p[1]].source, p[2]>> = <<s, latest[s]>>}) =
           Cardinality(JobsOf(s))
  <1> DEFINE G == {p \in Joined : <<jobs[p[1]].source, p[2]>> = <<s, latest[s]>>}
             f == [j \in JobsOf(s) |-> <<j, latest[s]>>]
  <1>1. \A p : p \in G <=> \E j \in JobsOf(s) : p = <<j, latest[s]>>
    <2>1. ASSUME NEW p \in G PROVE \E j \in JobsOf(s) : p = <<j, latest[s]>>
      <3>1. PICK j \in DOMAIN jobs : p = <<j, latest[jobs[j].source]>>
        BY JoinedIs
      <3>2. jobs[j].source = s
        BY <3>1
      <3>3. QED BY <3>1, <3>2 DEF JobsOf
    <2>2. ASSUME NEW j \in JobsOf(s) PROVE <<j, latest[s]>> \in G
      <3>1. j \in DOMAIN jobs /\ jobs[j].source = s
        BY DEF JobsOf
      <3>2. <<j, latest[s]>> \in Joined
        BY <3>1, JoinedIs
      <3>3. QED BY <3>1, <3>2
    <2>3. QED BY <2>1, <2>2
  <1> HIDE DEF G
  <1>2. f \in [JobsOf(s) -> G]
    BY <1>1
  <1>3. \A i, j \in JobsOf(s) : f[i] = f[j] => i = j
    OBVIOUS
  <1>4. \A p \in G : \E j \in JobsOf(s) : f[j] = p
    BY <1>1
  <1> HIDE DEF f
  <1>5. ExistsBijection(JobsOf(s), G)
    <2>1. f \in Bijection(JobsOf(s), G)
      BY <1>2, <1>3, <1>4, Fun_IsBij
    <2>2. QED BY <2>1 DEF ExistsBijection
  <1>6. IsFiniteSet(JobsOf(s))
    BY SubsetsFinite DEF JobsOf
  <1>7. Cardinality(G) = Cardinality(JobsOf(s))
    BY <1>5, <1>6, FS_Bijection
  <1>8. QED BY <1>7 DEF G

LEMMA SourceListIs ==
  ASSUME TablesInv
  PROVE  SourceList = {Entry(s) : s \in SourcesWithJobs}
  <1> DEFINE group(p) == <<jobs[p[1]].source, p[2]>>
             groups == {group(p) : p \in Joined}
             size(g) == Cardinality({p \in Joined : group(p) = g})
             row(g) == [source |-> g[1], run |-> g[2], job_count |-> size(g)]
  <1>1. SourceList = {row(g) : g \in groups}
    BY DEF SourceList
  <1>2. groups = {<<s, latest[s]>> : s \in SourcesWithJobs}
    <2>1. ASSUME NEW p \in Joined PROVE \E s \in SourcesWithJobs : group(p) = <<s, latest[s]>>
      <3>1. PICK j \in DOMAIN jobs : p = <<j, latest[jobs[j].source]>>
        BY JoinedIs
      <3>2. QED BY <3>1 DEF SourcesWithJobs
    <2>2. ASSUME NEW s \in SourcesWithJobs
          PROVE  \E p \in Joined : group(p) = <<s, latest[s]>>
      <3>1. PICK j \in DOMAIN jobs : s = jobs[j].source
        BY DEF SourcesWithJobs
      <3>2. <<j, latest[jobs[j].source]>> \in Joined
        BY JoinedIs
      <3>3. QED BY <3>1, <3>2
    <2> HIDE DEF group
    <2>3. QED BY <2>1, <2>2
  <1>3. ASSUME NEW s \in SourcesWithJobs PROVE row(<<s, latest[s]>>) = Entry(s)
    BY GroupSize DEF Entry
  <1> HIDE DEF row, groups, size, group
  <1>4. QED BY <1>1, <1>2, <1>3

LEMMA SourcesOnTables == TablesInv => SourcesOncePerSource
  <1> SUFFICES ASSUME TablesInv PROVE SourcesOncePerSource
    OBVIOUS
  <1>1. \A e \in SourceList : e = Entry(e.source) /\ e.source \in SourcesWithJobs
    BY SourceListIs DEF Entry
  <1>2. \A a, b \in SourceList : a.source = b.source => a = b
    BY <1>1
  <1>3. \A e \in SourceList : e.run = latest[e.source]
    BY <1>1 DEF Entry
  <1>4. ASSUME NEW s \in Sources
        PROVE  LET n == Count([Everything EXCEPT !.source = s])
               IN IF n = 0 THEN \A e \in SourceList : e.source # s
                  ELSE \E e \in SourceList : e.source = s /\ e.job_count = n
    <2>1. Count([Everything EXCEPT !.source = s]) = Cardinality(JobsOf(s))
      BY SourceFilter DEF Count, JobsOf
    <2>2. Cardinality(JobsOf(s)) = 0 <=> JobsOf(s) = {}
      BY SubsetsFinite, FS_EmptySet DEF JobsOf
    <2>3. s \in SourcesWithJobs <=> JobsOf(s) # {}
      BY DEF SourcesWithJobs, JobsOf
    <2>4. CASE JobsOf(s) = {}
      BY <1>1, <2>1, <2>2, <2>3, <2>4
    <2>5. CASE JobsOf(s) # {}
      <3>1. Entry(s) \in SourceList
        BY <2>3, <2>5, SourceListIs
      <3>2. Entry(s).source = s /\ Entry(s).job_count = Cardinality(JobsOf(s))
        BY DEF Entry
      <3>3. QED BY <2>1, <2>2, <2>5, <3>1, <3>2
    <2>6. QED BY <2>4, <2>5
  <1>5. QED BY <1>2, <1>3, <1>4 DEF SourcesOncePerSource

LEMMA StatsOnTables == TablesInv => StatsAgree
  <1> SUFFICES ASSUME TablesInv PROVE StatsAgree
    OBVIOUS
  <1>1. /\ Stats.yes = Count([Everything EXCEPT !.remote = "true"])
        /\ Stats.no = Count([Everything EXCEPT !.remote = "false"])
        /\ Stats.unknown = Count([Everything EXCEPT !.remote = "unknown"])
    BY StatsFields, RemoteFilters DEF Count
  <1>2. /\ Stats.unknown = Stats.remoteless
        /\ Stats.yes + Stats.no + Stats.unknown = Stats.total
    <2> DEFINE yes == RemoteRows(1)
               no == RemoteRows(0)
               unknown == RemoteRows(Null)
    <2>1. /\ yes \in SUBSET DOMAIN jobs /\ no \in SUBSET DOMAIN jobs
          /\ unknown \in SUBSET DOMAIN jobs
      BY DEF RemoteRows
    <2>2. /\ yes \cap no = {} /\ (yes \cup no) \cap unknown = {}
          /\ (yes \cup no) \cup unknown = DOMAIN jobs
      <3>1. Null # 0 /\ Null # 1
        BY NullsAssumption
      <3>2. \A j \in DOMAIN jobs : jobs[j].remote \in {0, 1, Null}
        BY Rows
      <3>3. yes \cap no = {}
        BY DEF RemoteRows
      <3>4. (yes \cup no) \cap unknown = {}
        BY <3>1 DEF RemoteRows
      <3>5. \A j \in DOMAIN jobs : j \in (yes \cup no) \cup unknown
        BY <3>2 DEF RemoteRows
      <3>6. (yes \cup no) \cup unknown \subseteq DOMAIN jobs
        BY <2>1
      <3> HIDE DEF yes, no, unknown
      <3>7. QED BY <3>3, <3>4, <3>5, <3>6
    <2> HIDE DEF yes, no, unknown
    <2>3. Cardinality(yes \cup no) = Cardinality(yes) + Cardinality(no)
      BY <2>1, <2>2, TwoParts
    <2>4. Cardinality(DOMAIN jobs) = Cardinality(yes \cup no) + Cardinality(unknown)
      BY <2>1, <2>2, TwoParts
    <2>5. /\ Cardinality(yes) \in Nat /\ Cardinality(no) \in Nat
          /\ Cardinality(unknown) \in Nat
      BY <2>1, SubsetsFinite
    <2>6. QED BY <2>3, <2>4, <2>5, StatsFields DEF yes, no, unknown
  <1>3. Stats.sources = Cardinality(SourceList)
    <2> DEFINE f == [s \in SourcesWithJobs |-> Entry(s)]
               g == [j \in DOMAIN jobs |-> jobs[j].source]
    <2>1. f \in [SourcesWithJobs -> SourceList]
      BY SourceListIs
    <2>2. \A s, t \in SourcesWithJobs : f[s] = f[t] => s = t
      BY DEF Entry
    <2>3. \A e \in SourceList : \E s \in SourcesWithJobs : f[s] = e
      BY SourceListIs
    <2>4. g \in Surjection(DOMAIN jobs, SourcesWithJobs)
      BY DEF Surjection, SourcesWithJobs
    <2>5. IsFiniteSet(SourcesWithJobs)
      BY <2>4, Rows, FS_Surjection
    <2> HIDE DEF f
    <2>6. f \in Bijection(SourcesWithJobs, SourceList)
      BY <2>1, <2>2, <2>3, Fun_IsBij
    <2>7. Cardinality(SourceList) = Cardinality(SourcesWithJobs)
      BY <2>5, <2>6, FS_Bijection DEF ExistsBijection
    <2>8. QED BY <2>7, StatsFields DEF SourcesWithJobs
  <1>4. IF Stats.earliest = Null THEN Stats.dated = 0
        ELSE Count([Everything EXCEPT !.after = Stats.earliest, !.before = Stats.latest])
               = Stats.dated
    <2> DEFINE K == {jobs[j].posted : j \in DOMAIN jobs} \ {Null}
    <2>1. Known("posted") = K
      BY DEF Known
    <2>2. K \subseteq Nat /\ (K = {} <=> Dated = {})
      BY Rows DEF Dated
    <2>3. IsFiniteSet(K)
      <3> DEFINE g == [j \in DOMAIN jobs |-> jobs[j].posted]
                 all == {jobs[j].posted : j \in DOMAIN jobs}
      <3>1. g \in Surjection(DOMAIN jobs, all)
        BY DEF Surjection
      <3>2. IsFiniteSet(all)
        BY <3>1, Rows, FS_Surjection
      <3>3. QED BY <3>2, FS_Subset
    <2>4. CASE K = {}
      BY <2>1, <2>2, <2>4, StatsFields, FS_EmptySet
    <2>5. CASE K # {}
      <3>1. K \in SUBSET Int
        BY <2>2
      <3> HIDE DEF K
      <3>2. /\ Max(K) \in K /\ \A x \in K : x <= Max(K)
            /\ Min(K) \in K /\ \A x \in K : Min(K) <= x
        BY <2>3, <2>5, <3>1, FiniteExtremes
      <3>3. Stats.earliest = Min(K) /\ Stats.latest = Max(K)
        BY <2>1, <2>5, StatsFields
      <3>4. Min(K) \in Nat /\ Max(K) \in Nat /\ Min(K) # Null
        BY <2>2, <3>2, NullsAssumption
      <3> DEFINE lo == Min(K)
                 hi == Max(K)
      <3> HIDE DEF lo, hi
      <3>5. Selected([Everything EXCEPT !.after = lo, !.before = hi]) =
              {j \in DOMAIN jobs : /\ jobs[j].posted # Null
                                   /\ jobs[j].posted >= lo /\ jobs[j].posted <= hi}
        BY <3>4, RangeFilters DEF lo, hi
      <3>6. \A j \in DOMAIN jobs : jobs[j].posted # Null =>
                jobs[j].posted \in Nat /\ jobs[j].posted >= lo /\ jobs[j].posted <= hi
        BY <2>2, <3>2, <3>4, Rows DEF K, lo, hi
      <3>7. Selected([Everything EXCEPT !.after = lo, !.before = hi]) = Dated
        BY <3>5, <3>6 DEF Dated
      <3>8. QED BY <3>3, <3>4, <3>7, StatsFields DEF Count, lo, hi
    <2>6. QED BY <2>4, <2>5
  <1>5. QED BY <1>1, <1>2, <1>3, <1>4 DEF StatsAgree

-----------------------------------------------------------------------------
(* The order of a list                                                      *)

LEMMA ListShape ==
  ASSUME TablesInv, NEW q \in Queries
  PROVE  /\ Selected(q) \in SUBSET Nat /\ IsFiniteSet(Selected(q))
         /\ Count(q) \in Nat
         /\ \A i \in Selected(q) : Key(q, i) \in Nat \cup {Null}
  <1>1. CASE q.table = "runs"
    <2>1. Selected(q) = DOMAIN runs
      BY <1>1 DEF Selected
    <2>2. Len(runs) \in Nat /\ DOMAIN runs = 1..Len(runs)
      BY DEF TablesInv
    <2>3. \A i \in DOMAIN runs : i \in Nat /\ runs[i].started \in Nat
      <3>1. ASSUME NEW i \in DOMAIN runs PROVE runs[i] \in RunRows
        BY DEF TablesInv
      <3>2. QED BY <2>2, <3>1 DEF RunRows
    <2>4. \A i \in Selected(q) : Key(q, i) \in Nat \cup {Null}
      BY <1>1, <2>1, <2>3 DEF Key
    <2>5. IsFiniteSet(Selected(q))
      BY <2>1, <2>2, FS_Interval
    <2>6. QED BY <2>1, <2>3, <2>4, <2>5, FS_CardinalityType DEF Count
  <1>2. CASE q.table = "jobs"
    <2>1. Selected(q) \subseteq DOMAIN jobs
      BY <1>2 DEF Selected
    <2>2. q.sort \in {"id", "posted", "low", "high"}
      BY <1>2, QueriesAssumption
    <2>3. \A i \in DOMAIN jobs :
            /\ jobs[i]["posted"] \in Nat \cup {Null} /\ jobs[i]["low"] \in Nat \cup {Null}
            /\ jobs[i]["high"] \in Nat \cup {Null} /\ i \in Nat
      BY Rows
    <2>4. \A i \in Selected(q) : Key(q, i) \in Nat \cup {Null}
      <3>1. CASE q.sort = "id"
        <4>1. \A i : Key(q, i) = i
          BY <3>1 DEF Key
        <4>2. QED BY <2>1, <2>3, <4>1
      <3>2. CASE q.sort = "posted"
        BY <1>2, <2>1, <2>3, <3>2 DEF Key
      <3>3. CASE q.sort = "low"
        BY <1>2, <2>1, <2>3, <3>3 DEF Key
      <3>4. CASE q.sort = "high"
        BY <1>2, <2>1, <2>3, <3>4 DEF Key
      <3>5. QED BY <2>2, <3>1, <3>2, <3>3, <3>4
    <2>5. QED BY <2>1, <2>3, <2>4, SubsetsFinite DEF Count
  <1>3. QED BY <1>1, <1>2, QueriesAssumption

\* The column and then the id order the rows, whichever of them tie.
LEMMA BeforeIsOrder ==
  ASSUME TablesInv, NEW q \in Queries
  PROVE  /\ \A i \in Selected(q) : ~Before(q, i, i)
         /\ \A i, j \in Selected(q) : i = j \/ Before(q, i, j) \/ Before(q, j, i)
         /\ \A i, j, k \in Selected(q) : Before(q, i, j) /\ Before(q, j, k) => Before(q, i, k)
  <1> DEFINE less(i, j) == \/ Smaller(Key(q, i), Key(q, j))
                           \/ Key(q, i) = Key(q, j) /\ i < j
  <1>1. /\ \A i \in Selected(q) : i \in Nat /\ Key(q, i) \in Nat \cup {Null}
        /\ Null \notin Nat
    BY ListShape, NullsAssumption
  <1>2. /\ \A i \in Selected(q) : ~less(i, i)
        /\ \A i, j \in Selected(q) : i = j \/ less(i, j) \/ less(j, i)
        /\ \A i, j, k \in Selected(q) : less(i, j) /\ less(j, k) => less(i, k)
    BY <1>1 DEF Smaller
  <1>3. \A i, j : Before(q, i, j) <=> IF q.order = "asc" THEN less(i, j) ELSE less(j, i)
    BY DEF Before
  <1> HIDE DEF less
  <1>4. QED BY <1>2, <1>3

\* How many rows come before row i.
Earlier(q, i) == {j \in Selected(q) : Before(q, j, i)}
Rank(q, i) == Cardinality(Earlier(q, i))

LEMMA RankIsNat ==
  ASSUME TablesInv, NEW q \in Queries, NEW i
  PROVE  IsFiniteSet(Earlier(q, i)) /\ Rank(q, i) \in Nat
  <1>1. IsFiniteSet(Earlier(q, i))
    BY ListShape, FS_Subset DEF Earlier
  <1>2. QED BY <1>1, FS_CardinalityType DEF Rank

\* An ordering has every row, at its rank: there is only one.
LEMMA OrderingRanks ==
  ASSUME TablesInv, NEW q \in Queries, NEW s \in Orderings(q)
  PROVE  /\ s \in [1..Count(q) -> Selected(q)]
         /\ \A x \in 1..Count(q) : Rank(q, s[x]) = x - 1
         /\ \A i \in Selected(q) : \E x \in 1..Count(q) : s[x] = i
  <1> DEFINE n == Count(q)
  <1>1. /\ s \in [1..n -> Selected(q)] /\ n \in Nat
        /\ \A x, y \in 1..n : x # y => s[x] # s[y]
        /\ \A x, y \in 1..n : Before(q, s[x], s[y]) => x < y
    BY ListShape DEF Orderings, SetToSeqs, Count
  <1>2. \A i \in Selected(q) : \E x \in 1..n : s[x] = i
    <2>1. s \in Injection(1..n, Selected(q))
      BY <1>1, Fun_IsInj
    <2>2. Cardinality(1..n) = n
      BY <1>1, FS_Interval
    <2>3. s \in Surjection(1..n, Selected(q))
      BY <2>1, <2>2, ListShape, FS_Injection DEF Count
    <2>4. QED BY <2>3 DEF Surjection
  <1> HIDE DEF n
  <1>3. ASSUME NEW x \in 1..n PROVE Rank(q, s[x]) = x - 1
    <2> DEFINE f == [y \in 1..x - 1 |-> s[y]]
               E == Earlier(q, s[x])
    <2>1. x \in Nat /\ x - 1 \in Nat /\ 1..x - 1 \subseteq 1..n
      BY <1>1
    <2>2. \A y \in 1..n : Before(q, s[y], s[x]) <=> y \in 1..x - 1
      <3>1. ASSUME NEW y \in 1..n, Before(q, s[y], s[x]) PROVE y \in 1..x - 1
        BY <1>1, <3>1
      <3>2. ASSUME NEW y \in 1..x - 1 PROVE Before(q, s[y], s[x])
        <4>1. y \in 1..n /\ y < x /\ x \in 1..n
          BY <2>1
        <4>2. s[y] \in Selected(q) /\ s[x] \in Selected(q) /\ s[y] # s[x]
          BY <1>1, <4>1
        <4>3. ~Before(q, s[x], s[y])
          BY <1>1, <4>1
        <4>4. QED BY <4>2, <4>3, BeforeIsOrder
      <3>3. QED BY <3>1, <3>2
    <2>3. f \in [1..x - 1 -> E]
      BY <1>1, <2>1, <2>2 DEF Earlier
    <2>4. \A y, z \in 1..x - 1 : f[y] = f[z] => y = z
      BY <1>1, <2>1
    <2>5. \A i \in E : \E y \in 1..x - 1 : f[y] = i
      BY <1>2, <2>1, <2>2 DEF Earlier
    <2> HIDE DEF f, E
    <2>6. f \in Bijection(1..x - 1, E)
      BY <2>3, <2>4, <2>5, Fun_IsBij
    <2>7. IsFiniteSet(1..x - 1) /\ Cardinality(1..x - 1) = x - 1
      BY <2>1, FS_Interval
    <2>8. Cardinality(E) = x - 1
      BY <2>6, <2>7, FS_Bijection DEF ExistsBijection
    <2>9. QED BY <2>8 DEF Rank, E
  <1>4. QED BY <1>1, <1>2, <1>3 DEF n

LEMMA MinOfTwo ==
  ASSUME NEW a \in Nat, NEW b \in Nat
  PROVE  Min({a, b}) = IF a <= b THEN a ELSE b
  <1>1. IF a <= b THEN \A y \in {a, b} : a =< y ELSE \A y \in {a, b} : b =< y
    OBVIOUS
  <1>2. Min({a, b}) \in {a, b} /\ \A y \in {a, b} : Min({a, b}) =< y
    BY <1>1 DEF Min
  <1>3. QED BY <1>2

\* A page at offset o has the rows of the ranks o, o + 1, ... and the number of all.
LEMMA PageHasRanks ==
  ASSUME TablesInv, NEW q \in Queries, NEW o \in Nat, NEW a \in Responses(q, o)
  PROVE  /\ a.total = Count(q)
         /\ a.items \in Seq(Selected(q))
         /\ \A x \in 1..Len(a.items) : Rank(q, a.items[x]) = o + x - 1
         /\ Len(a.items) = IF Count(q) <= o THEN 0
                           ELSE IF Count(q) <= o + q.limit THEN Count(q) - o
                           ELSE q.limit
         /\ \A i \in Selected(q) :
              /\ Rank(q, i) < Count(q)
              /\ o <= Rank(q, i) /\ Rank(q, i) < o + q.limit =>
                   \E x \in 1..Len(a.items) : a.items[x] = i
  <1> DEFINE n == Count(q)
             l == q.limit
  <1>1. n \in Nat /\ l \in Nat \ {0}
    BY ListShape, QueriesAssumption
  <1>2. PICK s \in Orderings(q) : a = [items |-> Window(s, o, l), total |-> n]
    BY DEF Responses
  <1>3. /\ s \in [1..n -> Selected(q)]
        /\ \A x \in 1..n : Rank(q, s[x]) = x - 1
        /\ \A i \in Selected(q) : \E x \in 1..n : s[x] = i
    BY OrderingRanks
  <1> HIDE DEF n, l
  <1>4. s \in Seq(Selected(q)) /\ Len(s) = n
    BY <1>1, <1>3
  <1> DEFINE w == Window(s, o, l)
             m == IF n <= o THEN 0 ELSE IF n <= o + l THEN n - o ELSE l
  <1>5. w = SubSeq(s, o + 1, IF o + l <= n THEN o + l ELSE n)
    <2>1. o + l \in Nat
      BY <1>1
    <2>2. QED BY <1>1, <1>4, <2>1, MinOfTwo DEF Window
  <1>6. w \in Seq(Selected(q)) /\ Len(w) = m /\ \A x \in 1..m : w[x] = s[o + x]
    <2> DEFINE top == IF o + l <= n THEN o + l ELSE n
    <2>1. top \in 0..n /\ o + 1 \in 1..n + o + 1
      BY <1>1
    <2>2. w = SubSeq(s, o + 1, top)
      BY <1>5
    <2>3. m = IF o + 1 <= top THEN top - o ELSE 0
      BY <1>1
    <2> HIDE DEF top, w, m
    <2>4. CASE o + 1 <= top
      BY <1>4, <2>1, <2>2, <2>3, <2>4
    <2>5. CASE ~(o + 1 <= top)
      BY <1>4, <2>1, <2>2, <2>3, <2>5
    <2>6. QED BY <2>4, <2>5
  <1>7. m \in Nat /\ \A x \in 1..m : o + x \in 1..n
    BY <1>1
  <1>8. \A x \in 1..m : Rank(q, w[x]) = o + x - 1
    BY <1>3, <1>6, <1>7
  <1>9. ASSUME NEW i \in Selected(q)
        PROVE  /\ Rank(q, i) < n
               /\ o <= Rank(q, i) /\ Rank(q, i) < o + l => \E x \in 1..m : w[x] = i
    <2>1. PICK y \in 1..n : s[y] = i /\ Rank(q, i) = y - 1
      BY <1>3
    <2>2. y - 1 < n
      BY <1>1
    <2>3. ASSUME o <= y - 1, y - 1 < o + l PROVE \E x \in 1..m : w[x] = i
      <3>1. y - o \in 1..m /\ o + (y - o) = y
        BY <1>1, <2>3
      <3>2. QED BY <1>6, <2>1, <3>1
    <2>4. QED BY <2>1, <2>2, <2>3
  <1> HIDE DEF m, w
  <1>10. a.items = w /\ a.total = n
    BY <1>2 DEF w
  <1>11. QED BY <1>6, <1>8, <1>9, <1>10 DEF n, l, m

-----------------------------------------------------------------------------
(* A client walks a list                                                    *)

\* The list is sorted by ascending id: rows that are added come last.
Appends == query.table = "jobs" /\ query.sort = "id" /\ query.order = "asc"

\* A client that has asked for nothing has nothing.
Begun == query # None /\ answer = None => offset = 0 /\ got = <<>>

\* The client has the rows of the ranks up to its offset, or to the end, each at its
\* place.
Exact ==
  query # None /\ (world = "still" \/ (Appends /\ world # "changed")) =>
    /\ \A x \in DOMAIN got : got[x] \in Selected(query) /\ Rank(query, got[x]) = x - 1
    /\ Len(got) = IF Done THEN answer.total ELSE offset
    /\ answer # None => answer.total <= Count(query)

\* The rows of the first list are still selected, and of those the client has the
\* ones before its offset, or all.
Kept ==
  query # None /\ world # "changed" =>
    /\ first \subseteq Selected(query)
    /\ \A i \in first : Rank(query, i) < offset => i \in ToSet(got)
    /\ Done => first \subseteq ToSet(got)
    /\ world = "still" => first = Selected(query)

WalkInv ==
  /\ query \in Queries \cup {None} /\ offset \in Nat /\ got \in Seq(Nat)
  /\ world \in {"still", "grown", "changed"}
  /\ answer = None \/ answer.total \in Nat
  /\ Begun /\ Exact /\ Kept

FiniteLists == \A q \in Queries : IsFiniteSet(Selected(q)) /\ Count(q) \in Nat

\* The scraper adds rows: those there are stay selected and stay in order.
LEMMA GrowthKeepsOrder ==
  ASSUME TablesInv, NEW q \in Queries, AddJob \/ StartRun
  PROVE  /\ Selected(q) \subseteq Selected(q)'
         /\ \A i, j \in Selected(q) : Before(q, i, j)' <=> Before(q, i, j)
         /\ (q.table = "jobs" /\ q.sort = "id" /\ q.order = "asc") =>
              \A i \in Selected(q), j \in Selected(q)' \ Selected(q) : ~Before(q, j, i)'
  <1>1. q.table \in {"jobs", "runs"}
    BY QueriesAssumption
  <1>2. CASE AddJob
    <2>1. PICK row \in JobRows, new \in {NewId} :
            jobs' = [j \in DOMAIN jobs \cup {new} |-> IF j = new THEN row ELSE jobs[j]]
      BY <1>2 DEF AddJob
    <2>2. /\ new \in Nat /\ DOMAIN jobs \subseteq Nat /\ runs' = runs
          /\ \A j \in DOMAIN jobs : j < new
      BY <1>2, NewIdIsNew, Rows DEF AddJob
    <2>3. /\ DOMAIN jobs' = DOMAIN jobs \cup {new}
          /\ \A j \in DOMAIN jobs : jobs'[j] = jobs[j]
      BY <2>1, <2>2
    <2>4. CASE q.table = "jobs"
      <3>1. /\ Selected(q) \subseteq DOMAIN jobs
            /\ Selected(q)' \subseteq Selected(q) \cup {new}
            /\ Selected(q) \subseteq Selected(q)'
        BY <2>3, <2>4 DEF Selected
      <3>2. \A i \in Selected(q) : Key(q, i)' = Key(q, i)
        BY <2>3, <2>4, <3>1 DEF Key
      <3>3. \A i, j \in Selected(q) : Before(q, i, j)' <=> Before(q, i, j)
        BY <3>2 DEF Before
      <3>4. ASSUME q.sort = "id", q.order = "asc"
            PROVE  \A i \in Selected(q), j \in Selected(q)' \ Selected(q) : ~Before(q, j, i)'
        <4>1. \A i : Key(q, i)' = i
          BY <3>4 DEF Key
        <4>2. \A i \in Selected(q) : i \in Nat /\ i < new /\ i # Null
          BY <2>2, <3>1, NullsAssumption
        <4>3. \A i \in Selected(q) : ~Before(q, new, i)'
          BY <2>2, <3>4, <4>1, <4>2, NullsAssumption DEF Before, Smaller
        <4>4. QED BY <3>1, <4>3
      <3>5. QED BY <3>1, <3>3, <3>4
    <2>5. CASE q.table = "runs"
      <3>1. Selected(q)' = Selected(q)
        BY <2>2, <2>5 DEF Selected
      <3>2. \A i : Key(q, i)' = Key(q, i)
        BY <2>2, <2>5 DEF Key
      <3>3. QED BY <2>5, <3>1, <3>2 DEF Before
    <2>6. QED BY <1>1, <2>4, <2>5
  <1>3. CASE StartRun
    <2>1. PICK e : runs' = Append(runs, e) /\ jobs' = jobs
      BY <1>3 DEF StartRun
    <2>2. /\ DOMAIN runs \subseteq DOMAIN runs'
          /\ \A r \in DOMAIN runs : runs'[r] = runs[r]
      BY <2>1 DEF TablesInv
    <2>3. CASE q.table = "jobs"
      <3>1. Selected(q)' = Selected(q)
        BY <2>1, <2>3 DEF Selected
      <3>2. \A i : Key(q, i)' = Key(q, i)
        BY <2>1, <2>3 DEF Key
      <3>3. QED BY <3>1, <3>2 DEF Before
    <2>4. CASE q.table = "runs"
      <3>1. Selected(q) = DOMAIN runs /\ Selected(q)' = DOMAIN runs'
        BY <2>4 DEF Selected
      <3>2. \A i \in Selected(q) : Key(q, i)' = Key(q, i)
        BY <2>2, <2>4, <3>1 DEF Key
      <3>3. QED BY <2>2, <2>4, <3>1, <3>2 DEF Before
    <2>5. QED BY <1>1, <2>3, <2>4
  <1>4. QED BY <1>2, <1>3

\* So a row only ever moves back, and in the order by id it does not move.
LEMMA GrowthKeepsRanks ==
  ASSUME TablesInv, FiniteLists', NEW q \in Queries, AddJob \/ StartRun
  PROVE  /\ Count(q) <= Count(q)' /\ Count(q)' \in Nat
         /\ \A i \in Selected(q) :
              /\ Rank(q, i) <= Rank(q, i)' /\ Rank(q, i)' \in Nat
              /\ (q.table = "jobs" /\ q.sort = "id" /\ q.order = "asc") =>
                   Rank(q, i)' = Rank(q, i)
  <1>1. /\ Selected(q) \subseteq Selected(q)'
        /\ \A i, j \in Selected(q) : Before(q, i, j)' <=> Before(q, i, j)
        /\ (q.table = "jobs" /\ q.sort = "id" /\ q.order = "asc") =>
             \A i \in Selected(q), j \in Selected(q)' \ Selected(q) : ~Before(q, j, i)'
    BY GrowthKeepsOrder
  <1>2. IsFiniteSet(Selected(q)') /\ Count(q)' \in Nat
    BY DEF FiniteLists
  <1>3. Count(q) <= Count(q)'
    BY <1>1, <1>2, FS_Subset DEF Count
  <1>4. ASSUME NEW i \in Selected(q)
        PROVE  /\ Rank(q, i) <= Rank(q, i)' /\ Rank(q, i)' \in Nat
               /\ (q.table = "jobs" /\ q.sort = "id" /\ q.order = "asc") =>
                    Rank(q, i)' = Rank(q, i)
    <2>1. Earlier(q, i) \subseteq Earlier(q, i)'
      BY <1>1 DEF Earlier
    <2>2. IsFiniteSet(Earlier(q, i)') /\ Rank(q, i)' \in Nat
      <3>1. Earlier(q, i)' \subseteq Selected(q)'
        BY DEF Earlier
      <3>2. QED BY <1>2, <3>1, FS_Subset, FS_CardinalityType DEF Rank
    <2>3. Rank(q, i) <= Rank(q, i)'
      BY <2>1, <2>2, FS_Subset DEF Rank
    <2>4. ASSUME q.table = "jobs", q.sort = "id", q.order = "asc"
          PROVE  Rank(q, i)' = Rank(q, i)
      <3>1. Earlier(q, i)' = Earlier(q, i)
        BY <1>1, <2>4 DEF Earlier
      <3>2. QED BY <3>1 DEF Rank
    <2>5. QED BY <2>2, <2>3, <2>4
  <1>5. QED BY <1>2, <1>3, <1>4

LEMMA WalkInit ==
  ASSUME Init
  PROVE  WalkInv
  BY DEF Init, WalkInv, Begun, Exact, Kept

LEMMA GrowthKeeps ==
  ASSUME TablesInv, FiniteLists', WalkInv, AddJob \/ StartRun
  PROVE  WalkInv'
  <1>1. /\ UNCHANGED <<query, offset, got, first, answer>>
        /\ world' = IF world = "still" THEN "grown" ELSE world
    BY DEF AddJob, StartRun, walk
  <1>2. Done' = Done
    BY <1>1 DEF Done
  <1>3. CASE query = None
    BY <1>1, <1>3 DEF WalkInv, Begun, Exact, Kept
  <1>4. CASE query # None
    <2>1. query \in Queries
      BY <1>4 DEF WalkInv
    <2>2. /\ Count(query) <= Count(query)' /\ Count(query)' \in Nat /\ Count(query) \in Nat
          /\ Selected(query) \subseteq Selected(query)'
          /\ \A i \in Selected(query) :
               /\ Rank(query, i) <= Rank(query, i)' /\ Rank(query, i)' \in Nat
               /\ Rank(query, i) \in Nat
               /\ Appends => Rank(query, i)' = Rank(query, i)
      <3> DEFINE q == query
      <3>1. q' = q
        BY <1>1
      <3> HIDE DEF q
      <3>2. QED BY <2>1, <3>1, GrowthKeepsRanks, GrowthKeepsOrder, ListShape, RankIsNat
                DEF Appends, q
    <2>3. Exact'
      BY <1>1, <1>2, <1>4, <2>2 DEF WalkInv, Exact, Appends
    <2>4. Kept'
      BY <1>1, <1>2, <1>4, <2>2 DEF WalkInv, Kept
    <2>5. QED BY <1>1, <2>3, <2>4 DEF WalkInv, Begun
  <1>5. QED BY <1>3, <1>4

\* A list that has changed under the client promises nothing.
LEMMA ChangeKeeps ==
  ASSUME WalkInv, ChangeJob \/ RemoveJob
  PROVE  WalkInv'
  BY DEF ChangeJob, RemoveJob, walk, WalkInv, Begun, Exact, Kept

LEMMA ComingAndGoingKeep ==
  ASSUME FiniteLists', WalkInv, StartWalk \/ Leave
  PROVE  WalkInv'
  <1>1. CASE StartWalk
    <2>1. /\ query' \in Queries /\ first' = Selected(query') /\ UNCHANGED tables
          /\ offset' = 0 /\ got' = <<>> /\ world' = "still" /\ answer' = None
      BY <1>1 DEF StartWalk
    <2>2. Selected(query)' = first'
      BY <2>1 DEF tables, Selected
    <2>3. Exact'
      BY <2>1 DEF Exact, Done
    <2>4. Kept'
      <3>1. ~Done'
        BY <2>1 DEF Done
      <3>2. ASSUME NEW i \in first' PROVE ~(Rank(query, i)' < offset')
        <4>1. IsFiniteSet(Selected(query)')
          BY <2>1 DEF FiniteLists
        <4>2. Earlier(query, i)' \subseteq Selected(query)'
          BY DEF Earlier
        <4>3. Rank(query, i)' \in Nat
          BY <4>1, <4>2, FS_Subset, FS_CardinalityType DEF Rank
        <4>4. QED BY <2>1, <4>3
      <3>3. QED BY <2>2, <3>1, <3>2 DEF Kept
    <2>5. QED BY <2>1, <2>3, <2>4 DEF WalkInv, Begun
  <1>2. CASE Leave
    BY <1>2 DEF Leave, WalkInv, Begun, Exact, Kept
  <1>3. QED BY <1>1, <1>2

LEMMA StutterKeeps ==
  ASSUME WalkInv, UNCHANGED vars
  PROVE  WalkInv'
  <1>1. UNCHANGED <<jobs, runs, query, offset, got, first, world, answer>>
    BY DEF vars
  <1>2. /\ Selected(query)' = Selected(query) /\ Count(query)' = Count(query)
        /\ \A i : Rank(query, i)' = Rank(query, i)
    BY <1>1 DEF Count, Selected, Rank, Earlier, Before, Key
  <1>3. Done' = Done /\ Appends' = Appends
    BY <1>1 DEF Done, Appends
  <1>4. Begun' /\ Exact' /\ Kept'
    BY <1>1, <1>2, <1>3 DEF WalkInv, Begun, Exact, Kept
  <1>5. QED BY <1>1, <1>4 DEF WalkInv

\* A page has the next ranks, or all that are left.
LEMMA NextPageKeeps ==
  ASSUME TablesInv, FiniteLists, WalkInv, NextPage
  PROVE  WalkInv'
  <1> DEFINE q == query
             o == offset
             n == Count(query)
             l == query.limit
  <1>1. PICK a \in Responses(q, o) : answer' = a /\ got' = got \o a.items
    BY DEF NextPage
  <1>2. /\ query' = q /\ q # None /\ ~Done /\ offset' = o + l
        /\ UNCHANGED <<jobs, runs, first, world>>
    BY DEF NextPage, tables
  <1>3. q \in Queries /\ o \in Nat /\ l \in Nat \ {0} /\ n \in Nat /\ got \in Seq(Nat)
    BY <1>2, QueriesAssumption DEF WalkInv, FiniteLists
  <1> DEFINE m == IF n <= o THEN 0 ELSE IF n <= o + l THEN n - o ELSE l
             S == Selected(query)
             w == a.items
  <1>4. /\ a.total = n /\ w \in Seq(S) /\ S \subseteq Nat
        /\ \A x \in 1..Len(w) : Rank(q, w[x]) = o + x - 1
        /\ Len(w) = m
        /\ \A i \in S : /\ Rank(q, i) < n
                        /\ o <= Rank(q, i) /\ Rank(q, i) < o + l =>
                             \E x \in 1..Len(w) : w[x] = i
    BY <1>3, PageHasRanks, ListShape
  <1>5. w \in Seq(Nat)
    BY <1>4
  <1>6. a # None
    <2>1. a = [items |-> w, total |-> n]
      BY <1>4 DEF Responses
    <2> HIDE DEF w, n
    <2>2. a \in [items : Seq(Nat), total : Nat]
      BY <1>3, <1>5, <2>1
    <2>3. QED BY <2>2, NoneAssumption
  <1>7. \A i \in S : Rank(q, i) \in Nat
    BY <1>3, RankIsNat
  <1>8. /\ Selected(query)' = S /\ Count(query)' = n
        /\ \A i : Rank(query, i)' = Rank(q, i)
    BY <1>2 DEF Count, Selected, Rank, Earlier, Before, Key
  <1> HIDE DEF q, o, n, l, S, w
  <1>9. Done' <=> o + l >= n
    BY <1>1, <1>2, <1>4, <1>6 DEF Done
  <1>10. /\ got' \in Seq(Nat) /\ Len(got') = Len(got) + m
         /\ \A x \in 1..Len(got) : got'[x] = got[x]
         /\ \A x \in 1..m : got'[Len(got) + x] = w[x]
    <2>1. Len(w) = m
      BY <1>4
    <2>2. got' = got \o w
      BY <1>1 DEF w
    <2> HIDE DEF m
    <2>3. QED BY <1>3, <1>5, <2>1, <2>2
  <1>11. Exact'
    <2>1. SUFFICES ASSUME world = "still" \/ (Appends /\ world # "changed")
          PROVE  /\ \A x \in DOMAIN got' : got'[x] \in S /\ Rank(q, got'[x]) = x - 1
                 /\ Len(got') = IF o + l >= n THEN n ELSE o + l
      BY <1>1, <1>2, <1>3, <1>4, <1>8, <1>9 DEF Exact, Appends, q
    <2>2. /\ \A x \in DOMAIN got : got[x] \in S /\ Rank(q, got[x]) = x - 1
          /\ Len(got) = o
          /\ answer # None => answer.total <= n
      BY <1>2, <2>1 DEF WalkInv, Exact, q, o, n, S
    <2>3. o <= n
      <3>1. CASE answer = None
        BY <1>2, <1>3, <3>1 DEF WalkInv, Begun, q, o
      <3>2. CASE answer # None
        <4>1. answer.total \in Nat /\ ~(o >= answer.total)
          BY <1>2, <3>2 DEF WalkInv, Done, q, o
        <4>2. QED BY <1>3, <2>2, <3>2, <4>1
      <3>3. QED BY <3>1, <3>2
    <2>4. o + m = IF o + l >= n THEN n ELSE o + l
      BY <1>3, <2>3
    <2>5. m \in Nat
      BY <1>3
    <2> HIDE DEF m
    <2>6. ASSUME NEW x \in 1..o + m PROVE got'[x] \in S /\ Rank(q, got'[x]) = x - 1
      <3>1. CASE x <= o
        BY <1>3, <1>10, <2>2, <3>1
      <3>2. CASE x > o
        <4>1. x - o \in 1..m /\ o + (x - o) = x /\ o + (x - o) - 1 = x - 1
          BY <1>3, <2>5, <3>2
        <4>2. got'[x] = w[x - o]
          BY <1>10, <2>2, <4>1
        <4>3. w[x - o] \in S /\ Rank(q, w[x - o]) = o + (x - o) - 1
          BY <1>4, <4>1
        <4>4. QED BY <4>1, <4>2, <4>3
      <3>3. QED BY <1>3, <3>1, <3>2
    <2>7. QED BY <1>10, <2>2, <2>4, <2>6
  <1>12. Kept'
    <2>1. SUFFICES ASSUME world # "changed"
          PROVE  /\ first \subseteq S
                 /\ \A i \in first : Rank(q, i) < o + l => i \in ToSet(got')
                 /\ o + l >= n => first \subseteq ToSet(got')
                 /\ world = "still" => first = S
      BY <1>2, <1>8, <1>9 DEF Kept
    <2>2. /\ first \subseteq S /\ (world = "still" => first = S)
          /\ \A i \in first : Rank(q, i) < o => i \in ToSet(got)
      BY <1>2, <2>1 DEF WalkInv, Kept, q, o, S
    <2>3. ASSUME NEW i \in first, Rank(q, i) < o + l PROVE i \in ToSet(got')
      <3>1. i \in S /\ Rank(q, i) \in Nat
        BY <1>7, <2>2
      <3>2. CASE Rank(q, i) < o
        <4>1. PICK x \in 1..Len(got) : got[x] = i
          BY <1>3, <2>2, <3>2 DEF ToSet
        <4>2. x \in DOMAIN got' /\ got'[x] = i
          <5>1. m \in Nat
            BY <1>3
          <5> HIDE DEF m
          <5>2. QED BY <1>3, <1>10, <4>1, <5>1
        <4>3. QED BY <4>2 DEF ToSet
      <3>3. CASE o <= Rank(q, i)
        <4>1. PICK x \in 1..m : w[x] = i
          BY <1>4, <2>3, <3>1, <3>3
        <4>2. got'[Len(got) + x] = i
          BY <1>10, <4>1
        <4>3. m \in Nat /\ Len(got) \in Nat /\ x \in 1..m
          BY <1>3, <4>1
        <4>4. Len(got) + x \in DOMAIN got'
          <5> HIDE DEF m
          <5>1. Len(got) + x \in 1..Len(got')
            BY <1>10, <4>3
          <5>2. QED BY <1>10, <5>1
        <4>5. QED BY <4>2, <4>4 DEF ToSet
      <3>4. QED BY <1>3, <3>1, <3>2, <3>3
    <2>4. ASSUME o + l >= n, NEW i \in first PROVE i \in ToSet(got')
      BY <1>3, <1>4, <1>7, <2>2, <2>3, <2>4
    <2>5. QED BY <2>2, <2>3, <2>4
  <1>13. Begun'
    BY <1>1, <1>6 DEF Begun
  <1>14. QED
    BY <1>1, <1>2, <1>3, <1>4, <1>10, <1>11, <1>12, <1>13 DEF WalkInv, q

LEMMA WalkStep ==
  ASSUME TablesInv, FiniteLists, FiniteLists', WalkInv, [Next]_vars
  PROVE  WalkInv'
  BY GrowthKeeps, ChangeKeeps, ComingAndGoingKeep, StutterKeeps, NextPageKeeps
     DEF Next, Scraper, Client

LEMMA ListsAreFinite == TablesInv => FiniteLists
  BY ListShape DEF FiniteLists

LEMMA WalkAlways == Spec => []WalkInv
  <1>1. QED BY TablesAlways, ListsAreFinite, WalkInit, WalkStep, PTL DEF Spec

-----------------------------------------------------------------------------
(* Patterns: what the two recursive functions of LikeSearch compute         *)

\* Induction up to a bound.
LEMMA Counting ==
  ASSUME NEW n \in Nat, NEW P, 0 \in P, \A k \in 0..n - 1 : k \in P => k + 1 \in P
  PROVE  \A k \in 0..n : k \in P
  <1> DEFINE bad == {k \in 0..n : k \notin P}
  <1>1. SUFFICES ASSUME bad # {} PROVE FALSE
    OBVIOUS
  <1>2. bad \in SUBSET Int /\ bad \in SUBSET (0..n)
    OBVIOUS
  <1>3. IsFiniteSet(bad)
    <2>1. IsFiniteSet(0..n)
      BY FS_Interval
    <2> HIDE DEF bad
    <2>2. QED BY <1>2, <2>1, FS_Subset
  <1>4. PICK k \in bad : \A x \in bad : k <= x
    BY <1>1, <1>2, <1>3, FiniteExtremes
  <1>5. k - 1 \in 0..n - 1 /\ k - 1 \notin bad
    BY <1>4
  <1>6. QED BY <1>4, <1>5

\* What one replacement makes of the i-th character.
Written(v, c, i) == IF v[i] = c THEN <<Escape, c>> ELSE <<v[i]>>

\* The recursive function in Replaced exists, and so is what its equation says.
LEMMA ReplacedSteps ==
  ASSUME NEW v \in Seq(Chars), NEW c
  PROVE  \E u : /\ u = [i \in 0..Len(v) |->
                          IF i = 0 THEN <<>> ELSE u[i - 1] \o Written(v, c, i)]
                /\ Replaced(v, c) = u[Len(v)]
  <1> DEFINE n == Len(v)
             P == {k \in 0..n :
                     \E f : f = [i \in 0..k |->
                                   IF i = 0 THEN <<>> ELSE f[i - 1] \o Written(v, c, i)]}
  <1>0. n \in Nat
    OBVIOUS
  <1>1. 0 \in P
    <2>1. DEFINE f == [i \in 0..0 |-> <<>>]
    <2>2. f = [i \in 0..0 |-> IF i = 0 THEN <<>> ELSE f[i - 1] \o Written(v, c, i)]
      OBVIOUS
    <2> HIDE DEF f
    <2>3. QED BY <1>0, <2>2
  <1>2. ASSUME NEW k \in 0..n - 1, k \in P PROVE k + 1 \in P
    <2>1. PICK f : f = [i \in 0..k |->
                          IF i = 0 THEN <<>> ELSE f[i - 1] \o Written(v, c, i)]
      BY <1>2
    <2> DEFINE g == [i \in 0..k + 1 |-> IF i = k + 1 THEN f[k] \o Written(v, c, k + 1)
                                        ELSE f[i]]
    <2>2. \A i \in 0..k + 1 :
            g[i] = IF i = 0 THEN <<>> ELSE g[i - 1] \o Written(v, c, i)
      <3>1. SUFFICES ASSUME NEW i \in 0..k + 1
                     PROVE  g[i] = IF i = 0 THEN <<>> ELSE g[i - 1] \o Written(v, c, i)
        OBVIOUS
      <3>2. CASE i = k + 1
        <4>1. g[i] = f[k] \o Written(v, c, i) /\ g[i - 1] = f[k] /\ i # 0
          BY <3>2, <1>0
        <4>2. QED BY <4>1
      <3>3. CASE i # k + 1
        <4>1. i \in 0..k /\ g[i] = f[i]
          BY <3>3, <1>0
        <4>2. f[i] = IF i = 0 THEN <<>> ELSE f[i - 1] \o Written(v, c, i)
          BY <2>1, <4>1
        <4>3. i # 0 => g[i - 1] = f[i - 1]
          BY <4>1, <1>0
        <4>4. QED BY <4>1, <4>2, <4>3
      <3>4. QED BY <3>2, <3>3
    <2>3. g = [i \in 0..k + 1 |-> g[i]]
      OBVIOUS
    <2> HIDE DEF g
    <2>4. g = [i \in 0..k + 1 |-> IF i = 0 THEN <<>> ELSE g[i - 1] \o Written(v, c, i)]
      BY <2>2, <2>3
    <2>5. k + 1 \in 0..n
      BY <1>0
    <2>6. QED BY <2>4, <2>5
  <1>3. n \in P
    <2> HIDE DEF P, n
    <2>1. \A k \in 0..n : k \in P
      BY <1>0, <1>1, <1>2, Counting
    <2>2. QED BY <1>0, <2>1
  <1>4. \E f : f = [i \in 0..n |-> IF i = 0 THEN <<>> ELSE f[i - 1] \o Written(v, c, i)]
    BY <1>3
  <1> DEFINE u == CHOOSE f : f = [i \in 0..n |-> IF i = 0 THEN <<>>
                                                ELSE f[i - 1] \o Written(v, c, i)]
  <1>5. u = [i \in 0..n |-> IF i = 0 THEN <<>> ELSE u[i - 1] \o Written(v, c, i)]
    BY <1>4
  <1>6. Replaced(v, c) = u[n]
    BY DEF Replaced, Written
  <1> HIDE DEF u
  <1>7. QED BY <1>5, <1>6

\* p is the text t with the escape character before each character of X, and e[i]
\* the place in p of the i-th character.
Encodes(p, t, X) ==
  \E e \in [0..Len(t) -> 0..Len(p)] :
    /\ e[0] = 0 /\ e[Len(t)] = Len(p)
    /\ \A i \in 1..Len(t) :
         /\ e[i] = e[i - 1] + (IF t[i] \in X THEN 2 ELSE 1)
         /\ p[e[i]] = t[i]
         /\ t[i] \in X => p[e[i] - 1] = Escape

\* One replacement encodes one character.
LEMMA ReplacedEncodes ==
  ASSUME NEW v \in Seq(Chars), NEW c \in Chars
  PROVE  Replaced(v, c) \in Seq(Chars) /\ Encodes(Replaced(v, c), v, {c})
  <1> DEFINE n == Len(v)
  <1>0. n \in Nat /\ \A i \in 1..n : v[i] \in Chars
    OBVIOUS
  <1>1. PICK u : /\ u = [i \in 0..n |-> IF i = 0 THEN <<>> ELSE u[i - 1] \o Written(v, c, i)]
                 /\ Replaced(v, c) = u[n]
    BY ReplacedSteps
  <1>2. u[0] = <<>> /\ \A i \in 1..n : u[i] = u[i - 1] \o Written(v, c, i)
    <2>1. \A i \in 0..n : u[i] = IF i = 0 THEN <<>> ELSE u[i - 1] \o Written(v, c, i)
      BY <1>1
    <2>2. 0 \in 0..n /\ \A i \in 1..n : i \in 0..n /\ i # 0
      BY <1>0
    <2>3. QED BY <2>1, <2>2
  <1>3. \A i \in 1..n : /\ Written(v, c, i) \in Seq(Chars)
                        /\ v[i] = c => /\ Len(Written(v, c, i)) = 2
                                       /\ Written(v, c, i)[1] = Escape
                                       /\ Written(v, c, i)[2] = v[i]
                        /\ v[i] # c => /\ Len(Written(v, c, i)) = 1
                                       /\ Written(v, c, i)[1] = v[i]
    <2>1. Escape \in Chars
      BY DEF Chars
    <2>2. SUFFICES ASSUME NEW i \in 1..n
          PROVE  /\ Written(v, c, i) \in Seq(Chars)
                 /\ v[i] = c => /\ Len(Written(v, c, i)) = 2
                                /\ Written(v, c, i)[1] = Escape
                                /\ Written(v, c, i)[2] = v[i]
                 /\ v[i] # c => /\ Len(Written(v, c, i)) = 1
                                /\ Written(v, c, i)[1] = v[i]
      OBVIOUS
    <2>3. CASE v[i] = c
      <3>1. Written(v, c, i) = <<Escape, v[i]>>
        BY <2>3 DEF Written
      <3>2. QED BY <1>0, <2>1, <2>3, <3>1
    <2>4. CASE v[i] # c
      <3>1. Written(v, c, i) = <<v[i]>>
        BY <2>4 DEF Written
      <3>2. QED BY <1>0, <2>4, <3>1
    <2>5. QED BY <2>3, <2>4
  <1> DEFINE Width(i) == IF v[i] \in {c} THEN 2 ELSE 1
             L(i) == Len(u[i])
  <1>4. \A i \in 0..n : u[i] \in Seq(Chars)
    <2> DEFINE P == {k \in 0..n : u[k] \in Seq(Chars)}
    <2>1. 0 \in P
      <3>1. u[0] \in Seq(Chars) /\ 0 \in 0..n
        BY <1>0, <1>2
      <3>2. QED BY <3>1
    <2>2. ASSUME NEW k \in 0..n - 1, k \in P PROVE k + 1 \in P
      <3>1. k + 1 \in 1..n /\ k + 1 \in 0..n /\ (k + 1) - 1 = k
        BY <1>0
      <3>2. u[k + 1] = u[k] \o Written(v, c, k + 1) /\ Written(v, c, k + 1) \in Seq(Chars)
        BY <1>2, <1>3, <3>1
      <3>3. u[k] \in Seq(Chars)
        BY <2>2
      <3>4. u[k] \o Written(v, c, k + 1) \in Seq(Chars)
        BY <3>2, <3>3
      <3>5. QED BY <3>1, <3>2, <3>4
    <2> HIDE DEF P, n
    <2>3. \A k \in 0..n : k \in P
      BY <1>0, <2>1, <2>2, Counting
    <2>4. QED BY <2>3 DEF P
  <1>5. ASSUME NEW i \in 1..n
        PROVE  /\ L(i - 1) \in Nat /\ L(i) = L(i - 1) + Width(i)
               /\ \A x \in 1..L(i - 1) : u[i][x] = u[i - 1][x]
               /\ u[i][L(i)] = v[i]
               /\ v[i] \in {c} => u[i][L(i) - 1] = Escape
    <2>1. i - 1 \in 0..n
      BY <1>0
    <2>2. PICK a : a = Written(v, c, i)
      OBVIOUS
    <2>3. u[i - 1] \in Seq(Chars) /\ a \in Seq(Chars) /\ u[i] = u[i - 1] \o a
      BY <1>2, <1>3, <1>4, <2>1, <2>2
    <2>4. /\ v[i] = c => Len(a) = 2 /\ a[1] = Escape /\ a[2] = v[i]
          /\ v[i] # c => Len(a) = 1 /\ a[1] = v[i]
      BY <1>3, <2>2
    <2>5. /\ L(i - 1) \in Nat /\ L(i) = L(i - 1) + Len(a)
          /\ \A x \in 1..L(i - 1) : u[i][x] = u[i - 1][x]
          /\ \A x \in 1..Len(a) : u[i][L(i - 1) + x] = a[x]
      BY <2>3
    <2> HIDE DEF L
    <2>6. CASE v[i] = c
      <3>1. Len(a) = 2 /\ Width(i) = 2 /\ a[1] = Escape /\ a[2] = v[i]
        BY <2>4, <2>6
      <3>2. L(i) = L(i - 1) + 2 /\ L(i) - 1 = L(i - 1) + 1
        BY <2>5, <3>1
      <3>3. u[i][L(i - 1) + 1] = Escape /\ u[i][L(i - 1) + 2] = v[i]
        BY <2>5, <3>1
      <3>4. QED BY <2>5, <3>1, <3>2, <3>3
    <2>7. CASE v[i] # c
      <3>1. Len(a) = 1 /\ Width(i) = 1 /\ a[1] = v[i] /\ v[i] \notin {c}
        BY <2>4, <2>7
      <3>2. L(i) = L(i - 1) + 1 /\ u[i][L(i - 1) + 1] = v[i]
        BY <2>5, <3>1
      <3>3. QED BY <2>5, <3>1, <3>2
    <2>8. QED BY <2>6, <2>7
  <1>6. \A i \in 0..n : L(i) \in Nat
    BY <1>4
  <1>7. \A i \in 1..n : Width(i) \in {1, 2} /\ (v[i] \in {c} <=> Width(i) = 2)
    OBVIOUS
  <1> DEFINE Prefix(i, k) == /\ L(i) <= L(k)
                             /\ \A x \in 1..L(i) : u[k][x] = u[i][x]
  <1> HIDE DEF L, Width
  <1>8. \A k \in 0..n : \A i \in 0..k : Prefix(i, k)
    <2> DEFINE P == {k \in 0..n : \A i \in 0..k : Prefix(i, k)}
    <2>1. 0 \in P
      BY <1>0, <1>6
    <2>2. ASSUME NEW k \in 0..n - 1, k \in P PROVE k + 1 \in P
      <3>1. k + 1 \in 1..n /\ k + 1 \in 0..n /\ (k + 1) - 1 = k
        BY <1>0
      <3>2. /\ L(k) \in Nat /\ L(k + 1) = L(k) + Width(k + 1)
            /\ \A x \in 1..L(k) : u[k + 1][x] = u[k][x]
        BY <1>5, <3>1
      <3>3. Width(k + 1) \in {1, 2}
        BY <1>7, <3>1
      <3>4. ASSUME NEW i \in 0..k + 1 PROVE Prefix(i, k + 1)
        <4>1. CASE i = k + 1
          BY <4>1, <3>2, <3>3
        <4>2. CASE i # k + 1
          <5>1. i \in 0..k /\ i \in 0..n
            BY <4>2, <3>1
          <5>2. L(i) \in Nat /\ L(i) <= L(k) /\ \A x \in 1..L(i) : u[k][x] = u[i][x]
            BY <2>2, <1>6, <5>1
          <5>3. L(i) <= L(k + 1)
            BY <5>2, <3>2, <3>3
          <5>4. \A x \in 1..L(i) : x \in 1..L(k)
            BY <5>2, <3>2
          <5>5. \A x \in 1..L(i) : u[k + 1][x] = u[i][x]
            BY <5>2, <5>4, <3>2
          <5>6. QED BY <5>3, <5>5
        <4>3. QED BY <4>1, <4>2
      <3> HIDE DEF Prefix
      <3>5. QED BY <3>1, <3>4
    <2> HIDE DEF P, n
    <2>3. \A k \in 0..n : k \in P
      BY <1>0, <2>1, <2>2, Counting
    <2>4. QED BY <2>3 DEF P
  <1> DEFINE R == Replaced(v, c)
             e == [i \in 0..n |-> L(i)]
  <1>9. R = u[n] /\ R \in Seq(Chars) /\ L(n) = Len(R)
    BY <1>0, <1>1, <1>4 DEF L
  <1>10. \A i \in 0..n : L(i) \in 0..L(n) /\ \A x \in 1..L(i) : u[n][x] = u[i][x]
    BY <1>0, <1>6, <1>8
  <1>11. e \in [0..n -> 0..Len(R)]
    BY <1>9, <1>10
  <1>12. e[0] = 0 /\ e[n] = Len(R)
    <2>1. L(0) = 0
      BY <1>2 DEF L
    <2>2. QED BY <1>0, <1>9, <2>1
  <1>13. ASSUME NEW i \in 1..n
         PROVE  /\ e[i] = e[i - 1] + (IF v[i] \in {c} THEN 2 ELSE 1)
                /\ R[e[i]] = v[i]
                /\ v[i] \in {c} => R[e[i] - 1] = Escape
    <2>1. i \in 0..n /\ i - 1 \in 0..n
      BY <1>0
    <2>2. e[i] = L(i) /\ e[i - 1] = L(i - 1)
      BY <2>1
    <2>3. /\ L(i - 1) \in Nat /\ L(i) = L(i - 1) + Width(i)
          /\ u[i][L(i)] = v[i]
          /\ v[i] \in {c} => u[i][L(i) - 1] = Escape
      BY <1>5
    <2>4. Width(i) \in {1, 2} /\ (v[i] \in {c} <=> Width(i) = 2)
      BY <1>7
    <2>5. L(i) \in 1..L(i) /\ (v[i] \in {c} => L(i) - 1 \in 1..L(i))
      BY <2>3, <2>4
    <2>6. u[n][L(i)] = v[i] /\ (v[i] \in {c} => u[n][L(i) - 1] = Escape)
      BY <1>10, <2>1, <2>3, <2>5
    <2> HIDE DEF e, R
    <2>7. e[i] = e[i - 1] + (IF v[i] \in {c} THEN 2 ELSE 1)
      BY <2>2, <2>3 DEF Width
    <2>8. QED BY <1>9, <2>2, <2>6, <2>7
  <1> HIDE DEF e, R
  <1>14. Encodes(R, v, {c})
    BY <1>11, <1>12, <1>13 DEF Encodes
  <1>15. QED BY <1>9, <1>14 DEF R

\* A later replacement leaves what the earlier ones added alone.
LEMMA EncodesThrough ==
  ASSUME NEW t \in Seq(Chars), NEW v \in Seq(Chars), NEW p \in Seq(Chars),
         NEW X, NEW c, Encodes(v, t, X), Encodes(p, v, {c}), c \notin X, c # Escape
  PROVE  Encodes(p, t, X \cup {c})
  <1>1. PICK e \in [0..Len(t) -> 0..Len(v)] :
          /\ e[0] = 0 /\ e[Len(t)] = Len(v)
          /\ \A i \in 1..Len(t) :
               /\ e[i] = e[i - 1] + (IF t[i] \in X THEN 2 ELSE 1)
               /\ v[e[i]] = t[i]
               /\ t[i] \in X => v[e[i] - 1] = Escape
    BY DEF Encodes
  <1>2. PICK d \in [0..Len(v) -> 0..Len(p)] :
          /\ d[0] = 0 /\ d[Len(v)] = Len(p)
          /\ \A i \in 1..Len(v) :
               /\ d[i] = d[i - 1] + (IF v[i] \in {c} THEN 2 ELSE 1)
               /\ p[d[i]] = v[i]
               /\ v[i] \in {c} => p[d[i] - 1] = Escape
    BY DEF Encodes
  <1> DEFINE n == Len(t)
             m == Len(v)
             f == [i \in 0..n |-> d[e[i]]]
  <1>0. n \in Nat /\ m \in Nat /\ Len(p) \in Nat
    OBVIOUS
  <1>3. \A i \in 0..n : e[i] \in 0..m
    BY <1>1
  <1>4. \A i \in 0..m : d[i] \in 0..Len(p)
    BY <1>2
  <1>5. f \in [0..n -> 0..Len(p)]
    BY <1>3, <1>4
  <1>6. f[0] = 0 /\ f[n] = Len(p)
    BY <1>0, <1>1, <1>2
  <1>7. /\ \A x, y \in 0..m : x = y + 1 => x \in 1..m /\ x - 1 = y
        /\ \A x, y \in 0..m : x = y + 2 => /\ x \in 1..m /\ x - 1 \in 1..m
                                           /\ (x - 1) - 1 = y
    BY <1>0
  <1>8. ASSUME NEW i \in 1..n
        PROVE  /\ f[i] = f[i - 1] + (IF t[i] \in X \cup {c} THEN 2 ELSE 1)
               /\ p[f[i]] = t[i]
               /\ t[i] \in X \cup {c} => p[f[i] - 1] = Escape
    <2>1. i \in 0..n /\ i - 1 \in 0..n
      BY <1>0
    <2>2. f[i] = d[e[i]] /\ f[i - 1] = d[e[i - 1]]
      BY <2>1
    <2>3. e[i] \in 0..m /\ e[i - 1] \in 0..m
      BY <1>3, <2>1
    <2>4. /\ e[i] = e[i - 1] + (IF t[i] \in X THEN 2 ELSE 1)
          /\ v[e[i]] = t[i]
          /\ t[i] \in X => v[e[i] - 1] = Escape
      BY <1>1
    <2> HIDE DEF f, n, m
    <2>5. CASE t[i] \in X
      <3>1. e[i] = e[i - 1] + 2 /\ t[i] \notin {c} /\ v[e[i] - 1] \notin {c}
        BY <2>4, <2>5
      <3>2. e[i] \in 1..m /\ e[i] - 1 \in 1..m /\ (e[i] - 1) - 1 = e[i - 1]
        BY <1>7, <2>3, <3>1
      <3>3. d[e[i]] = d[e[i] - 1] + 1 /\ p[d[e[i]]] = t[i]
        BY <1>2, <2>4, <3>1, <3>2 DEF m
      <3>4. d[e[i] - 1] = d[e[i - 1]] + 1 /\ p[d[e[i] - 1]] = v[e[i] - 1]
        BY <1>2, <3>1, <3>2 DEF m
      <3>5. d[e[i - 1]] \in Nat
        BY <1>0, <1>4, <2>3
      <3>6. d[e[i]] = d[e[i - 1]] + 2 /\ d[e[i]] - 1 = d[e[i] - 1]
        <4>1. \A x \in Nat : \A y, z : y = x + 1 /\ z = y + 1 => z = x + 2 /\ z - 1 = y
          OBVIOUS
        <4>2. QED BY <3>3, <3>4, <3>5, <4>1
      <3>7. QED BY <2>2, <2>4, <2>5, <3>3, <3>4, <3>6
    <2>6. CASE t[i] \notin X
      <3>1. e[i] = e[i - 1] + 1
        BY <2>4, <2>6
      <3>2. e[i] \in 1..m /\ e[i] - 1 = e[i - 1]
        BY <1>7, <2>3, <3>1
      <3>3. /\ d[e[i]] = d[e[i] - 1] + (IF v[e[i]] \in {c} THEN 2 ELSE 1)
            /\ p[d[e[i]]] = v[e[i]]
            /\ v[e[i]] \in {c} => p[d[e[i]] - 1] = Escape
        BY <1>2, <3>2 DEF m
      <3>4. QED BY <2>2, <2>4, <2>6, <3>2, <3>3
    <2>7. QED BY <2>5, <2>6
  <1> HIDE DEF f
  <1>9. QED BY <1>5, <1>6, <1>8 DEF Encodes

Special == Wildcards \cup {Escape}

\* The three replacements, in the order of _escape_like, encode a term.
LEMMA EscapeLikeEncodes ==
  ASSUME NEW t \in Seq(Chars)
  PROVE  EscapeLike(t) \in Seq(Chars) /\ Encodes(EscapeLike(t), t, Special)
  <1> DEFINE u == Replaced(t, Escape)
             v == Replaced(u, "%")
             w == Replaced(v, "_")
  <1>1. Escape \in Chars /\ "%" \in Chars /\ "_" \in Chars
    BY DEF Chars, Wildcards
  <1>2. "%" # Escape /\ "_" # Escape /\ "_" # "%"
    BY DEF Escape
  <1> HIDE DEF u, v, w
  <1>3. u \in Seq(Chars) /\ Encodes(u, t, {Escape})
    BY <1>1, ReplacedEncodes DEF u
  <1>4. v \in Seq(Chars) /\ Encodes(v, u, {"%"})
    BY <1>1, <1>3, ReplacedEncodes DEF v
  <1>5. w \in Seq(Chars) /\ Encodes(w, v, {"_"})
    BY <1>1, <1>4, ReplacedEncodes DEF w
  <1>6. Encodes(v, t, {Escape} \cup {"%"})
    BY <1>2, <1>3, <1>4, EncodesThrough
  <1>7. Encodes(w, t, ({Escape} \cup {"%"}) \cup {"_"})
    <2>1. "_" \notin {Escape} \cup {"%"}
      BY <1>2
    <2>2. QED BY <1>2, <1>4, <1>5, <1>6, <2>1, EncodesThrough
  <1>8. ({Escape} \cup {"%"}) \cup {"_"} = Special
    BY DEF Special, Wildcards
  <1>9. w = EscapeLike(t)
    BY DEF u, v, w, EscapeLike
  <1>10. QED BY <1>5, <1>7, <1>8, <1>9

\* One step of the matcher, given where the later places match.
Row(p, t, i, f) ==
  IF i > Len(p) THEN {Len(t) + 1}
  ELSE CASE p[i] = "%" -> {j \in 1..Len(t) + 1 : \E k \in f[i + 1] : j <= k}
         [] p[i] = "_" -> {j \in 1..Len(t) : j + 1 \in f[i + 1]}
         [] p[i] = Escape -> {j \in 1..Len(t) : /\ i < Len(p)
                                                /\ Fold(p[i + 1]) = Fold(t[j])
                                                /\ j + 1 \in f[i + 2]}
         [] OTHER -> {j \in 1..Len(t) : /\ Fold(p[i]) = Fold(t[j])
                                        /\ j + 1 \in f[i + 1]}

LEMMA RowLooksAhead ==
  ASSUME NEW p, Len(p) \in Nat, NEW t, NEW i \in Nat, NEW f, NEW g,
         i + 1 <= Len(p) + 1 => f[i + 1] = g[i + 1],
         i + 2 <= Len(p) + 1 => f[i + 2] = g[i + 2]
  PROVE  Row(p, t, i, f) = Row(p, t, i, g)
  <1>1. CASE i > Len(p)
    BY <1>1 DEF Row
  <1>2. CASE i = Len(p)
    <2>1. f[i + 1] = g[i + 1] /\ ~(i < Len(p)) /\ ~(i > Len(p))
      BY <1>2
    <2>2. QED BY <2>1 DEF Row
  <1>3. CASE i < Len(p)
    <2>1. f[i + 1] = g[i + 1] /\ f[i + 2] = g[i + 2]
      BY <1>3
    <2>2. QED BY <2>1 DEF Row
  <1>4. QED BY <1>1, <1>2, <1>3

\* The recursive function in Matches exists, and so is what its equation says.
LEMMA MatchesAre ==
  ASSUME NEW p, Len(p) \in Nat, NEW t
  PROVE  \A i \in 1..Len(p) + 1 : Matches(p, t)[i] = Row(p, t, i, Matches(p, t))
  <1> DEFINE m == Len(p) + 1
             P == {k \in 0..m :
                     \E f : \A i \in (m + 1) - k..m : f[i] = Row(p, t, i, f)}
  <1>0. m \in Nat /\ m >= 1
    OBVIOUS
  <1>1. 0 \in P
    <2>1. (m + 1) - 0..m = {}
      BY <1>0
    <2>2. QED BY <1>0, <2>1
  <1>2. ASSUME NEW k \in 0..m - 1, k \in P PROVE k + 1 \in P
    <2>1. PICK f : \A i \in (m + 1) - k..m : f[i] = Row(p, t, i, f)
      BY <1>2
    <2> DEFINE a == m - k
               g == [i \in a..m |-> IF i = a THEN Row(p, t, a, f) ELSE f[i]]
    <2>2. a \in 1..m /\ (m + 1) - k = a + 1 /\ (m + 1) - (k + 1) = a
      BY <1>0
    <2>3. ASSUME NEW i \in a..m PROVE g[i] = Row(p, t, i, g)
      <3>1. \A x \in a + 1..m : x \in a..m /\ x # a
        BY <1>0, <2>2
      <3>2. \A x \in a + 1..m : g[x] = f[x]
        BY <3>1
      <3>3. g[i] = Row(p, t, i, f)
        <4>1. CASE i = a
          BY <4>1
        <4>2. CASE i # a
          <5>1. i \in a + 1..m
            BY <4>2, <2>2
          <5>2. QED BY <2>1, <2>2, <3>2, <5>1
        <4>3. QED BY <4>1, <4>2
      <3> HIDE DEF g
      <3>4. /\ i \in Nat
            /\ i + 1 <= Len(p) + 1 => i + 1 \in a + 1..m
            /\ i + 2 <= Len(p) + 1 => i + 2 \in a + 1..m
        BY <1>0, <2>2
      <3> HIDE DEF a, m
      <3>5. Row(p, t, i, f) = Row(p, t, i, g)
        BY <3>2, <3>4, RowLooksAhead
      <3>6. QED BY <3>3, <3>5
    <2> HIDE DEF g
    <2>4. \A i \in (m + 1) - (k + 1)..m : g[i] = Row(p, t, i, g)
      BY <2>2, <2>3
    <2>5. k + 1 \in 0..m
      BY <1>0
    <2>6. QED BY <2>4, <2>5
  <1>3. m \in P
    <2> HIDE DEF P, m
    <2>1. \A k \in 0..m : k \in P
      BY <1>0, <1>1, <1>2, Counting
    <2>2. QED BY <1>0, <2>1
  <1>4. PICK f : \A i \in 1..m : f[i] = Row(p, t, i, f)
    <2>1. (m + 1) - m = 1
      BY <1>0
    <2>2. PICK f : \A i \in (m + 1) - m..m : f[i] = Row(p, t, i, f)
      BY <1>3
    <2>3. QED BY <2>1, <2>2
  <1> DEFINE g == [i \in 1..m |-> f[i]]
  <1>5. \A i \in 1..m : Row(p, t, i, f) = Row(p, t, i, g)
    <2>1. SUFFICES ASSUME NEW i \in 1..m PROVE Row(p, t, i, f) = Row(p, t, i, g)
      OBVIOUS
    <2>2. \A x \in 1..m : f[x] = g[x]
      OBVIOUS
    <2> HIDE DEF g
    <2>3. QED BY <1>0, <2>2, RowLooksAhead
  <1>6. g = [i \in 1..m |-> Row(p, t, i, g)]
    <2>1. \A i \in 1..m : g[i] = Row(p, t, i, g)
      BY <1>4, <1>5
    <2>2. g = [i \in 1..m |-> g[i]]
      OBVIOUS
    <2> HIDE DEF g
    <2>3. QED BY <2>1, <2>2
  <1> HIDE DEF g
  <1>7. \E h : h = [i \in 1..Len(p) + 1 |-> Row(p, t, i, h)]
    BY <1>6
  <1>8. Matches(p, t) = CHOOSE h : h = [i \in 1..Len(p) + 1 |-> Row(p, t, i, h)]
    BY DEF Matches, Row
  <1>9. Matches(p, t) = [i \in 1..Len(p) + 1 |-> Row(p, t, i, Matches(p, t))]
    <2> DEFINE M == CHOOSE h : h = [i \in 1..Len(p) + 1 |-> Row(p, t, i, h)]
    <2>1. M = [i \in 1..Len(p) + 1 |-> Row(p, t, i, M)]
      BY <1>7
    <2>2. Matches(p, t) = M
      BY <1>8
    <2> HIDE DEF M
    <2>3. QED BY <2>1, <2>2
  <1>10. QED BY <1>9

\* The pattern is o characters, p, and a final "%".
Holds(pattern, o, p) ==
  /\ o \in Nat /\ Len(pattern) = o + Len(p) + 1
  /\ \A x \in 1..Len(p) : pattern[o + x] = p[x]
  /\ pattern[Len(pattern)] = "%"

\* After its first characters, the pattern of a term matches the text from j on
\* exactly if the term stands there.
LEMMA PatternMatches ==
  ASSUME NEW t \in Seq(Chars), NEW text \in Seq(Chars), NEW p \in Seq(Chars),
         Encodes(p, t, Special),
         NEW pattern \in Seq(Chars), NEW o, Holds(pattern, o, p)
  PROVE  Matches(pattern, text)[o + 1] =
           {j \in 1..Len(text) + 1 : StandsAt(t, text, j - 1)}
  <1> DEFINE n == Len(t)
             l == Len(text)
             m == Len(p)
             M == Matches(pattern, text)
             Stands(i) == {j \in 1..l + 1 :
                             /\ j + n <= l + 1 + i
                             /\ \A k \in i + 1..n : Fold(t[k]) = Fold(text[j + k - i - 1])}
  <1>0. /\ n \in Nat /\ l \in Nat /\ m \in Nat /\ Len(pattern) \in Nat
        /\ o \in Nat /\ Len(pattern) = o + m + 1
        /\ \A x \in 1..m : pattern[o + x] = p[x]
        /\ pattern[Len(pattern)] = "%"
    BY DEF Holds
  <1>1. PICK e \in [0..n -> 0..m] :
          /\ e[0] = 0 /\ e[n] = m
          /\ \A i \in 1..n :
               /\ e[i] = e[i - 1] + (IF t[i] \in Special THEN 2 ELSE 1)
               /\ p[e[i]] = t[i]
               /\ t[i] \in Special => p[e[i] - 1] = Escape
    BY DEF Encodes
  <1>2. \A i \in 1..Len(pattern) + 1 : M[i] = Row(pattern, text, i, M)
    BY <1>0, MatchesAre
  <1>3. "%" # Escape /\ "_" # Escape /\ "_" # "%"
    BY DEF Escape
  <1> HIDE DEF M
  <1>4. M[o + e[n] + 1] = Stands(n)
    <2>1. Len(pattern) + 1 \in 1..Len(pattern) + 1 /\ Len(pattern) \in 1..Len(pattern) + 1
      BY <1>0
    <2>2. M[Len(pattern) + 1] = {l + 1}
      <3>1. Len(pattern) + 1 > Len(pattern)
        BY <1>0
      <3>2. Row(pattern, text, Len(pattern) + 1, M) = {l + 1}
        BY <3>1 DEF Row
      <3>3. QED BY <1>2, <2>1, <3>2
    <2>3. Row(pattern, text, Len(pattern), M) =
            {j \in 1..l + 1 : \E k \in M[Len(pattern) + 1] : j <= k}
      <3>1. ~(Len(pattern) > Len(pattern))
        BY <1>0
      <3>2. QED BY <1>0, <1>3, <3>1 DEF Row
    <2>4. M[Len(pattern)] = {j \in 1..l + 1 : j <= l + 1}
      BY <1>2, <2>1, <2>2, <2>3
    <2>5. o + e[n] + 1 = Len(pattern)
      BY <1>0, <1>1
    <2>6. Stands(n) = 1..l + 1
      BY <1>0
    <2>7. QED BY <1>0, <2>4, <2>5, <2>6
  <1>5. ASSUME NEW i \in 1..n, M[o + e[i] + 1] = Stands(i)
        PROVE  M[o + e[i - 1] + 1] = Stands(i - 1)
    <2> DEFINE next == {j \in 1..l : Fold(t[i]) = Fold(text[j]) /\ j + 1 \in Stands(i)}
    <2>0. i - 1 \in 0..n /\ i \in 0..n
      BY <1>0
    <2>1. e[i] \in 0..m /\ e[i - 1] \in 0..m
      BY <1>1, <2>0
    <2>2. /\ e[i] = e[i - 1] + (IF t[i] \in Special THEN 2 ELSE 1)
          /\ p[e[i]] = t[i]
          /\ t[i] \in Special => p[e[i] - 1] = Escape
      BY <1>1
    <2>3. \A x, y \in 0..m :
            /\ x = y + 1 => /\ x \in 1..m /\ o + x = o + y + 1
                            /\ o + y + 1 \in 1..Len(pattern) + 1
                            /\ o + y + 1 < Len(pattern)
                            /\ (o + y + 1) + 1 = o + x + 1
            /\ x = y + 2 => /\ x \in 1..m /\ x - 1 \in 1..m
                            /\ o + x = (o + y + 1) + 1 /\ o + (x - 1) = o + y + 1
                            /\ o + y + 1 \in 1..Len(pattern) + 1
                            /\ o + y + 1 < Len(pattern)
                            /\ (o + y + 1) + 2 = o + x + 1
      BY <1>0
    <2>4. M[o + e[i - 1] + 1] = next
      <3> DEFINE a == o + e[i - 1] + 1
      <3>1. CASE t[i] \in Special
        <4>1. e[i] = e[i - 1] + 2
          BY <2>2, <3>1
        <4>2. /\ e[i] \in 1..m /\ e[i] - 1 \in 1..m
              /\ o + e[i] = a + 1 /\ o + (e[i] - 1) = a
              /\ a \in 1..Len(pattern) + 1 /\ a < Len(pattern)
              /\ a + 2 = o + e[i] + 1
          BY <2>1, <2>3, <4>1
        <4>3. pattern[a] = Escape /\ pattern[a + 1] = t[i]
          BY <1>0, <2>2, <3>1, <4>2
        <4> HIDE DEF a
        <4>4. ~(a > Len(pattern))
          BY <1>0, <4>2
        <4>5. Row(pattern, text, a, M) =
                {j \in 1..l : /\ a < Len(pattern)
                              /\ Fold(pattern[a + 1]) = Fold(text[j])
                              /\ j + 1 \in M[a + 2]}
          BY <1>3, <4>3, <4>4 DEF Row
        <4>6. M[a] = next
          BY <1>2, <1>5, <4>2, <4>3, <4>5
        <4>7. QED BY <4>6 DEF a
      <3>2. CASE t[i] \notin Special
        <4>1. e[i] = e[i - 1] + 1
          BY <2>2, <3>2
        <4>2. /\ e[i] \in 1..m /\ o + e[i] = a
              /\ a \in 1..Len(pattern) + 1 /\ a < Len(pattern)
              /\ a + 1 = o + e[i] + 1
          BY <2>1, <2>3, <4>1
        <4>3. pattern[a] = t[i]
          BY <1>0, <2>2, <4>2
        <4> HIDE DEF a
        <4>4. ~(a > Len(pattern))
          BY <1>0, <4>2
        <4>5. pattern[a] # "%" /\ pattern[a] # "_" /\ pattern[a] # Escape
          BY <3>2, <4>3 DEF Special, Wildcards
        <4>6. Row(pattern, text, a, M) =
                {j \in 1..l : Fold(pattern[a]) = Fold(text[j]) /\ j + 1 \in M[a + 1]}
          BY <4>4, <4>5 DEF Row
        <4>7. M[a] = next
          BY <1>2, <1>5, <4>2, <4>3, <4>6
        <4>8. QED BY <4>7 DEF a
      <3>3. QED BY <3>1, <3>2
    <2>5. Stands(i - 1) = next
      <3>1. \A j \in 1..l + 1 : j + n <= l + 1 + (i - 1) => j \in 1..l
        BY <1>0
      <3>2. ASSUME NEW j \in 1..l PROVE j \in Stands(i - 1) <=> j \in next
        <4>1. /\ j \in 1..l + 1 /\ j + 1 \in 1..l + 1
              /\ j + n <= l + 1 + (i - 1) <=> (j + 1) + n <= l + 1 + i
          BY <1>0
        <4>2. \A k \in i..n : j + k - (i - 1) - 1 = j + k - i
          BY <1>0
        <4>3. \A k \in i + 1..n : (j + 1) + k - i - 1 = j + k - i
          BY <1>0
        <4>4. (i - 1) + 1 = i /\ j + i - i = j
          BY <1>0
        <4>5. j \in Stands(i - 1) <=>
                /\ j + n <= l + 1 + (i - 1)
                /\ \A k \in i..n : Fold(t[k]) = Fold(text[j + k - i])
          BY <4>1, <4>2, <4>4
        <4>6. j + 1 \in Stands(i) <=>
                /\ (j + 1) + n <= l + 1 + i
                /\ \A k \in i + 1..n : Fold(t[k]) = Fold(text[j + k - i])
          BY <4>1, <4>3
        <4>7. (\A k \in i..n : Fold(t[k]) = Fold(text[j + k - i])) <=>
                /\ Fold(t[i]) = Fold(text[j])
                /\ \A k \in i + 1..n : Fold(t[k]) = Fold(text[j + k - i])
          <5>1. i..n = {i} \cup (i + 1..n)
            BY <1>0
          <5>2. QED BY <4>4, <5>1
        <4> HIDE DEF Stands
        <4>8. QED BY <4>1, <4>5, <4>6, <4>7
      <3>3. \A j \in Stands(i - 1) : j \in 1..l
        BY <3>1
      <3>4. \A j \in next : j \in 1..l
        OBVIOUS
      <3> HIDE DEF Stands, next
      <3>5. QED BY <3>2, <3>3, <3>4
    <2>6. QED BY <2>4, <2>5
  <1>6. M[o + e[0] + 1] = Stands(0)
    <2> DEFINE P == {k \in 0..n : M[o + e[n - k] + 1] = Stands(n - k)}
    <2>1. 0 \in P
      <3>1. n - 0 = n
        BY <1>0
      <3>2. QED BY <1>0, <1>4, <3>1
    <2>2. ASSUME NEW k \in 0..n - 1, k \in P PROVE k + 1 \in P
      <3>1. n - k \in 1..n /\ (n - k) - 1 = n - (k + 1) /\ k + 1 \in 0..n
        BY <1>0
      <3>2. M[o + e[n - k] + 1] = Stands(n - k)
        BY <2>2
      <3> HIDE DEF Stands
      <3>3. M[o + e[(n - k) - 1] + 1] = Stands((n - k) - 1)
        BY <1>5, <3>1, <3>2
      <3>4. QED BY <3>1, <3>3
    <2>3. n \in P
      <3> HIDE DEF P, n
      <3>1. \A k \in 0..n : k \in P
        BY <1>0, <2>1, <2>2, Counting
      <3>2. QED BY <1>0, <3>1
    <2>4. n - n = 0
      BY <1>0
    <2>5. QED BY <2>3, <2>4
  <1>7. o + e[0] + 1 = o + 1
    BY <1>0, <1>1
  <1>8. Stands(0) = {j \in 1..l + 1 : StandsAt(t, text, j - 1)}
    <2>1. ASSUME NEW j \in 1..l + 1
          PROVE  StandsAt(t, text, j - 1) <=>
                   /\ j + n <= l + 1 + 0
                   /\ \A k \in 0 + 1..n : Fold(t[k]) = Fold(text[j + k - 0 - 1])
      <3>1. (j - 1) + n <= l <=> j + n <= l + 1 + 0
        BY <1>0
      <3>2. \A k \in 1..n : (j - 1) + k = j + k - 0 - 1
        BY <1>0
      <3>3. DOMAIN t = 1..n /\ 0 + 1..n = 1..n
        BY <1>0
      <3>4. QED BY <3>1, <3>2, <3>3 DEF StandsAt
    <2>2. QED BY <2>1
  <1>9. QED BY <1>6, <1>7, <1>8 DEF M

LEMMA OneChar ==
  ASSUME NEW c \in Chars
  PROVE  <<c>> \in Seq(Chars)
  OBVIOUS

LEMMA PrefixedMeans ==
  ASSUME NEW t \in Seq(Chars), NEW text \in Seq(Chars)
  PROVE  Prefixed(t, text) <=> StandsAt(t, text, 0)
  <1> DEFINE p == EscapeLike(t)
             pattern == p \o <<"%">>
  <1>1. p \in Seq(Chars) /\ Encodes(p, t, Special)
    BY EscapeLikeEncodes
  <1>2. <<"%">> \in Seq(Chars)
    BY OneChar DEF Chars, Wildcards
  <1> HIDE DEF p
  <1>3. pattern \in Seq(Chars) /\ Holds(pattern, 0, p)
    BY <1>1, <1>2 DEF Holds
  <1>4. Prefixed(t, text) = (1 \in Matches(pattern, text)[1])
    BY DEF Prefixed, Like, p
  <1> HIDE DEF pattern
  <1>5. Matches(pattern, text)[0 + 1] =
          {j \in 1..Len(text) + 1 : StandsAt(t, text, j - 1)}
    BY <1>1, <1>3, PatternMatches
  <1>6. 1 \in 1..Len(text) + 1 /\ 0 + 1 = 1 /\ 1 - 1 = 0
    OBVIOUS
  <1>7. QED BY <1>4, <1>5, <1>6

LEMMA LikeMeans ==
  ASSUME NEW t \in Seq(Chars), NEW text \in Seq(Chars)
  PROVE  Like(<<"%">> \o EscapeLike(t) \o <<"%">>, text) <=> StandsIn(t, text)
  <1> DEFINE p == EscapeLike(t)
             pattern == <<"%">> \o p \o <<"%">>
             M == Matches(pattern, text)
  <1>1. p \in Seq(Chars) /\ Encodes(p, t, Special)
    BY EscapeLikeEncodes
  <1>2. <<"%">> \in Seq(Chars)
    BY OneChar DEF Chars, Wildcards
  <1> HIDE DEF p
  <1>3. pattern \in Seq(Chars) /\ Holds(pattern, 1, p) /\ pattern[1] = "%"
    BY <1>1, <1>2 DEF Holds
  <1>4. Like(<<"%">> \o EscapeLike(t) \o <<"%">>, text) = (1 \in M[1])
    BY DEF Like, p
  <1>5. Len(pattern) \in Nat /\ ~(1 > Len(pattern)) /\ 1 \in 1..Len(pattern) + 1
    <2> HIDE DEF pattern
    <2>1. Len(p) \in Nat
      BY <1>1
    <2>2. QED BY <1>3, <2>1 DEF Holds
  <1> HIDE DEF pattern
  <1>6. M[1 + 1] = {j \in 1..Len(text) + 1 : StandsAt(t, text, j - 1)}
    <2>1. PICK o : o = 1
      OBVIOUS
    <2>2. Holds(pattern, o, p)
      BY <1>3, <2>1
    <2>3. Matches(pattern, text)[o + 1] =
            {j \in 1..Len(text) + 1 : StandsAt(t, text, j - 1)}
      BY <1>1, <1>3, <2>2, PatternMatches
    <2>4. QED BY <2>1, <2>3
  <1>7. M[1] = {j \in 1..Len(text) + 1 : \E k \in M[1 + 1] : j <= k}
    <2>1. M[1] = Row(pattern, text, 1, M)
      BY <1>5, MatchesAre
    <2> HIDE DEF M
    <2>2. /\ pattern[1] = "%" /\ ~(1 > Len(pattern))
          /\ "%" # Escape /\ "_" # Escape /\ "_" # "%"
      BY <1>3, <1>5 DEF Escape
    <2>3. Row(pattern, text, 1, M) = {j \in 1..Len(text) + 1 : \E k \in M[1 + 1] : j <= k}
      BY <2>2 DEF Row
    <2>4. QED BY <2>1, <2>3
  <1> HIDE DEF M
  <1>8. Len(text) \in Nat
    OBVIOUS
  <1>9. (1 \in M[1]) <=> \E k \in 1..Len(text) + 1 : StandsAt(t, text, k - 1)
    BY <1>6, <1>7, <1>8
  <1>10. (\E k \in 1..Len(text) + 1 : StandsAt(t, text, k - 1)) <=> StandsIn(t, text)
    <2>1. ASSUME NEW k \in 1..Len(text) + 1, StandsAt(t, text, k - 1)
          PROVE  StandsIn(t, text)
      <3>1. k - 1 \in 0..Len(text)
        BY <1>8
      <3>2. QED BY <2>1, <3>1 DEF StandsIn
    <2>2. ASSUME NEW k \in 0..Len(text), StandsAt(t, text, k)
          PROVE  \E x \in 1..Len(text) + 1 : StandsAt(t, text, x - 1)
      <3>1. k + 1 \in 1..Len(text) + 1 /\ (k + 1) - 1 = k
        BY <1>8
      <3>2. QED BY <2>2, <3>1
    <2>3. QED BY <2>1, <2>2 DEF StandsIn
  <1>11. QED BY <1>4, <1>9, <1>10

LEMMA SearchOnTables == TablesInv => SearchIsLiteral
  <1> SUFFICES ASSUME TablesInv, NEW t \in Terms
               PROVE  /\ Selected([Everything EXCEPT !.q = t]) =
                           {j \in DOMAIN jobs : \/ StandsIn(t, jobs[j].title)
                                                \/ StandsIn(t, jobs[j].company)}
                      /\ Selected([Everything EXCEPT !.company = t]) =
                           {j \in DOMAIN jobs : StandsAt(t, jobs[j].company, 0)}
    BY DEF SearchIsLiteral
  <1>1. t \in Seq(Chars) /\ t # Unset
    BY TermsAssumption, NullsAssumption
  <1>2. \A j \in DOMAIN jobs : jobs[j].title \in Seq(Chars) /\ jobs[j].company \in Seq(Chars)
    BY Rows, RowsAssumption
  <1>3. ASSUME NEW title \in Seq(Chars), NEW company \in Seq(Chars)
        PROVE  /\ (Found(t, title, company) = TRUE)
                    <=> StandsIn(t, title) \/ StandsIn(t, company)
               /\ (Prefixed(t, company) = TRUE) <=> StandsAt(t, company, 0)
    <2> DEFINE pattern == <<"%">> \o EscapeLike(t) \o <<"%">>
    <2>1. Found(t, title, company) = (Like(pattern, title) \/ Like(pattern, company))
      BY DEF Found
    <2>2. /\ Like(pattern, title) <=> StandsIn(t, title)
          /\ Like(pattern, company) <=> StandsIn(t, company)
      BY <1>1, LikeMeans
    <2> HIDE DEF pattern
    <2>3. Prefixed(t, company) <=> StandsAt(t, company, 0)
      BY <1>1, PrefixedMeans
    <2>4. Prefixed(t, company) \in BOOLEAN
      BY DEF Prefixed, Like
    <2>5. QED BY <2>1, <2>2, <2>3, <2>4
  <1> DEFINE q1 == [Everything EXCEPT !.q = t]
             q2 == [Everything EXCEPT !.company = t]
  <1>4. /\ q1.table = "jobs" /\ q1.q = t /\ q1.company = Unset /\ q1.source = Unset
        /\ q1.remote = Unset /\ q1.after = Unset /\ q1.before = Unset
        /\ q1.least = Unset /\ q1.most = Unset
        /\ q2.table = "jobs" /\ q2.q = Unset /\ q2.company = t /\ q2.source = Unset
        /\ q2.remote = Unset /\ q2.after = Unset /\ q2.before = Unset
        /\ q2.least = Unset /\ q2.most = Unset
    BY DEF Everything
  <1> HIDE DEF q1, q2
  <1>5. ASSUME NEW j \in DOMAIN jobs
        PROVE  /\ Clauses(q1, jobs[j]) \subseteq {TRUE} <=>
                    StandsIn(t, jobs[j].title) \/ StandsIn(t, jobs[j].company)
               /\ Clauses(q2, jobs[j]) \subseteq {TRUE} <=> StandsAt(t, jobs[j].company, 0)
    <2>0. PICK row : row = jobs[j]
      OBVIOUS
    <2>1. Clauses(q1, row) \subseteq {TRUE} <=> Found(t, row.title, row.company) = TRUE
      <3>1. Clauses(q1, row) \subseteq {TRUE} <=>
              /\ q1.q # Unset => Found(q1.q, row.title, row.company) = TRUE
              /\ q1.company # Unset => Prefixed(q1.company, row.company) = TRUE
              /\ q1.source # Unset => (row.source = q1.source) = TRUE
              /\ q1.remote # Unset => RemoteIs(row.remote, q1.remote) = TRUE
              /\ q1.after # Unset => AtLeast(row.posted, q1.after) = TRUE
              /\ q1.before # Unset => AtMost(row.posted, q1.before) = TRUE
              /\ q1.least # Unset => AtLeast(row.low, q1.least) = TRUE
              /\ q1.most # Unset => AtMost(row.high, q1.most) = TRUE
        BY ClausesHold
      <3>2. QED BY <1>1, <1>4, <3>1
    <2>2. Clauses(q2, row) \subseteq {TRUE} <=> Prefixed(t, row.company) = TRUE
      <3>1. Clauses(q2, row) \subseteq {TRUE} <=>
              /\ q2.q # Unset => Found(q2.q, row.title, row.company) = TRUE
              /\ q2.company # Unset => Prefixed(q2.company, row.company) = TRUE
              /\ q2.source # Unset => (row.source = q2.source) = TRUE
              /\ q2.remote # Unset => RemoteIs(row.remote, q2.remote) = TRUE
              /\ q2.after # Unset => AtLeast(row.posted, q2.after) = TRUE
              /\ q2.before # Unset => AtMost(row.posted, q2.before) = TRUE
              /\ q2.least # Unset => AtLeast(row.low, q2.least) = TRUE
              /\ q2.most # Unset => AtMost(row.high, q2.most) = TRUE
        BY ClausesHold
      <3>2. QED BY <1>1, <1>4, <3>1
    <2>3. QED BY <1>2, <1>3, <2>0, <2>1, <2>2
  <1>6. /\ Selected(q1) = {j \in DOMAIN jobs : Clauses(q1, jobs[j]) \subseteq {TRUE}}
        /\ Selected(q2) = {j \in DOMAIN jobs : Clauses(q2, jobs[j]) \subseteq {TRUE}}
    BY <1>4 DEF Selected
  <1>7. QED BY <1>5, <1>6 DEF q1, q2

-----------------------------------------------------------------------------

\* A search finds a row exactly when the term, its %, _ and \ taken as plain
\* characters, stands in the row's texts: for every alphabet, term and text.
THEOREM SearchAlwaysLiteral == Spec => []SearchIsLiteral
  <1>1. QED BY TablesAlways, SearchOnTables, PTL

\* Both bounds of a date range are inclusive and undated rows are in none: the rows
\* up to a date, those after it and those without one are all rows, in every table.
\* The ranges the service refuses would select nothing, or nothing that makes sense.
THEOREM RangesAlwaysSplit == Spec => []RangesSplitDated
  <1>1. QED BY TablesAlways, RangesOnTables, PTL

\* GET /sources has one entry per source with jobs, with the total of its jobs and
\* the run that was started last.
THEOREM SourcesAlwaysOnce == Spec => []SourcesOncePerSource
  <1>1. QED BY TablesAlways, SourcesOnTables, PTL

\* The numbers of GET /stats agree with one another, with the totals of GET /jobs
\* and with GET /sources.
THEOREM StatsAlwaysAgree == Spec => []StatsAgree
  <1>1. QED BY TablesAlways, StatsOnTables, PTL

\* While the scraper only adds rows, no client loses one that was there when it
\* began, in any order and with any page size.
THEOREM InsertsNeverLose == Spec => []InsertsLoseNothing
  <1>1. WalkInv => InsertsLoseNothing
    BY DEF WalkInv, Kept, InsertsLoseNothing, Done
  <1>2. QED BY <1>1, WalkAlways, PTL

\* Tables that stand still are given row by row, each exactly once, in any order.
THEOREM WalksAreExact == Spec => []WalkIsExact
  <1>1. ASSUME WalkInv, Done, world = "still" PROVE NoneDoubled /\ ToSet(got) = first
    <2>1. /\ \A x \in DOMAIN got : got[x] \in Selected(query) /\ Rank(query, got[x]) = x - 1
          /\ first = Selected(query) /\ first \subseteq ToSet(got)
      BY <1>1 DEF WalkInv, Exact, Kept, Done
    <2>2. DOMAIN got \subseteq Int
      BY <1>1 DEF WalkInv
    <2>3. QED BY <2>1, <2>2 DEF NoneDoubled, ToSet
  <1>2. WalkInv => WalkIsExact
    BY <1>1 DEF WalkIsExact
  <1>3. QED BY <1>2, WalkAlways, PTL

\* A row that comes before another has the smaller rank.
LEMMA RanksFollowOrder ==
  ASSUME TablesInv, NEW q \in Queries, NEW i \in Selected(q), NEW j \in Selected(q),
         Before(q, i, j)
  PROVE  Rank(q, i) < Rank(q, j)
  <1>1. Earlier(q, i) \subseteq Earlier(q, j)
    BY BeforeIsOrder DEF Earlier
  <1>2. i \in Earlier(q, j) /\ i \notin Earlier(q, i)
    BY BeforeIsOrder DEF Earlier
  <1>3. IsFiniteSet(Earlier(q, j)) /\ Earlier(q, i) # Earlier(q, j)
    BY <1>2, RankIsNat
  <1> DEFINE S == Earlier(q, j)
             T == Earlier(q, i)
  <1>4. Cardinality(T) \in Nat /\ Cardinality(S) \in Nat
    BY RankIsNat DEF Rank
  <1> HIDE DEF S, T
  <1>5. Cardinality(T) <= Cardinality(S) /\ Cardinality(S) # Cardinality(T)
    BY <1>1, <1>3, FS_Subset DEF S, T
  <1>6. QED BY <1>4, <1>5 DEF Rank, S, T

\* What the client of a table that stands still has received, in the order it came.
WalkInOrder ==
  query # None /\ world = "still" =>
    \A x, y \in DOMAIN got : x < y => Before(query, got[x], got[y])

\* Across the borders of pages too, rows come in the order the client asked for, and
\* rows that tie on the column in the order of their ids.
THEOREM WalksInOrder == Spec => []WalkInOrder
  <1>1. ASSUME TablesInv, WalkInv, query # None, world = "still",
               NEW x \in DOMAIN got, NEW y \in DOMAIN got, x < y
        PROVE  Before(query, got[x], got[y])
    <2>0. query \in Queries /\ x \in Int /\ y \in Int
      BY <1>1 DEF WalkInv
    <2>1. /\ got[x] \in Selected(query) /\ Rank(query, got[x]) = x - 1
          /\ got[y] \in Selected(query) /\ Rank(query, got[y]) = y - 1
      <3>1. \A z \in DOMAIN got : got[z] \in Selected(query) /\ Rank(query, got[z]) = z - 1
        BY <1>1 DEF WalkInv, Exact
      <3>2. QED BY <1>1, <3>1
    <2>2. got[x] # got[y]
      BY <1>1, <2>0, <2>1
    <2>3. ~Before(query, got[y], got[x])
      <3>1. SUFFICES ASSUME Before(query, got[y], got[x]) PROVE FALSE
        OBVIOUS
      <3>2. Rank(query, got[y]) < Rank(query, got[x])
        BY <1>1, <2>0, <2>1, <3>1, RanksFollowOrder
      <3>3. QED BY <1>1, <2>0, <2>1, <3>2
    <2>4. QED BY <1>1, <2>0, <2>1, <2>2, <2>3, BeforeIsOrder
  <1>2. TablesInv /\ WalkInv => WalkInOrder
    BY <1>1 DEF WalkInOrder
  <1>3. QED BY <1>2, TablesAlways, WalkAlways, PTL

\* In the order by id a client sees no row twice while rows are added, and receives
\* as many as it was told there are.
THEOREM IdOrderAppends == Spec => []IdOrderIsAppendOnly
  <1>1. ASSUME WalkInv, query # None, Appends, world # "changed"
        PROVE  NoneDoubled /\ (Done => Len(got) = answer.total)
    <2>1. /\ \A x \in DOMAIN got : Rank(query, got[x]) = x - 1
          /\ Done => Len(got) = answer.total
      BY <1>1 DEF WalkInv, Exact
    <2>2. DOMAIN got \subseteq Int
      BY <1>1 DEF WalkInv
    <2>3. QED BY <2>1, <2>2 DEF NoneDoubled
  <1>2. WalkInv => IdOrderIsAppendOnly
    BY <1>1 DEF IdOrderIsAppendOnly, Appends
  <1>3. QED BY <1>2, WalkAlways, PTL

=============================================================================
