--------------------------- MODULE Pipeline_proofs ---------------------------
(***************************************************************************)
(* Proofs about the request pipeline, for every number of requests in      *)
(* progress, every size of the thread pool, every set of inputs, and with  *)
(* or without a configured key.                                            *)
(***************************************************************************)
EXTENDS Pipeline, FiniteSetTheorems, SequenceTheorems, TLAPS

\* The steps that are plain defs, which run in a thread of the pool.
InThread == {"dependency", "handler", "commit"}

\* The steps after which there is nothing left to do but to answer.
Ending == {"raised", "caught", "respond", "sent"}

-----------------------------------------------------------------------------
(* The inductive invariant                                                  *)

\* What each variable holds, as a function of the requests.
Shaped ==
  /\ pc \in [Slots -> Steps]
  /\ input \in [Slots -> Inputs \cup {None}]
  /\ todo \in [Slots -> Seq({"key", "open_app", "open_jobs"})]
  /\ conns \in [Slots -> SUBSET {"app", "jobs"}]
  /\ lock \in Slots \cup {None}
  /\ raised \in [Slots -> Exceptions \cup {None}]
  /\ code \in [Slots -> Codes \cup {None}]
  /\ context \in [Slots -> Slots \cup {None}]
  /\ answer \in [Slots -> Answer \cup {None}]
  /\ log \in [Slots -> SUBSET Line]

\* Who waits for a thread, and who holds one.
Pooled ==
  /\ queue \in Seq(Slots) /\ IsInjective(queue)
  /\ pool \in SUBSET Slots /\ IsFiniteSet(pool) /\ Cardinality(pool) <= Threads
  /\ pool \cap Range(queue) = {}
  /\ \A r \in Slots : r \in pool \cup Range(queue) <=> pc[r] \in InThread

\* Nothing forbids the request to see data.
Admitted(r) == KeyIsSet /\ input[r].route \in Guarded => input[r].key = "valid"

\* What is left of the dependencies: the key comes first, app.db second, jobs.db last.
KeyFirst  == {<<"key", "open_app", "open_jobs">>, <<"key", "open_app">>}
AppFirst  == {<<"open_app", "open_jobs">>, <<"open_app">>}
AppSolved == {<<"open_jobs">>, <<>>}

\* Where a request is with its dependencies, by what is left of them.
Due(r, deps, open) ==
  \/ deps \in KeyFirst /\ open = {}
  \/ deps \in AppFirst /\ Admitted(r)
  \/ deps \in AppSolved /\ Admitted(r) /\ (input[r].route \in UsesApp => "app" \in open)

\* On the way in.
WayIn(r) ==
  /\ input[r] = None <=> pc[r] = "idle"
  /\ pc[r] \in {"idle", "received", "caught"} => conns[r] = {}
  /\ pc[r] = "dependency" => todo[r] # <<>> /\ Due(r, todo[r], conns[r])
  /\ pc[r] \in {"validate", "handler", "commit"} => Due(r, <<>>, conns[r])
  /\ pc[r] = "commit" => r \in pool /\ input[r].route \in Writes
  /\ lock = r => pc[r] \in {"commit", "raised"} /\ "app" \in conns[r]

\* What was raised, and why.
Failed(r) ==
  /\ pc[r] \notin Ending => raised[r] = None /\ code[r] = None
  /\ pc[r] \in {"raised", "caught"} => raised[r] # None
  /\ pc[r] \in {"respond", "sent"} /\ raised[r] # None => conns[r] = {}
  /\ code[r] = "busy" <=> Effective(r) = "DatabaseUnavailable"
  /\ code[r] = "readonly_rollback" <=> Effective(r) = "DatabaseWedged"
  /\ pc[r] \in Ending /\ ~Admitted(r) =>
       /\ conns[r] = {}
       /\ \/ raised[r] = "ApiKeyRequired"
          \/ raised[r] = "RequestValidationError" /\ input[r].body = "malformed"
          \/ raised[r] = "Exception" /\ input[r].key = "not_ascii"

\* On the way out: the answer is that of what was raised, and the log knows it.
WayOut(r) ==
  /\ pc[r] \notin {"respond", "sent"} => answer[r] = None /\ log[r] = {}
  /\ \A l \in log[r] : l.id = r
  /\ pc[r] \in {"respond", "sent"} =>
       /\ answer[r] \in Answer
       /\ raised[r] = None => answer[r].status = 200 /\ answer[r].retry = FALSE
       /\ raised[r] # None => LET p == Registered(r, Effective(r)) IN
            /\ answer[r].status = p.status /\ answer[r].retry = p.retry
            /\ answer[r].id = r
       /\ answer[r].status = 500 => \E l \in log[r] : l.kind = "unhandled"
  /\ pc[r] = "respond" => raised[r] # "Exception"
  /\ pc[r] = "sent" /\ raised[r] # "Exception" =>
       /\ answer[r].tagged
       /\ \E l \in log[r] : l.kind = "access" /\ l.status = answer[r].status

Own(r) == WayIn(r) /\ Failed(r) /\ WayOut(r)

PipeInv == Shaped /\ Pooled /\ \A r \in Slots : Own(r)

-----------------------------------------------------------------------------
(* The queue                                                                *)

\* A request that did not wait joins the end of the queue.
LEMMA LastJoins ==
  ASSUME queue \in Seq(Slots), IsInjective(queue), NEW r \in Slots, r \notin Range(queue)
  PROVE  /\ Append(queue, r) \in Seq(Slots) /\ IsInjective(Append(queue, r))
         /\ Range(Append(queue, r)) = Range(queue) \cup {r}
  <1> DEFINE q == Append(queue, r)
             n == Len(queue)
  <1>1. /\ q \in Seq(Slots) /\ n \in Nat /\ Len(q) = n + 1 /\ q[n + 1] = r
        /\ DOMAIN queue = 1..n /\ DOMAIN q = 1..(n + 1)
        /\ \A i \in 1..n : q[i] = queue[i]
    OBVIOUS
  <1>2. \A i \in 1..n : queue[i] \in Range(queue)
    BY <1>1 DEF Range
  <1>3. \A i \in 1..(n + 1) : i \in 1..n \/ i = n + 1
    BY <1>1
  <1>4. IsInjective(q)
    <2> SUFFICES ASSUME NEW i \in 1..(n + 1), NEW k \in 1..(n + 1), q[i] = q[k]
                 PROVE  i = k
      BY <1>1 DEF IsInjective
    <2>1. CASE i \in 1..n /\ k \in 1..n
      <3>1. queue[i] = queue[k]
        BY <1>1, <2>1
      <3>2. QED BY <1>1, <2>1, <3>1 DEF IsInjective
    <2>2. CASE ~(i \in 1..n /\ k \in 1..n)
      BY <1>1, <1>2, <1>3, <2>2
    <2>3. QED BY <2>1, <2>2
  <1>5. Range(q) = Range(queue) \cup {r}
    <2>1. n + 1 \in DOMAIN q
      BY <1>1
    <2>2. Range(queue) \subseteq Range(q)
      BY <1>1 DEF Range
    <2>3. r \in Range(q)
      BY <1>1, <2>1 DEF Range
    <2>4. Range(q) \subseteq Range(queue) \cup {r}
      BY <1>1, <1>2, <1>3 DEF Range
    <2>5. QED BY <2>2, <2>3, <2>4
  <1>6. QED BY <1>1, <1>4, <1>5

\* The first of the queue leaves it, and was in it once.
LEMMA FirstLeaves ==
  ASSUME queue \in Seq(Slots), IsInjective(queue), queue # <<>>
  PROVE  /\ Tail(queue) \in Seq(Slots) /\ IsInjective(Tail(queue))
         /\ Head(queue) \in Slots /\ Head(queue) \in Range(queue)
         /\ Range(Tail(queue)) = Range(queue) \ {Head(queue)}
  <1> DEFINE q == Tail(queue)
             n == Len(queue)
  <1>1. /\ q \in Seq(Slots) /\ n \in Nat \ {0} /\ Len(q) = n - 1
        /\ DOMAIN queue = 1..n /\ DOMAIN q = 1..(n - 1)
        /\ \A i \in 1..(n - 1) : q[i] = queue[i + 1]
        /\ Head(queue) = queue[1]
    OBVIOUS
  <1>2. \A i \in 1..n, k \in 1..n : queue[i] = queue[k] => i = k
    BY <1>1 DEF IsInjective
  <1>3. IsInjective(q)
    <2> SUFFICES ASSUME NEW i \in 1..(n - 1), NEW k \in 1..(n - 1), q[i] = q[k]
                 PROVE  i = k
      BY <1>1 DEF IsInjective
    <2>1. i + 1 \in 1..n /\ k + 1 \in 1..n /\ queue[i + 1] = queue[k + 1]
      BY <1>1
    <2>2. i + 1 = k + 1
      BY <1>2, <2>1
    <2>3. QED BY <2>2
  <1>4. Range(queue) = {queue[i] : i \in 1..n} /\ Range(q) = {q[i] : i \in 1..(n - 1)}
    BY <1>1 DEF Range
  <1>5. ASSUME NEW x \in Range(queue), x # Head(queue) PROVE x \in Range(q)
    <2>1. PICK i \in 1..n : x = queue[i]
      BY <1>4
    <2>2. i - 1 \in 1..(n - 1) /\ q[i - 1] = x
      BY <1>1, <1>5, <2>1
    <2>3. QED BY <1>4, <2>2
  <1>6. ASSUME NEW x \in Range(q) PROVE x \in Range(queue) /\ x # Head(queue)
    <2>1. PICK i \in 1..(n - 1) : x = q[i]
      BY <1>4
    <2>2. i + 1 \in 1..n /\ x = queue[i + 1] /\ 1 \in 1..n /\ i + 1 # 1
      BY <1>1, <2>1
    <2>3. queue[i + 1] # queue[1]
      BY <1>2, <2>2
    <2>4. QED BY <1>1, <1>4, <2>2, <2>3
  <1>7. Head(queue) \in Slots /\ Head(queue) \in Range(queue)
    <2>1. 1 \in 1..n
      BY <1>1
    <2>2. QED BY <1>1, <1>4, <2>1
  <1>8. Range(q) = Range(queue) \ {Head(queue)}
    BY <1>5, <1>6
  <1>9. QED BY <1>1, <1>3, <1>7, <1>8

-----------------------------------------------------------------------------
(* The pool                                                                 *)

\* Taking a request out of the pool frees a thread or none.
LEMMA OneLess ==
  ASSUME Pooled, NEW r
  PROVE  IsFiniteSet(pool \ {r}) /\ Cardinality(pool \ {r}) <= Threads
  <1>1. IsFiniteSet(pool) /\ Cardinality(pool) \in Nat /\ Cardinality(pool) <= Threads
    BY FS_CardinalityType DEF Pooled
  <1>2. /\ IsFiniteSet(pool \ {r})
        /\ Cardinality(pool \ {r}) = IF r \in pool THEN Cardinality(pool) - 1
                                                   ELSE Cardinality(pool)
    BY <1>1, FS_RemoveElement
  <1>3. QED BY <1>1, <1>2, ThreadsAssumption

\* A request gives its thread back and queues for another one.
LEMMA SubmitPooled ==
  ASSUME Shaped, Pooled, NEW r \in Slots, r \notin Range(queue),
         NEW step \in {"dependency", "handler"}, Submit(r, step)
  PROVE  Pooled'
  <1>1. /\ queue' \in Seq(Slots) /\ IsInjective(queue')
        /\ Range(queue') = Range(queue) \cup {r}
    BY LastJoins DEF Submit, Pooled
  <1>2. pool' = pool \ {r} /\ pc' = [pc EXCEPT ![r] = step]
    BY DEF Submit, Goto
  <1>3. IsFiniteSet(pool') /\ Cardinality(pool') <= Threads
    BY <1>2, OneLess
  <1>4. QED BY <1>1, <1>2, <1>3 DEF Pooled, Shaped, InThread

\* A request gives its thread back, or had none, and goes on without one.
LEMMA LeavePooled ==
  ASSUME Shaped, Pooled, NEW r \in Slots, r \notin Range(queue),
         NEW step, step \notin InThread, Goto(r, step),
         pool' = pool \ {r}, queue' = queue
  PROVE  Pooled'
  <1>1. pc' = [pc EXCEPT ![r] = step]
    BY DEF Goto
  <1>2. IsFiniteSet(pool') /\ Cardinality(pool') <= Threads
    BY OneLess
  <1>3. QED BY <1>1, <1>2 DEF Pooled, Shaped

\* A step that is not taken for the pool: in a thread or out of it, before and after.
LEMMA StayPooled ==
  ASSUME Shaped, Pooled, NEW r \in Slots, NEW step, Goto(r, step),
         pc[r] \in InThread <=> step \in InThread, UNCHANGED <<queue, pool>>
  PROVE  Pooled'
  BY DEF Shaped, Pooled, Goto

\* A thread takes the first of the queue.
LEMMA StartPooled ==
  ASSUME Shaped, Pooled, StartJob
  PROVE  Pooled'
  <1> DEFINE h == Head(queue)
  <1>1. /\ Tail(queue) \in Seq(Slots) /\ IsInjective(Tail(queue))
        /\ h \in Slots /\ h \in Range(queue)
        /\ Range(Tail(queue)) = Range(queue) \ {h}
    BY FirstLeaves DEF Pooled, StartJob
  <1>2. pool' = pool \cup {h} /\ queue' = Tail(queue) /\ pc' = pc
    BY DEF StartJob
  <1>3. IsFiniteSet(pool') /\ Cardinality(pool') <= Threads
    <2>1. IsFiniteSet(pool) /\ Cardinality(pool) \in Nat /\ Cardinality(pool) < Threads
      BY FS_CardinalityType DEF Pooled, StartJob
    <2>2. /\ IsFiniteSet(pool \cup {h})
          /\ Cardinality(pool \cup {h}) = IF h \in pool THEN Cardinality(pool)
                                                        ELSE Cardinality(pool) + 1
      BY <2>1, FS_AddElement
    <2>3. QED BY <1>2, <2>1, <2>2, ThreadsAssumption
  <1>4. QED BY <1>1, <1>2, <1>3 DEF Pooled

-----------------------------------------------------------------------------
(* One request's step and the others                                        *)

\* A step of request r alone.
Alone(r) ==
  \A o \in Slots \ {r} :
    /\ pc'[o] = pc[o] /\ input'[o] = input[o] /\ todo'[o] = todo[o]
    /\ conns'[o] = conns[o] /\ raised'[o] = raised[o] /\ code'[o] = code[o]
    /\ answer'[o] = answer[o] /\ log'[o] = log[o]
    /\ o \in pool => o \in pool'
    /\ lock' = o => lock = o

\* It is enough to look at the request that takes the step.
LEMMA OwnStep ==
  ASSUME PipeInv, NEW r \in Slots, Alone(r), Shaped', Pooled', Own(r)'
  PROVE  PipeInv'
  <1>1. ASSUME NEW o \in Slots \ {r} PROVE Own(o)'
    <2>1. Own(o)
      BY DEF PipeInv
    <2>2. WayIn(o)'
      BY <2>1 DEF Own, WayIn, Due, Admitted, Alone
    <2>3. Effective(o)' = Effective(o)
      BY DEF Effective, Alone
    <2>4. Failed(o)'
      BY <2>1, <2>3 DEF Own, Failed, Admitted, Alone
    <2>5. WayOut(o)'
      BY <2>1, <2>3 DEF Own, WayOut, Alone
    <2>6. QED BY <2>2, <2>4, <2>5 DEF Own
  <1>2. QED BY <1>1 DEF PipeInv

\* Who holds a thread, or needs none, does not wait for one.
LEMMA NotWaiting ==
  ASSUME Pooled, NEW r \in Slots, r \in pool \/ pc[r] \notin InThread
  PROVE  r \notin Range(queue)
  BY DEF Pooled

\* The exceptions the program tells apart by SQLite's code fit that code.
Fits(e, c) ==
  LET effective == IF e = "sqlite3.Error" THEN Classify(c) ELSE e IN
  /\ c = "busy" <=> effective = "DatabaseUnavailable"
  /\ c = "readonly_rollback" <=> effective = "DatabaseWedged"

\* An exception of any step on the way in.  A request that may not see data raises
\* one of three, and has nothing open.
LEMMA RaiseKeeps ==
  ASSUME PipeInv, NEW r \in Slots, NEW e \in Exceptions, NEW c \in Codes \cup {None},
         Raise(r, e, c), lock' \in {lock, None}, Fits(e, c),
         pc[r] \in {"received", "validate"} \/ r \in pool,
         ~Admitted(r) =>
           /\ conns[r] = {}
           /\ \/ e = "ApiKeyRequired"
              \/ e = "RequestValidationError" /\ input[r].body = "malformed"
              \/ e = "Exception" /\ input[r].key = "not_ascii"
  PROVE  PipeInv'
  <1> USE NoneAssumption
  <1>0. Shaped /\ Pooled /\ Own(r)
    BY DEF PipeInv
  <1>1. /\ pc' = [pc EXCEPT ![r] = "raised"] /\ raised' = [raised EXCEPT ![r] = e]
        /\ code' = [code EXCEPT ![r] = c] /\ pool' = pool \ {r}
        /\ UNCHANGED <<input, todo, queue, conns, context, answer, log>>
        /\ Goto(r, "raised")
    BY DEF Raise, Goto
  <1>2. Shaped'
    BY <1>0, <1>1 DEF Shaped, Steps
  <1>3. pc[r] \in {"received", "validate", "dependency", "handler", "commit"}
    BY <1>0 DEF Pooled, InThread
  <1>4. Pooled'
    BY <1>0, <1>1, LeavePooled, NotWaiting DEF InThread
  <1>5. Alone(r)
    BY <1>0, <1>1 DEF Alone, Shaped
  <1>6. /\ pc'[r] = "raised" /\ raised'[r] = e /\ code'[r] = c
        /\ input'[r] = input[r] /\ conns'[r] = conns[r]
        /\ answer'[r] = answer[r] /\ log'[r] = log[r] /\ e # None
    BY <1>0, <1>1 DEF Shaped
  <1>7. WayIn(r)'
    BY <1>0, <1>3, <1>6 DEF Own, WayIn
  <1>8. Failed(r)'
    <2>1. Effective(r)' = IF e = "sqlite3.Error" THEN Classify(c) ELSE e
      BY <1>6 DEF Effective
    <2>2. Admitted(r)' = Admitted(r)
      BY <1>6 DEF Admitted
    <2>3. QED BY <1>6, <2>1, <2>2 DEF Failed, Fits, Ending
  <1>9. WayOut(r)'
    BY <1>0, <1>3, <1>6 DEF Own, WayOut
  <1>10. QED BY <1>2, <1>4, <1>5, <1>7, <1>8, <1>9, OwnStep DEF Own

-----------------------------------------------------------------------------
(* Dependencies                                                             *)

LEMMA TwoInOrder ==
  ASSUME NEW a, NEW b
  PROVE  <<a>> \o <<b>> = <<a, b>>
  <1> DEFINE s == <<a>> \o <<b>>
             t == <<a, b>>
  <1>1. s \in Seq({a, b}) /\ Len(s) = 2 /\ t \in Seq({a, b}) /\ Len(t) = 2
    OBVIOUS
  <1>2. s[1] = a /\ s[2] = b
    OBVIOUS
  <1>3. \A i \in 1..Len(s) : s[i] = t[i]
    BY <1>1, <1>2
  <1> HIDE DEF s, t
  <1>4. s = t
    BY <1>1, <1>3, SeqEqual
  <1>5. QED BY <1>4 DEF s, t

LEMMA ThreeInOrder ==
  ASSUME NEW a, NEW b, NEW c
  PROVE  (<<a>> \o <<b>>) \o <<c>> = <<a, b, c>>
  <1> DEFINE s == <<a, b>> \o <<c>>
             t == <<a, b, c>>
  <1>1. s \in Seq({a, b, c}) /\ Len(s) = 3 /\ t \in Seq({a, b, c}) /\ Len(t) = 3
    OBVIOUS
  <1>2. s[1] = a /\ s[2] = b /\ s[3] = c
    OBVIOUS
  <1>3. \A i \in 1..Len(s) : s[i] = t[i]
    BY <1>1, <1>2
  <1> HIDE DEF s, t
  <1>4. s = t
    BY <1>1, <1>3, SeqEqual
  <1>5. QED BY <1>4, TwoInOrder DEF s, t

\* The list a request starts with.
LEMMA FirstDue ==
  ASSUME NEW r, input[r] \in Input, input[r].route \notin {"no_route", "no_method"}
  PROVE  Due(r, Dependencies(input[r]), {})
  <1> DEFINE i == input[r]
  <1>1. CASE i.route \in {"items", "add"}
    <2>1. Dependencies(i) = <<"key", "open_app", "open_jobs">>
      BY <1>1, ThreeInOrder DEF Dependencies, If, Guarded, UsesApp, UsesJobs
    <2>2. QED BY <2>1 DEF Due, KeyFirst
  <1>2. CASE i.route \in {"lists", "write"}
    <2>1. Dependencies(i) = <<"key", "open_app">>
      <3>1. Dependencies(i) = (<<"key">> \o <<"open_app">>) \o <<>>
        BY <1>2 DEF Dependencies, If, Guarded, UsesApp, UsesJobs
      <3>2. <<"key", "open_app">> \o <<>> = <<"key", "open_app">>
        OBVIOUS
      <3>3. QED BY <3>1, <3>2, TwoInOrder
    <2>2. QED BY <2>1 DEF Due, KeyFirst
  <1>3. CASE i.route = "jobs"
    <2>1. Dependencies(i) = <<"open_jobs">> /\ Admitted(r)
      BY <1>3 DEF Dependencies, If, Guarded, UsesApp, UsesJobs, Admitted
    <2>2. QED BY <1>3, <2>1 DEF Due, AppSolved, UsesApp, Guarded
  <1>4. CASE i.route = "health"
    <2>1. Dependencies(i) = <<>> /\ Admitted(r)
      BY <1>4 DEF Dependencies, If, Guarded, UsesApp, UsesJobs, Admitted
    <2>2. QED BY <1>4, <2>1 DEF Due, AppSolved, UsesApp, Guarded
  <1>5. QED BY <1>1, <1>2, <1>3, <1>4 DEF Input, Routes

\* Nothing is open while the key is still to be looked at.
LEMMA KeyDue ==
  ASSUME NEW r, NEW deps, NEW open, Due(r, deps, open), deps # <<>>, Head(deps) = "key"
  PROVE  open = {} /\ (Admitted(r) => Due(r, Tail(deps), open))
  <1>1. deps \in KeyFirst /\ open = {}
    BY DEF Due, AppFirst, AppSolved
  <1>2. Tail(deps) \in AppFirst
    <2>1. CASE deps = <<"key", "open_app", "open_jobs">>
      BY <2>1 DEF AppFirst
    <2>2. CASE deps = <<"key", "open_app">>
      BY <2>2 DEF AppFirst
    <2>3. QED BY <1>1, <2>1, <2>2 DEF KeyFirst
  <1>3. QED BY <1>1, <1>2 DEF Due

LEMMA AppDue ==
  ASSUME NEW r, NEW deps, NEW open, Due(r, deps, open), deps # <<>>, Head(deps) = "open_app"
  PROVE  Admitted(r) /\ Due(r, Tail(deps), open \cup {"app"})
  <1>1. deps \in AppFirst /\ Admitted(r)
    BY DEF Due, KeyFirst, AppSolved
  <1>2. Tail(deps) \in AppSolved
    <2>1. CASE deps = <<"open_app", "open_jobs">>
      BY <2>1 DEF AppSolved
    <2>2. CASE deps = <<"open_app">>
      BY <2>2 DEF AppSolved
    <2>3. QED BY <1>1, <2>1, <2>2 DEF AppFirst
  <1>3. QED BY <1>1, <1>2 DEF Due

LEMMA JobsDue ==
  ASSUME NEW r, NEW deps, NEW open, Due(r, deps, open), deps # <<>>, Head(deps) = "open_jobs"
  PROVE  Admitted(r) /\ Due(r, Tail(deps), open \cup {"jobs"})
  <1>1. /\ deps \in AppSolved /\ Admitted(r)
        /\ input[r].route \in UsesApp => "app" \in open
    BY DEF Due, KeyFirst, AppFirst
  <1>2. deps = <<"open_jobs">>
    BY <1>1 DEF AppSolved
  <1>3. Tail(deps) \in AppSolved
    BY <1>2 DEF AppSolved
  <1>4. QED BY <1>1, <1>3 DEF Due

-----------------------------------------------------------------------------
(* The ways a step ends                                                     *)

\* What is left of the dependencies is a sequence of them.
LEMMA DueIsSeq ==
  ASSUME NEW r, NEW deps, NEW open, Due(r, deps, open)
  PROVE  deps \in Seq({"key", "open_app", "open_jobs"})
  <1>1. deps \in KeyFirst \cup AppFirst \cup AppSolved
    BY DEF Due
  <1> DEFINE S == {"key", "open_app", "open_jobs"}
  <1>2. <<"key", "open_app", "open_jobs">> \in Seq(S) /\ <<"key", "open_app">> \in Seq(S)
    OBVIOUS
  <1>3. <<"open_app", "open_jobs">> \in Seq(S) /\ <<"open_app">> \in Seq(S)
    OBVIOUS
  <1>4. <<"open_jobs">> \in Seq(S) /\ <<>> \in Seq(S)
    OBVIOUS
  <1>5. QED BY <1>1, <1>2, <1>3, <1>4, Zenon DEF KeyFirst, AppFirst, AppSolved

\* A dependency is solved, perhaps by a connection; the next one is due.
LEMMA SolveKeeps ==
  ASSUME PipeInv, NEW r \in Slots, NEW deps, NEW open \in SUBSET {"app", "jobs"},
         Solve(r, deps), conns' = [conns EXCEPT ![r] = open],
         UNCHANGED <<input, lock, raised, code, context, answer, log>>,
         pc[r] = "received" \/ (pc[r] = "dependency" /\ r \in pool),
         Due(r, deps, open)
  PROVE  PipeInv'
  <1> USE NoneAssumption
  <1>0. Shaped /\ Pooled /\ Own(r) /\ r \notin Range(queue)
    BY NotWaiting DEF PipeInv, InThread
  <1>1. todo' = [todo EXCEPT ![r] = deps]
    BY DEF Solve
  <1>2. PICK step \in {"dependency", "validate"} :
          /\ pc' = [pc EXCEPT ![r] = step] /\ pool' = pool \ {r}
          /\ step = "dependency" => deps # <<>> /\ Submit(r, "dependency")
          /\ step = "validate" => deps = <<>> /\ queue' = queue /\ Goto(r, "validate")
    BY DEF Solve, Submit, Goto
  <1>3. Shaped'
    BY <1>0, <1>1, <1>2, DueIsSeq DEF Shaped, Steps
  <1>4. Pooled'
    BY <1>0, <1>2, SubmitPooled, LeavePooled DEF InThread
  <1>5. Alone(r)
    BY <1>0, <1>1, <1>2 DEF Alone, Shaped
  <1>6. /\ pc'[r] = step /\ todo'[r] = deps /\ conns'[r] = open
        /\ UNCHANGED <<input[r], raised[r], code[r], answer[r], log[r]>>
    BY <1>0, <1>1, <1>2 DEF Shaped
  <1>7. WayIn(r)'
    <2>1. Due(r, deps, open)'
      BY <1>6 DEF Due, Admitted
    <2>2. QED BY <1>0, <1>2, <1>6, <2>1 DEF Own, WayIn
  <1>8. Failed(r)'
    <2>1. Effective(r)' = Effective(r)
      BY <1>6 DEF Effective
    <2>2. QED BY <1>0, <1>2, <1>6, <2>1 DEF Own, Failed, Ending
  <1>9. WayOut(r)'
    BY <1>0, <1>2, <1>6 DEF Own, WayOut
  <1>10. QED BY <1>3, <1>4, <1>5, <1>7, <1>8, <1>9, OwnStep DEF Own

\* Only the body of a problem carries the request's id.
LEMMA NoIdInBody ==
  ASSUME NEW p, NEW s, NEW c, NEW t, NEW i, NEW g, NEW n,
         p = [status |-> s, code |-> c, retry |-> t, id |-> i, tagged |-> g]
  PROVE  [p EXCEPT !.id = n] =
           [status |-> s, code |-> c, retry |-> t, id |-> n, tagged |-> g]
  OBVIOUS

\* The endpoint returns, and does not keep the lock.
LEMMA ReturnKeeps ==
  ASSUME PipeInv, NEW r \in Slots, Return(r), lock' # r, lock' \in {lock, None},
         pc[r] = "validate" \/ (pc[r] \in {"handler", "commit"} /\ r \in pool)
  PROVE  PipeInv'
  <1> USE NoneAssumption
  <1>0. Shaped /\ Pooled /\ Own(r) /\ r \notin Range(queue)
    BY NotWaiting DEF PipeInv, InThread
  <1> DEFINE a == [Problem(r, 200, None, FALSE) EXCEPT !.id = None]
  <1>1. /\ pc' = [pc EXCEPT ![r] = "respond"] /\ Goto(r, "respond")
        /\ pool' = pool \ {r} /\ answer' = [answer EXCEPT ![r] = a]
        /\ UNCHANGED <<input, todo, queue, conns, raised, code, context, log>>
    BY DEF Return, Goto
  <1>2. a \in Answer /\ a.status = 200 /\ a.retry = FALSE
    <2>1. a = [status |-> 200, code |-> None, retry |-> FALSE, id |-> None,
               tagged |-> FALSE]
      <3>1. PICK p : p = Problem(r, 200, None, FALSE)
        OBVIOUS
      <3>2. PICK i : i = RequestId(r)
        OBVIOUS
      <3>3. PICK s, t : s = 200 /\ t = FALSE
        OBVIOUS
      <3>4. p = [status |-> s, code |-> None, retry |-> t, id |-> i, tagged |-> t]
        BY <3>1, <3>2, <3>3 DEF Problem
      <3>5. [p EXCEPT !.id = None] =
              [status |-> s, code |-> None, retry |-> t, id |-> None, tagged |-> t]
        BY <3>4, NoIdInBody
      <3>6. QED BY <3>1, <3>3, <3>5
    <2> HIDE DEF a
    <2>2. QED BY <2>1 DEF Answer
  <1> HIDE DEF a
  <1>3. Shaped'
    BY <1>0, <1>1, <1>2 DEF Shaped, Steps
  <1>4. Pooled'
    BY <1>0, <1>1, LeavePooled DEF InThread
  <1>5. Alone(r)
    BY <1>0, <1>1 DEF Alone, Shaped
  <1>6. /\ pc'[r] = "respond" /\ answer'[r] = a
        /\ UNCHANGED <<input[r], conns[r], raised[r], code[r], log[r]>>
    BY <1>0, <1>1 DEF Shaped
  <1>7. WayIn(r)'
    BY <1>0, <1>6 DEF Own, WayIn
  <1>8. raised[r] = None /\ code[r] = None /\ Admitted(r)
    BY <1>0 DEF Own, Failed, WayIn, Due, KeyFirst, AppFirst, Ending
  <1>9. Failed(r)'
    <2>1. Effective(r)' = Effective(r) /\ Admitted(r)'
      BY <1>6, <1>8 DEF Effective, Admitted
    <2>2. QED BY <1>0, <1>6, <1>8, <2>1 DEF Own, Failed
  <1>10. WayOut(r)'
    BY <1>0, <1>2, <1>6, <1>8 DEF Own, WayOut, Exceptions
  <1>11. QED BY <1>3, <1>4, <1>5, <1>7, <1>9, <1>10, OwnStep DEF Own

-----------------------------------------------------------------------------
(* The actions on the way in                                                *)

\* Every exception the program raises fits the code behind it.
LEMMA RaisedFits ==
  /\ \A e \in Exceptions \ {"sqlite3.Error", "DatabaseUnavailable", "DatabaseWedged"} :
       Fits(e, None)
  /\ \A c \in Codes : /\ Fits("sqlite3.Error", c)
                      /\ Classify(c) \in Exceptions /\ Fits(Classify(c), c)
  BY NoneAssumption DEF Fits, Classify, Exceptions, Codes

\* What is known of a request in progress.
LEMMA InProgress ==
  ASSUME PipeInv, NEW r \in Slots, pc[r] # "idle"
  PROVE  /\ Shaped /\ Pooled /\ WayIn(r) /\ Failed(r) /\ WayOut(r)
         /\ input[r] \in Input
  BY InputsAssumption DEF PipeInv, Own, WayIn, Shaped

LEMMA ReceiveKeeps ==
  ASSUME PipeInv, NEW r \in Slots, Receive(r)
  PROVE  PipeInv'
  <1> USE NoneAssumption
  <1>0. Shaped /\ Pooled /\ Own(r) /\ pc[r] = "idle"
    BY DEF PipeInv, Receive
  <1>1. PICK i \in Inputs : input' = [input EXCEPT ![r] = i]
    BY DEF Receive
  <1>2. /\ pc' = [pc EXCEPT ![r] = "received"] /\ Goto(r, "received")
        /\ context' = [context EXCEPT ![r] = r]
        /\ UNCHANGED <<todo, queue, pool, conns, lock, raised, code, answer, log>>
    BY DEF Receive, Goto, RequestId
  <1>3. Shaped'
    BY <1>0, <1>1, <1>2 DEF Shaped, Steps
  <1>4. Pooled'
    BY <1>0, <1>2, StayPooled DEF InThread
  <1>5. Alone(r)
    BY <1>0, <1>1, <1>2 DEF Alone, Shaped
  <1>6. /\ pc'[r] = "received" /\ input'[r] \in Input
        /\ UNCHANGED <<conns[r], raised[r], code[r], answer[r], log[r]>>
    BY <1>0, <1>1, <1>2, InputsAssumption DEF Shaped
  <1>7. WayIn(r)'
    BY <1>0, <1>2, <1>6 DEF Own, WayIn
  <1>8. Failed(r)'
    BY <1>0, <1>6 DEF Own, Failed, Effective, Ending
  <1>9. WayOut(r)'
    BY <1>0, <1>6 DEF Own, WayOut
  <1>10. QED BY <1>3, <1>4, <1>5, <1>7, <1>8, <1>9, OwnStep DEF Own

LEMMA RouteKeeps ==
  ASSUME PipeInv, NEW r \in Slots, Route(r)
  PROVE  PipeInv'
  <1>0. pc[r] = "received" /\ lock' = lock
    BY DEF Route
  <1>1. Shaped /\ conns[r] = {} /\ input[r] \in Input
    BY <1>0, InProgress DEF WayIn
  <1>2. CASE input[r].route \in {"no_route", "no_method"}
             /\ (Raise(r, "HTTP404", None) \/ Raise(r, "HTTP405", None))
    <2>1. Admitted(r)
      BY <1>2 DEF Admitted, Guarded
    <2>2. QED BY <1>0, <1>2, <2>1, RaiseKeeps, RaisedFits DEF Exceptions
  <1>3. CASE input[r].body = "malformed" /\ Raise(r, "RequestValidationError", None)
    BY <1>0, <1>1, <1>3, RaiseKeeps, RaisedFits DEF Exceptions
  <1>4. CASE /\ input[r].route \notin {"no_route", "no_method"}
             /\ Solve(r, Dependencies(input[r]))
             /\ UNCHANGED <<input, conns, raised, code, context, answer, log>>
    <2>1. conns' = [conns EXCEPT ![r] = {}]
      BY <1>1, <1>4 DEF Shaped
    <2>2. QED BY <1>0, <1>1, <1>4, <2>1, FirstDue, SolveKeeps
  <1>5. QED BY <1>2, <1>3, <1>4 DEF Route

\* A dependency runs in a thread; the request has no lock, and one is due.
LEMMA SolvingDue ==
  ASSUME PipeInv, NEW r \in Slots, NEW d, Solving(r, d)
  PROVE  /\ pc[r] = "dependency" /\ r \in pool /\ todo[r] # <<>> /\ Head(todo[r]) = d
         /\ Due(r, todo[r], conns[r]) /\ conns[r] \in SUBSET {"app", "jobs"}
  BY InProgress DEF Solving, WayIn, Shaped

LEMMA RequireApiKeyKeeps ==
  ASSUME PipeInv, NEW r \in Slots, RequireApiKey(r)
  PROVE  PipeInv'
  <1> DEFINE key == IF KeyIsSet THEN input[r].key ELSE "valid"
  <1>0. Solving(r, "key") /\ lock' = lock
    BY DEF RequireApiKey
  <1>1. /\ Shaped /\ conns[r] = {} /\ input[r] \in Input
        /\ pc[r] = "dependency" /\ r \in pool
        /\ Admitted(r) => Due(r, Tail(todo[r]), {})
    BY <1>0, SolvingDue, KeyDue, InProgress
  <1>2. CASE key = "invalid" /\ Raise(r, "ApiKeyRequired", None)
    BY <1>0, <1>1, <1>2, RaiseKeeps, RaisedFits DEF Exceptions
  <1>3. CASE key = "not_ascii" /\ Raise(r, "Exception", None)
    <2>1. input[r].key = "not_ascii"
      BY <1>3
    <2>2. QED BY <1>0, <1>1, <1>3, <2>1, RaiseKeeps, RaisedFits DEF Exceptions
  <1>4. CASE /\ key = "valid" /\ Solve(r, Tail(todo[r]))
             /\ UNCHANGED <<input, conns, raised, code, context, answer, log>>
    <2>1. Admitted(r)
      BY <1>4 DEF Admitted
    <2>2. conns' = [conns EXCEPT ![r] = {}]
      BY <1>1, <1>4 DEF Shaped
    <2>3. QED BY <1>0, <1>1, <1>4, <2>1, <2>2, SolveKeeps
  <1>5. QED BY <1>2, <1>3, <1>4 DEF RequireApiKey

LEMMA GetAppConnKeeps ==
  ASSUME PipeInv, NEW r \in Slots, GetAppConn(r)
  PROVE  PipeInv'
  <1>0. Solving(r, "open_app") /\ lock' = lock
    BY DEF GetAppConn
  <1>1. /\ Shaped /\ pc[r] = "dependency" /\ r \in pool /\ Admitted(r)
        /\ Due(r, Tail(todo[r]), conns[r] \cup {"app"})
        /\ conns[r] \cup {"app"} \in SUBSET {"app", "jobs"}
    BY <1>0, SolvingDue, AppDue, InProgress
  <1>2. CASE Connected(r, "app")
    <2>1. /\ conns' = [conns EXCEPT ![r] = conns[r] \cup {"app"}]
          /\ Solve(r, Tail(todo[r]))
          /\ UNCHANGED <<input, raised, code, context, answer, log>>
      BY <1>2 DEF Connected
    <2>2. QED BY <1>0, <1>1, <2>1, SolveKeeps
  <1>3. ASSUME NEW c \in {"busy", "other"}, Raise(r, "sqlite3.Error", c)
        PROVE  PipeInv'
    BY <1>0, <1>1, <1>3, RaiseKeeps, RaisedFits DEF Exceptions, Codes
  <1>4. QED BY <1>2, <1>3 DEF GetAppConn

LEMMA GetConnKeeps ==
  ASSUME PipeInv, NEW r \in Slots, GetConn(r)
  PROVE  PipeInv'
  <1>0. Solving(r, "open_jobs") /\ lock' = lock
    BY DEF GetConn
  <1>1. /\ Shaped /\ pc[r] = "dependency" /\ r \in pool /\ Admitted(r)
        /\ Due(r, Tail(todo[r]), conns[r] \cup {"jobs"})
        /\ conns[r] \cup {"jobs"} \in SUBSET {"app", "jobs"}
    BY <1>0, SolvingDue, JobsDue, InProgress
  <1>2. CASE Connected(r, "jobs")
    <2>1. /\ conns' = [conns EXCEPT ![r] = conns[r] \cup {"jobs"}]
          /\ Solve(r, Tail(todo[r]))
          /\ UNCHANGED <<input, raised, code, context, answer, log>>
      BY <1>2 DEF Connected
    <2>2. QED BY <1>0, <1>1, <2>1, SolveKeeps
  <1>3. ASSUME NEW c \in Codes, Raise(r, Classify(c), c)
        PROVE  PipeInv'
    BY <1>0, <1>1, <1>3, RaiseKeeps, RaisedFits
  <1>4. QED BY <1>2, <1>3 DEF GetConn

-----------------------------------------------------------------------------
(* Validation and the handlers                                              *)

\* All dependencies are solved: the request may see data, and app.db is open if it
\* is needed.
LEMMA AllSolved ==
  ASSUME PipeInv, NEW r \in Slots, pc[r] \in {"validate", "handler", "commit"}
  PROVE  /\ Shaped /\ Pooled /\ Admitted(r) /\ input[r] \in Input
         /\ input[r].route \in UsesApp => "app" \in conns[r]
  <1>1. Due(r, <<>>, conns[r]) /\ Shaped /\ Pooled /\ input[r] \in Input
    BY InProgress DEF WayIn
  <1>2. <<>> \notin KeyFirst \cup AppFirst
    BY DEF KeyFirst, AppFirst
  <1>3. QED BY <1>1, <1>2 DEF Due

LEMMA ValidateKeeps ==
  ASSUME PipeInv, NEW r \in Slots, Validate(r)
  PROVE  PipeInv'
  <1> USE NoneAssumption
  <1>0. /\ pc[r] = "validate" /\ lock' = lock /\ lock # r
        /\ Shaped /\ Pooled /\ Admitted(r) /\ Own(r) /\ r \notin Range(queue)
    BY AllSolved, NotWaiting DEF Validate, PipeInv, Own, WayIn, InThread
  <1>1. CASE Raise(r, "RequestValidationError", None)
    BY <1>0, <1>1, RaiseKeeps, RaisedFits DEF Exceptions
  <1>2. CASE Return(r)
    BY <1>0, <1>2, ReturnKeeps
  <1>3. CASE /\ Submit(r, "handler")
             /\ UNCHANGED <<input, todo, conns, raised, code, context, answer, log>>
    <2>1. pc' = [pc EXCEPT ![r] = "handler"] /\ pool' = pool \ {r}
      BY <1>3 DEF Submit, Goto
    <2>2. Pooled'
      BY <1>0, <1>3, SubmitPooled
    <2>3. Shaped'
      BY <1>0, <1>3, <2>1 DEF Shaped, Steps
    <2>4. Alone(r)
      BY <1>0, <1>3, <2>1 DEF Alone, Shaped
    <2>5. pc'[r] = "handler"
      BY <1>0, <2>1 DEF Shaped
    <2>6. WayIn(r)'
      BY <1>0, <1>3, <2>5 DEF Own, WayIn, Due, Admitted
    <2>7. Failed(r)' /\ WayOut(r)'
      BY <1>0, <1>3, <2>5 DEF Own, Failed, WayOut, Effective, Ending
    <2>8. QED BY <2>2, <2>3, <2>4, <2>6, <2>7, OwnStep DEF Own
  <1>4. QED BY <1>1, <1>2, <1>3 DEF Validate

LEMMA FaultKeeps ==
  ASSUME PipeInv, NEW r \in Slots, Fault(r)
  PROVE  PipeInv'
  <1>0. pc[r] = "handler" /\ r \in pool /\ lock' = lock /\ Admitted(r)
    BY AllSolved DEF Fault, Handling
  <1>1. CASE Raise(r, "NotFound", None) \/ Raise(r, "Exception", None)
    BY <1>0, <1>1, RaiseKeeps, RaisedFits DEF Exceptions
  <1>2. ASSUME NEW c \in Codes, Raise(r, "sqlite3.Error", c)
        PROVE  PipeInv'
    BY <1>0, <1>2, RaiseKeeps, RaisedFits DEF Exceptions
  <1>3. QED BY <1>1, <1>2 DEF Fault, Codes

LEMMA ReadOnlyKeeps ==
  ASSUME PipeInv, NEW r \in Slots, ReadOnly(r)
  PROVE  PipeInv'
  <1>1. /\ pc[r] = "handler" /\ r \in pool /\ lock' = lock /\ lock # r
        /\ Return(r)
    BY DEF ReadOnly, Handling, PipeInv, Own, WayIn
  <1>2. QED BY <1>1, ReturnKeeps

LEMMA BeginWriteKeeps ==
  ASSUME PipeInv, NEW r \in Slots, BeginWrite(r)
  PROVE  PipeInv'
  <1> USE NoneAssumption
  <1>0. /\ pc[r] = "handler" /\ r \in pool /\ input[r].route \in Writes
        /\ Shaped /\ Pooled /\ Own(r) /\ "app" \in conns[r]
    BY AllSolved DEF BeginWrite, Handling, PipeInv, Writes, UsesApp, Guarded
  <1>1. /\ pc' = [pc EXCEPT ![r] = "commit"] /\ Goto(r, "commit") /\ lock' = r
        /\ UNCHANGED <<input, todo, queue, pool, conns, raised, code, context, answer, log>>
    BY DEF BeginWrite, Goto
  <1>2. Shaped'
    BY <1>0, <1>1 DEF Shaped, Steps
  <1>3. Pooled'
    BY <1>0, <1>1, StayPooled DEF InThread
  <1>4. Alone(r)
    BY <1>0, <1>1 DEF Alone, Shaped
  <1>5. pc'[r] = "commit"
    BY <1>0, <1>1 DEF Shaped
  <1>6. WayIn(r)'
    BY <1>0, <1>1, <1>5 DEF Own, WayIn, Due, Admitted
  <1>7. Failed(r)' /\ WayOut(r)'
    BY <1>0, <1>1, <1>5 DEF Own, Failed, WayOut, Effective, Ending
  <1>8. QED BY <1>2, <1>3, <1>4, <1>6, <1>7, OwnStep DEF Own

LEMMA LockTimeoutKeeps ==
  ASSUME PipeInv, NEW r \in Slots, LockTimeout(r)
  PROVE  PipeInv'
  <1>1. /\ pc[r] = "handler" /\ r \in pool /\ lock' = lock /\ Admitted(r)
        /\ Raise(r, "sqlite3.Error", "busy")
    BY AllSolved DEF LockTimeout, Handling
  <1>2. QED BY <1>1, RaiseKeeps, RaisedFits DEF Exceptions, Codes

LEMMA RefuseWriteKeeps ==
  ASSUME PipeInv, NEW r \in Slots, RefuseWrite(r)
  PROVE  PipeInv'
  <1>0. pc[r] = "commit" /\ r \in pool /\ Admitted(r) /\ lock' = lock
    BY AllSolved, InProgress DEF RefuseWrite, WayIn
  <1>1. ASSUME NEW e \in {"NotFound", "DuplicateResource"}, Raise(r, e, None)
        PROVE  PipeInv'
    BY <1>0, <1>1, RaiseKeeps, RaisedFits DEF Exceptions
  <1>2. CASE Raise(r, "sqlite3.Error", "other")
    BY <1>0, <1>2, RaiseKeeps, RaisedFits DEF Exceptions, Codes
  <1>3. QED BY <1>1, <1>2 DEF RefuseWrite

LEMMA EndWriteKeeps ==
  ASSUME PipeInv, NEW r \in Slots, EndWrite(r)
  PROVE  PipeInv'
  <1>0. pc[r] = "commit" /\ r \in pool /\ Admitted(r) /\ lock' = None
    BY AllSolved, InProgress DEF EndWrite, WayIn
  <1>1. CASE Return(r)
    BY <1>0, <1>1, ReturnKeeps, NoneAssumption
  <1>2. ASSUME NEW e \in {"NotFound", "Exception"}, Raise(r, e, None)
        PROVE  PipeInv'
    BY <1>0, <1>2, RaiseKeeps, RaisedFits DEF Exceptions
  <1>3. QED BY <1>1, <1>2 DEF EndWrite

-----------------------------------------------------------------------------
(* The actions on the way out                                               *)

LEMMA UnwindKeeps ==
  ASSUME PipeInv, NEW r \in Slots, Unwind(r)
  PROVE  PipeInv'
  <1> USE NoneAssumption
  <1>0. Shaped /\ Pooled /\ Own(r) /\ pc[r] = "raised"
    BY DEF PipeInv, Unwind
  <1>1. /\ pc' = [pc EXCEPT ![r] = "caught"] /\ Goto(r, "caught")
        /\ conns' = [conns EXCEPT ![r] = {}]
        /\ lock' \in {lock, None} /\ lock' # r
        /\ UNCHANGED <<input, todo, queue, pool, raised, code, context, answer, log>>
    BY DEF Unwind, CloseAll, Goto
  <1>2. Shaped'
    BY <1>0, <1>1 DEF Shaped, Steps
  <1>3. Pooled'
    BY <1>0, <1>1, StayPooled DEF InThread
  <1>4. Alone(r)
    BY <1>0, <1>1 DEF Alone, Shaped
  <1>5. pc'[r] = "caught" /\ conns'[r] = {}
    BY <1>0, <1>1 DEF Shaped
  <1>6. WayIn(r)'
    BY <1>0, <1>1, <1>5 DEF Own, WayIn
  <1>7. Failed(r)'
    BY <1>0, <1>1, <1>5 DEF Own, Failed, Effective, Ending, Admitted
  <1>8. WayOut(r)'
    BY <1>0, <1>1, <1>5 DEF Own, WayOut
  <1>9. QED BY <1>2, <1>3, <1>4, <1>6, <1>7, <1>8, OwnStep DEF Own

\* Every exception has an answer; only a 500 has its traceback in the log.
LEMMA ProblemIsAnswer ==
  ASSUME NEW r \in Slots, NEW e
  PROVE  Registered(r, e) \in Answer /\ Registered(r, e).id = r
  BY DEF Registered, Problem, RequestId, Answer, ProblemCodes

LEMMA ServerErrors ==
  ASSUME NEW r \in Slots, NEW e \in Exceptions, Registered(r, e).status = 500
  PROVE  e \in {"sqlite3.Error", "Exception"}
  BY DEF Registered, Problem, Exceptions

\* What the handlers see of an exception is one of the exceptions.
LEMMA EffectiveKnown ==
  ASSUME Shaped, NEW r \in Slots, raised[r] # None
  PROVE  Effective(r) \in Exceptions
  <1>1. raised[r] \in Exceptions
    BY DEF Shaped
  <1>2. Classify(code[r]) \in Exceptions
    BY DEF Classify, Exceptions
  <1>3. QED BY <1>1, <1>2 DEF Effective

LEMMA UnhandledIsLine ==
  ASSUME NEW r \in Slots, NEW ctx
  PROVE  /\ Unhandled(r, ctx) \in Line
         /\ Unhandled(r, ctx).id = r /\ Unhandled(r, ctx).kind = "unhandled"
  BY DEF Unhandled, LineId, RequestId, Line

LEMMA HandleKeeps ==
  ASSUME PipeInv, NEW r \in Slots, Handle(r)
  PROVE  PipeInv'
  <1> USE NoneAssumption
  <1> DEFINE a == Registered(r, Effective(r))
             l == Unhandled(r, context[r])
  <1>0. /\ Shaped /\ Pooled /\ Own(r) /\ pc[r] = "caught"
        /\ raised[r] # "Exception" /\ raised[r] # None
    BY DEF PipeInv, Own, Failed, Handle, Handled
  <1>1. /\ pc' = [pc EXCEPT ![r] = "respond"] /\ Goto(r, "respond")
        /\ answer' = [answer EXCEPT ![r] = a]
        /\ log' = IF Effective(r) = "sqlite3.Error"
                  THEN [log EXCEPT ![r] = @ \cup {l}] ELSE log
        /\ UNCHANGED <<input, todo, queue, pool, conns, lock, raised, code, context>>
    BY DEF Handle, Goto
  <1>2. a \in Answer /\ a.id = r /\ l \in Line /\ l.id = r /\ l.kind = "unhandled"
    BY ProblemIsAnswer, UnhandledIsLine
  <1>3. a.status = 500 => Effective(r) = "sqlite3.Error"
    <2>1. Effective(r) # "Exception"
      BY <1>0 DEF Effective, Classify
    <2>2. QED BY <1>0, <2>1, EffectiveKnown, ServerErrors
  <1>4. Effective(r)' = Effective(r)
    BY <1>1 DEF Effective
  <1>5. /\ a.status = Registered(r, Effective(r)).status
        /\ a.retry = Registered(r, Effective(r)).retry
    OBVIOUS
  <1> HIDE DEF a, l
  <1>6. Shaped'
    BY <1>0, <1>1, <1>2 DEF Shaped, Steps
  <1>7. Pooled'
    BY <1>0, <1>1, StayPooled DEF InThread
  <1>8. Alone(r)
    BY <1>0, <1>1 DEF Alone, Shaped
  <1>9. /\ pc'[r] = "respond" /\ answer'[r] = a
        /\ log'[r] = IF Effective(r) = "sqlite3.Error" THEN {l} ELSE {}
    <2>1. log[r] = {}
      BY <1>0 DEF Own, WayOut
    <2>2. log'[r] = IF Effective(r) = "sqlite3.Error" THEN log[r] \cup {l} ELSE log[r]
      BY <1>0, <1>1 DEF Shaped
    <2>3. QED BY <1>0, <1>1, <2>1, <2>2 DEF Shaped
  <1>10. WayIn(r)'
    BY <1>0, <1>1, <1>9 DEF Own, WayIn
  <1>11. Failed(r)'
    BY <1>0, <1>1, <1>4, <1>9 DEF Own, Failed, WayIn, Ending, Admitted
  <1>12. WayOut(r)'
    BY <1>0, <1>1, <1>2, <1>3, <1>4, <1>5, <1>9 DEF WayOut
  <1>13. QED BY <1>6, <1>7, <1>8, <1>10, <1>11, <1>12, OwnStep DEF Own

LEMMA LastResortKeeps ==
  ASSUME PipeInv, NEW r \in Slots, LastResort(r)
  PROVE  PipeInv'
  <1> USE NoneAssumption
  <1> DEFINE a == Registered(r, "Exception")
             l == Unhandled(r, context'[r])
  <1>0. /\ Shaped /\ Pooled /\ Own(r) /\ pc[r] = "caught" /\ raised[r] = "Exception"
    BY DEF PipeInv, LastResort, Handled
  <1>1. /\ pc' = [pc EXCEPT ![r] = "sent"] /\ Goto(r, "sent")
        /\ answer' = [answer EXCEPT ![r] = a]
        /\ log' = [log EXCEPT ![r] = @ \cup {l}]
        /\ context' = [context EXCEPT ![r] = None]
        /\ UNCHANGED <<input, todo, queue, pool, conns, lock, raised, code>>
    BY DEF LastResort, Goto
  <1>2. a \in Answer /\ a.id = r /\ l \in Line /\ l.id = r /\ l.kind = "unhandled"
    BY ProblemIsAnswer, UnhandledIsLine
  <1>3. Effective(r) = "Exception" /\ Effective(r)' = Effective(r)
    BY <1>0, <1>1 DEF Effective
  <1>4. /\ a.status = Registered(r, Effective(r)).status
        /\ a.retry = Registered(r, Effective(r)).retry
    BY <1>3
  <1> HIDE DEF a, l
  <1>5. Shaped'
    BY <1>0, <1>1, <1>2 DEF Shaped, Steps
  <1>6. Pooled'
    BY <1>0, <1>1, StayPooled DEF InThread
  <1>7. Alone(r)
    BY <1>0, <1>1 DEF Alone, Shaped
  <1>8. pc'[r] = "sent" /\ answer'[r] = a /\ log'[r] = log[r] \cup {l}
    BY <1>0, <1>1 DEF Shaped
  <1>9. WayIn(r)'
    BY <1>0, <1>1, <1>8 DEF Own, WayIn
  <1>10. Failed(r)'
    BY <1>0, <1>1, <1>3, <1>8 DEF Own, Failed, WayIn, Ending, Admitted
  <1>11. WayOut(r)'
    BY <1>0, <1>1, <1>2, <1>3, <1>4, <1>8 DEF Own, WayOut, Exceptions
  <1>12. QED BY <1>5, <1>6, <1>7, <1>9, <1>10, <1>11, OwnStep DEF Own

\* The headers change nothing else of an answer.
LEMMA TaggedAnswer ==
  ASSUME NEW x \in Answer
  PROVE  LET a == [x EXCEPT !.tagged = TRUE] IN
         /\ a \in Answer /\ a.tagged = TRUE
         /\ a.status = x.status /\ a.retry = x.retry /\ a.id = x.id
         /\ x.status \in Nat
  <1> DEFINE a == [x EXCEPT !.tagged = TRUE]
  <1>1. a \in Answer
    <2>1. ASSUME NEW t \in BOOLEAN PROVE [x EXCEPT !.tagged = t] \in Answer
      BY DEF Answer
    <2>2. QED BY <2>1
  <1>2. a.tagged = TRUE /\ a.status = x.status /\ a.retry = x.retry /\ a.id = x.id
    BY DEF Answer
  <1>3. x.status \in Nat
    BY DEF Answer
  <1>4. QED BY <1>1, <1>2, <1>3

LEMMA ObserveKeeps ==
  ASSUME PipeInv, NEW r \in Slots, Observe(r)
  PROVE  PipeInv'
  <1> USE NoneAssumption
  <1> DEFINE a == [answer[r] EXCEPT !.tagged = TRUE]
             l == [kind |-> "access", id |-> LineId(r, context'[r]),
                   status |-> answer[r].status]
  <1>0. /\ Shaped /\ Pooled /\ Own(r) /\ pc[r] = "respond"
    BY DEF PipeInv, Observe
  <1>1. /\ pc' = [pc EXCEPT ![r] = "sent"] /\ Goto(r, "sent")
        /\ answer' = [answer EXCEPT ![r].tagged = TRUE]
        /\ log' = [log EXCEPT ![r] = @ \cup {l}]
        /\ context' = [context EXCEPT ![r] = None]
        /\ UNCHANGED <<input, todo, queue, pool, conns, lock, raised, code>>
    BY DEF Observe, Goto
  <1>2. answer[r] \in Answer
    BY <1>0 DEF Own, WayOut
  <1>3. /\ a \in Answer /\ a.tagged = TRUE /\ a.status = answer[r].status
        /\ a.retry = answer[r].retry /\ a.id = answer[r].id
    BY <1>2, TaggedAnswer
  <1>4. l \in Line /\ l.id = r /\ l.kind = "access" /\ l.status = a.status
    <2>1. answer[r].status \in Nat
      BY <1>2, TaggedAnswer
    <2>2. QED BY <1>3, <2>1 DEF LineId, RequestId, Line
  <1>5. Effective(r)' = Effective(r)
    BY <1>1 DEF Effective
  <1>6. answer' = [answer EXCEPT ![r] = a]
    BY <1>1
  <1> HIDE DEF a, l
  <1>7. Shaped'
    <2>1. log' \in [Slots -> SUBSET Line]
      BY <1>0, <1>1, <1>4 DEF Shaped
    <2>2. answer' \in [Slots -> Answer \cup {None}]
      BY <1>0, <1>3, <1>6 DEF Shaped
    <2>3. context' \in [Slots -> Slots \cup {None}]
      BY <1>0, <1>1 DEF Shaped
    <2>4. QED BY <1>0, <1>1, <2>1, <2>2, <2>3 DEF Shaped, Steps
  <1>8. Pooled'
    BY <1>0, <1>1, StayPooled DEF InThread
  <1>9. Alone(r)
    BY <1>0, <1>1, <1>6 DEF Alone, Shaped
  <1>10. pc'[r] = "sent" /\ answer'[r] = a /\ log'[r] = log[r] \cup {l}
    BY <1>0, <1>1, <1>6 DEF Shaped
  <1>11. WayIn(r)'
    BY <1>0, <1>1, <1>10 DEF Own, WayIn
  <1>12. Failed(r)'
    BY <1>0, <1>1, <1>5, <1>10 DEF Own, Failed, Ending, Admitted
  <1>13. WayOut(r)'
    <2>1. \A k \in log'[r] : k.id = r
      BY <1>0, <1>4, <1>10 DEF Own, WayOut
    <2>2. answer'[r].tagged /\ \E k \in log'[r] : k.kind = "access" /\ k.status = a.status
      BY <1>3, <1>4, <1>10
    <2>3. a.status = 500 => \E k \in log'[r] : k.kind = "unhandled"
      BY <1>0, <1>3, <1>10 DEF Own, WayOut
    <2>4. /\ raised'[r] = None => a.status = 200 /\ a.retry = FALSE
          /\ raised'[r] # None => LET p == Registered(r, Effective(r)) IN
               a.status = p.status /\ a.retry = p.retry /\ a.id = r
      BY <1>0, <1>1, <1>3 DEF Own, WayOut
    <2>5. QED BY <1>3, <1>5, <1>10, <2>1, <2>2, <2>3, <2>4 DEF WayOut
  <1>14. QED BY <1>7, <1>8, <1>9, <1>11, <1>12, <1>13, OwnStep DEF Own

LEMMA FinishKeeps ==
  ASSUME PipeInv, NEW r \in Slots, Finish(r)
  PROVE  PipeInv'
  <1> USE NoneAssumption
  <1>0. Shaped /\ Pooled /\ Own(r) /\ pc[r] = "sent"
    BY DEF PipeInv, Finish
  <1>1. /\ pc' = [pc EXCEPT ![r] = "idle"] /\ Goto(r, "idle")
        /\ conns' = [conns EXCEPT ![r] = {}]
        /\ input' = [input EXCEPT ![r] = None] /\ todo' = [todo EXCEPT ![r] = <<>>]
        /\ raised' = [raised EXCEPT ![r] = None] /\ code' = [code EXCEPT ![r] = None]
        /\ answer' = [answer EXCEPT ![r] = None] /\ log' = [log EXCEPT ![r] = {}]
        /\ lock' \in {lock, None} /\ lock' # r
        /\ UNCHANGED <<queue, pool, context>>
    BY DEF Finish, CloseAll, Goto
  <1>2. Shaped'
    BY <1>0, <1>1 DEF Shaped, Steps
  <1>3. Pooled'
    BY <1>0, <1>1, StayPooled DEF InThread
  <1>4. Alone(r)
    BY <1>0, <1>1 DEF Alone, Shaped
  <1>5. /\ pc'[r] = "idle" /\ conns'[r] = {} /\ input'[r] = None /\ raised'[r] = None
        /\ code'[r] = None /\ answer'[r] = None /\ log'[r] = {}
    BY <1>0, <1>1 DEF Shaped
  <1>6. WayIn(r)' /\ WayOut(r)'
    BY <1>1, <1>5 DEF WayIn, WayOut
  <1>7. Failed(r)'
    BY <1>5 DEF Failed, Effective, Ending, Exceptions, Codes
  <1>8. QED BY <1>2, <1>3, <1>4, <1>6, <1>7, OwnStep DEF Own

-----------------------------------------------------------------------------
(* All together                                                             *)

LEMMA PipeInvInit == Init => PipeInv
  <1> USE NoneAssumption
  <1> SUFFICES ASSUME Init PROVE PipeInv
    OBVIOUS
  <1>1. Shaped
    BY DEF Init, Shaped, Steps
  <1>2. Pooled
    <2>1. queue \in Seq(Slots) /\ IsInjective(queue) /\ Range(queue) = {}
      BY DEF Init, IsInjective, Range
    <2>2. IsFiniteSet(pool) /\ Cardinality(pool) <= Threads
      BY FS_EmptySet, ThreadsAssumption DEF Init
    <2>3. QED BY <2>1, <2>2 DEF Init, Pooled, InThread
  <1>3. \A r \in Slots : WayIn(r) /\ WayOut(r)
    BY DEF Init, WayIn, WayOut
  <1>4. \A r \in Slots : Failed(r)
    BY DEF Init, Failed, Effective, Ending, Exceptions, Codes
  <1>5. QED BY <1>1, <1>2, <1>3, <1>4 DEF PipeInv, Own

LEMMA StartJobKeeps ==
  ASSUME PipeInv, StartJob
  PROVE  PipeInv'
  <1>1. Shaped /\ Pooled'
    BY StartPooled DEF PipeInv
  <1>2. /\ UNCHANGED <<pc, input, todo, conns, lock, raised, code, context, answer, log>>
        /\ pool \subseteq pool'
    BY DEF StartJob
  <1>3. ASSUME NEW r \in Slots PROVE Own(r)'
    <2>1. WayIn(r) /\ Failed(r) /\ WayOut(r)
      BY DEF PipeInv, Own
    <2>2. WayIn(r)'
      BY <1>2, <2>1 DEF WayIn, Due, Admitted
    <2>3. Failed(r)' /\ WayOut(r)'
      BY <1>2, <2>1 DEF Failed, WayOut, Effective, Admitted
    <2>4. QED BY <2>2, <2>3 DEF Own
  <1>4. Shaped'
    BY <1>1, <1>2 DEF Shaped
  <1>5. QED BY <1>1, <1>3, <1>4 DEF PipeInv

LEMMA PipeInvStep == PipeInv /\ [Next]_vars => PipeInv'
  <1> SUFFICES ASSUME PipeInv, [Next]_vars PROVE PipeInv'
    OBVIOUS
  <1>1. ASSUME NEW r \in Slots, Receive(r) \/ LoopStep(r)
        PROVE  PipeInv'
    BY <1>1, ReceiveKeeps, RouteKeeps, ValidateKeeps, UnwindKeeps, HandleKeeps,
       LastResortKeeps, ObserveKeeps, FinishKeeps DEF LoopStep
  <1>2. ASSUME NEW r \in Slots, ThreadStep(r) \/ Fault(r)
        PROVE  PipeInv'
    BY <1>2, RequireApiKeyKeeps, GetAppConnKeeps, GetConnKeeps, ReadOnlyKeeps,
       BeginWriteKeeps, LockTimeoutKeeps, RefuseWriteKeeps, EndWriteKeeps, FaultKeeps
       DEF ThreadStep
  <1>3. CASE UNCHANGED vars
    <2>1. UNCHANGED <<pc, input, todo, queue, pool, conns, lock, raised, code, context,
                      answer, log>>
      BY <1>3 DEF vars
    <2>2. Shaped' /\ Pooled'
      BY <2>1 DEF PipeInv, Shaped, Pooled
    <2>3. ASSUME NEW r \in Slots PROVE Own(r)'
      <3>1. WayIn(r) /\ Failed(r) /\ WayOut(r)
        BY DEF PipeInv, Own
      <3>2. WayIn(r)' /\ Failed(r)' /\ WayOut(r)'
        BY <2>1, <3>1 DEF WayIn, Due, Admitted, Failed, Effective, WayOut
      <3>3. QED BY <3>2 DEF Own
    <2>4. QED BY <2>2, <2>3 DEF PipeInv
  <1>4. QED BY <1>1, <1>2, <1>3, StartJobKeeps DEF Next

LEMMA PipeInvAlways == Spec => []PipeInv
  BY PipeInvInit, PipeInvStep, PTL DEF Spec

-----------------------------------------------------------------------------
(* The theorems                                                             *)

\* In every reachable state every variable has its type; a request is in the pool or
\* its queue, and once, exactly in the steps that need a thread; and no more threads
\* are taken than the pool has.
THEOREM PipelineTypes == Spec => []TypeOK
  <1>1. PipeInv => TypeOK
    <2> SUFFICES ASSUME PipeInv PROVE TypeOK
      OBVIOUS
    <2>1. \A r \in Slots : /\ todo[r] \in Seq({"key", "open_app", "open_jobs"})
                           /\ answer[r] \in Answer \cup {None}
                           /\ log[r] \in SUBSET Line
      BY DEF PipeInv, Shaped
    <2>2. QED BY <2>1 DEF PipeInv, Shaped, Pooled, InThread, TypeOK
  <1>2. QED BY <1>1, PipeInvAlways, PTL

\* Behind a configured key a request without a valid one never has a database open,
\* and its answer is that of the key, or of a body that could not be parsed.
THEOREM KeyFirstAlways == Spec => []KeyBeforeData
  <1>1. PipeInv => KeyBeforeData
    <2> USE NoneAssumption
    <2> SUFFICES ASSUME PipeInv, NEW r \in Slots, input[r] # None, KeyIsSet,
                        input[r].route \in Guarded, input[r].key # "valid"
                 PROVE  /\ conns[r] = {} /\ lock # r
                        /\ answer[r] # None =>
                             \/ answer[r].status = 401
                             \/ answer[r].status = 422 /\ input[r].body = "malformed"
                             \/ answer[r].status = 500 /\ input[r].key = "not_ascii"
      BY DEF KeyBeforeData
    <2>1. WayIn(r) /\ Failed(r) /\ WayOut(r) /\ ~Admitted(r) /\ Shaped
      BY DEF PipeInv, Own, Admitted
    <2>2. conns[r] = {}
      <3>1. CASE pc[r] \in Ending
        BY <2>1, <3>1 DEF Failed
      <3>2. CASE pc[r] = "dependency"
        BY <2>1, <3>2 DEF WayIn, Due
      <3>3. CASE pc[r] \in {"idle", "received"}
        BY <2>1, <3>3 DEF WayIn
      <3>4. CASE pc[r] \in {"validate", "handler", "commit"}
        BY <3>4, AllSolved, <2>1
      <3>5. pc[r] \in Steps
        BY <2>1 DEF Shaped
      <3>6. QED BY <3>1, <3>2, <3>3, <3>4, <3>5 DEF Steps, Ending
    <2>3. lock # r
      BY <2>1, <2>2 DEF WayIn
    <2>4. ASSUME answer[r] # None
          PROVE  \/ answer[r].status = 401
                 \/ answer[r].status = 422 /\ input[r].body = "malformed"
                 \/ answer[r].status = 500 /\ input[r].key = "not_ascii"
      <3>1. pc[r] \in {"respond", "sent"}
        BY <2>1, <2>4 DEF WayOut
      <3>2. \/ raised[r] = "ApiKeyRequired"
            \/ raised[r] = "RequestValidationError" /\ input[r].body = "malformed"
            \/ raised[r] = "Exception" /\ input[r].key = "not_ascii"
        BY <2>1, <3>1 DEF Failed, Ending
      <3>3. raised[r] # None /\ Effective(r) = raised[r]
        BY <3>2 DEF Effective, Exceptions
      <3>4. answer[r].status = Registered(r, raised[r]).status
        BY <2>1, <3>1, <3>3 DEF WayOut
      <3>5. QED BY <3>2, <3>4 DEF Registered, Problem
    <2>5. QED BY <2>2, <2>3, <2>4
  <1>2. QED BY <1>1, PipeInvAlways, PTL

\* In every reachable state a failed request that has its answer has closed both
\* databases, and whoever holds the write lock is still in its request.
THEOREM RequestsCleanUp == Spec => []NothingOutlivesRequest
  <1>1. PipeInv => NothingOutlivesRequest
    BY DEF PipeInv, Own, WayIn, Failed, WayOut, NothingOutlivesRequest
  <1>2. QED BY <1>1, PipeInvAlways, PTL

\* In every reachable state the holder of the write lock has the thread it needs, or
\* needs none.
THEOREM HolderGoesOn == Spec => []HolderNeedsNoThread
  <1>1. PipeInv => HolderNeedsNoThread
    <2> SUFFICES ASSUME PipeInv, lock # None
                 PROVE  /\ lock \notin Range(queue) /\ pc[lock] \in {"commit", "raised"}
                        /\ pc[lock] = "commit" => lock \in pool
      BY DEF HolderNeedsNoThread
    <2>1. lock \in Slots /\ Pooled /\ WayIn(lock)
      BY DEF PipeInv, Own, Shaped
    <2>2. pc[lock] \in {"commit", "raised"} /\ (pc[lock] = "commit" => lock \in pool)
      BY <2>1 DEF WayIn
    <2>3. QED BY <2>1, <2>2, NotWaiting DEF InThread
  <1>2. QED BY <1>1, PipeInvAlways, PTL

\* In every reachable state a 500 has its traceback in the log under the same id, no
\* line has another id, and only an exception nobody handles lacks the access line.
THEOREM FailuresLogged == Spec => []LogJoinsAnswer
  <1>1. PipeInv => LogJoinsAnswer
    <2> SUFFICES ASSUME PipeInv, NEW r \in Slots
                 PROVE  /\ \A l \in log[r] : l.id = r
                        /\ pc[r] = "sent" =>
                             /\ answer[r].status = 500 =>
                                  \E l \in log[r] : l.kind = "unhandled" /\ l.id = answer[r].id
                             /\ \/ /\ answer[r].tagged
                                   /\ \E l \in log[r] :
                                        l.kind = "access" /\ l.status = answer[r].status
                                \/ raised[r] = "Exception" /\ answer[r].status = 500
      BY DEF LogJoinsAnswer
    <2>1. WayOut(r) /\ Shaped
      BY DEF PipeInv, Own
    <2>2. ASSUME pc[r] = "sent", answer[r].status = 500
          PROVE  \E l \in log[r] : l.kind = "unhandled" /\ l.id = answer[r].id
      <3>1. raised[r] # None
        BY <2>1, <2>2 DEF WayOut
      <3>2. QED BY <2>1, <2>2, <3>1 DEF WayOut
    <2>3. ASSUME pc[r] = "sent", raised[r] = "Exception"
          PROVE  answer[r].status = 500
      <3>1. Effective(r) = "Exception" /\ raised[r] # None
        BY <2>3, NoneAssumption DEF Effective, Exceptions
      <3>2. QED BY <2>1, <2>3, <3>1 DEF WayOut, Registered, Problem
    <2>4. QED BY <2>1, <2>2, <2>3 DEF WayOut
  <1>2. QED BY <1>1, PipeInvAlways, PTL

\* In every reachable state an answer asks for a retry, or is a 503, exactly when the
\* code behind it is that of a lock, or of a lock or a hot journal.
THEOREM RetriesTrue == Spec => []RetryMeansBusy
  <1>1. PipeInv => RetryMeansBusy
    <2> SUFFICES ASSUME PipeInv, NEW r \in Slots, answer[r] # None
                 PROVE  /\ answer[r].retry <=> code[r] = "busy"
                        /\ answer[r].status = 503 <=> code[r] \in {"busy", "readonly_rollback"}
      BY DEF RetryMeansBusy
    <2> DEFINE e == Effective(r)
    <2>1. WayOut(r) /\ Failed(r) /\ Shaped
      BY DEF PipeInv, Own
    <2>2. /\ code[r] = "busy" <=> e = "DatabaseUnavailable"
          /\ code[r] = "readonly_rollback" <=> e = "DatabaseWedged"
      BY <2>1 DEF Failed
    <2>3. pc[r] \in {"respond", "sent"}
      BY <2>1 DEF WayOut
    <2>4. CASE raised[r] = None
      <3>1. e = None
        BY <2>4, NoneAssumption DEF Effective, Exceptions
      <3>2. e \notin {"DatabaseUnavailable", "DatabaseWedged"}
        BY <3>1, NoneAssumption DEF Exceptions
      <3>3. QED BY <2>1, <2>2, <2>3, <2>4, <3>2 DEF WayOut
    <2>5. CASE raised[r] # None
      <3>1. /\ answer[r].status = Registered(r, e).status
            /\ answer[r].retry = Registered(r, e).retry
        BY <2>1, <2>3, <2>5 DEF WayOut
      <3>2. e \in Exceptions
        BY <2>1, <2>5, EffectiveKnown
      <3>3. /\ Registered(r, e).retry <=> e = "DatabaseUnavailable"
            /\ Registered(r, e).status = 503
                 <=> e \in {"DatabaseUnavailable", "DatabaseWedged"}
        BY <3>2 DEF Registered, Problem, Exceptions
      <3>4. QED BY <2>2, <3>1, <3>3
    <2>6. QED BY <2>4, <2>5
  <1>2. QED BY <1>1, PipeInvAlways, PTL

=============================================================================
