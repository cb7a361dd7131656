---------------------------- MODULE JobsDb_proofs ----------------------------
(***************************************************************************)
(* Proofs about JobsDb, for every set of readers, every number of scraper  *)
(* transactions and every choice of the editions that hold the job.        *)
(***************************************************************************)
EXTENDS JobsDb, TLAPS

\* The endpoints, listed.
LEMMA KindsListed ==
  /\ Kinds = {"jobs", "runs", "changes", "stats", "detail", "sources", "by_ids"}
  /\ \A k \in Kinds : Statements[k] \in 1..6
  /\ \A k \in Kinds \ Snapshots : Statements[k] = 1
  BY DEF Kinds, Statements, Snapshots

-----------------------------------------------------------------------------
(* The inductive invariant                                                  *)

\* The file: half-written pages are covered by a journal, and while there is a
\* journal nobody reads and no writer but an exclusive one is at work; a writer has
\* a transaction left.
FileGuarded ==
  /\ torn => journal
  /\ journal => shared = {} /\ lock \in {"none", "exclusive"}
  /\ lock = "exclusive" => journal
  /\ lock # "none" => edition < MaxEdition

\* A request that has not read: it will send all its statements.
Fresh(r) ==
  /\ pc[r] \in {"idle", "connect"} => seen[r] = {}
  /\ pc[r] \in {"connect", "read"} => left[r] >= 1
  /\ pc[r] \in {"connect", "read"} /\ kind[r] \notin Snapshots =>
       left[r] = 1 /\ seen[r] = {}

\* SHARED: only an open snapshot has it, it has it from its first read, and what
\* it read is the committed edition.
Pinned(r) ==
  /\ r \in shared => /\ pc[r] \in {"read", "end"}
                     /\ kind[r] \in Snapshots
                     /\ seen[r] = {edition}
  /\ pc[r] = "read" /\ seen[r] # {} => r \in shared

\* What a request has read, and what it may say of the job it names.
Consistent(r) ==
  /\ Torn \notin seen[r]
  /\ kind[r] \in Snapshots => \A e, f \in seen[r] : e = f
  /\ pc[r] = "read" /\ kind[r] \in Lookups => seen[r] \subseteq Holding
  /\ told[r] = "ok" /\ kind[r] \in Lookups => seen[r] \subseteq Holding
  /\ told[r] = "not_found" => seen[r] \cap Holding = {}

ReadersInv == \A r \in Readers : Fresh(r) /\ Pinned(r) /\ Consistent(r)

JobsInv == TypeOK /\ FileGuarded /\ ReadersInv

-----------------------------------------------------------------------------
(* A reader's steps                                                         *)

\* Who may read finds no journal, so the file is the committed edition.
LEMMA ReadableIsCommitted ==
  ASSUME JobsInv, NEW r \in Readers, CanShare(r)
  PROVE  ~journal /\ Content = edition /\ edition \in Nat /\ edition # Torn
  BY MaxEditionAssumption DEF JobsInv, TypeOK, FileGuarded, CanShare, Hot, Content, Torn

\* What a reader's step leaves to prove: it does not touch the file or another
\* reader.
LEMMA OneReaderMoved ==
  ASSUME JobsInv, NEW r \in Readers, TypeOK', UNCHANGED writer,
         shared' \in {shared, shared \cup {r}, shared \ {r}},
         r \in shared' => ~journal,
         \A o \in Readers \ {r} : /\ pc'[o] = pc[o] /\ kind'[o] = kind[o]
                                  /\ seen'[o] = seen[o] /\ left'[o] = left[o]
                                  /\ told'[o] = told[o],
         Fresh(r)', Pinned(r)', Consistent(r)'
  PROVE  JobsInv'
  <1>1. FileGuarded'
    BY DEF JobsInv, FileGuarded, writer
  <1>2. ASSUME NEW o \in Readers \ {r} PROVE Fresh(o)' /\ Pinned(o)' /\ Consistent(o)'
    BY DEF JobsInv, ReadersInv, Fresh, Pinned, Consistent, writer
  <1>3. QED BY <1>1, <1>2 DEF JobsInv, ReadersInv

\* A SELECT reads the committed edition, and settles the request or pins it.
LEMMA ReadStep ==
  ASSUME JobsInv, NEW r \in Readers, Read(r)
  PROVE  JobsInv'
  <1> USE KindsListed, NoneAssumption
  <1> DEFINE absent == kind[r] \in Lookups /\ seen[r] = {} /\ edition \notin Holding
             done == IF kind[r] \in Snapshots THEN "end" ELSE "answer"
  <1>1. ~journal /\ Content = edition /\ edition \in Nat /\ edition # Torn
    BY ReadableIsCommitted DEF Read
  <1>2. /\ pc[r] = "read"
        /\ seen' = [seen EXCEPT ![r] = @ \cup {edition}]
        /\ left' = [left EXCEPT ![r] = @ - 1]
        /\ shared' = SharedAfterRead(r)
        /\ UNCHANGED writer /\ kind' = kind
        /\ \/ absent /\ Settle(r, "not_found", done)
           \/ ~absent /\ left[r] = 1 /\ Settle(r, "ok", done)
           \/ ~absent /\ left[r] > 1 /\ UNCHANGED <<pc, told>>
    BY <1>1 DEF Read
  <1>3. done \in {"end", "answer"} /\ (done = "end" <=> kind[r] \in Snapshots)
    OBVIOUS
  <1>4. kind[r] \in Kinds /\ left[r] \in 1..6 /\ told[r] = None
    BY <1>2 DEF JobsInv, TypeOK, ReadersInv, Fresh
  <1>5. /\ seen[r] \subseteq {edition}
        /\ seen[r] # {} /\ kind[r] \in Lookups => edition \in Holding
    BY <1>2 DEF JobsInv, ReadersInv, Pinned, Consistent
  <1>6. /\ seen'[r] = {edition}
        /\ left'[r] = left[r] - 1
        /\ r \in shared' => kind[r] \in Snapshots
        /\ kind[r] \in Snapshots => r \in shared'
        /\ shared' \in {shared, shared \cup {r}, shared \ {r}}
        /\ edition' = edition
    BY <1>2, <1>5 DEF JobsInv, TypeOK, ReadersInv, Pinned, SharedAfterRead, writer
  <1>7. kind[r] \in Lookups /\ ~absent => edition \in Holding
    BY <1>5
  <1>8. \/ /\ pc' = [pc EXCEPT ![r] = done] /\ absent
           /\ told' = [told EXCEPT ![r] = "not_found"]
        \/ /\ pc' = [pc EXCEPT ![r] = done] /\ ~absent
           /\ told' = [told EXCEPT ![r] = "ok"]
        \/ pc' = pc /\ told' = told /\ ~absent /\ left[r] > 1
    BY <1>2 DEF Settle, Goto
  <1>9. absent => edition \notin Holding
    OBVIOUS
  <1> HIDE DEF absent, done
  <1>10. TypeOK'
    <2>1. seen' \in [Readers -> SUBSET (Nat \cup {Torn})]
      BY <1>1, <1>2 DEF JobsInv, TypeOK
    <2>2. left' \in [Readers -> 0..6]
      BY <1>2, <1>4 DEF JobsInv, TypeOK
    <2>3. shared' \in SUBSET Readers
      BY <1>6 DEF JobsInv, TypeOK
    <2>4. /\ pc' \in [Readers -> {"idle", "connect", "read", "end", "answer"}]
          /\ told' \in [Readers -> Statuses]
          /\ \A o \in Readers : told'[o] # None <=> pc'[o] \in {"end", "answer"}
          /\ \A o \in Readers : kind'[o] = None <=> pc'[o] = "idle"
      BY <1>2, <1>3, <1>4, <1>8 DEF JobsInv, TypeOK, Statuses
    <2>5. QED BY <1>2, <2>1, <2>2, <2>3, <2>4 DEF JobsInv, TypeOK, writer
  <1>11. pc'[r] \in {"read", "end", "answer"} /\ (r \in shared' => pc'[r] # "answer")
    BY <1>2, <1>3, <1>6, <1>8 DEF JobsInv, TypeOK
  <1>12. Fresh(r)'
    <2>1. pc'[r] = "read" => left'[r] >= 1 /\ kind[r] \in Snapshots
      BY <1>2, <1>3, <1>4, <1>6, <1>8 DEF JobsInv, TypeOK, ReadersInv, Fresh
    <2>2. QED BY <1>2, <1>11, <2>1 DEF Fresh
  <1>13. Pinned(r)'
    <2>1. pc'[r] = "read" => kind[r] \in Snapshots
      BY <1>2, <1>3, <1>4, <1>8 DEF JobsInv, TypeOK, ReadersInv, Fresh
    <2>2. QED BY <1>2, <1>6, <1>11, <2>1 DEF Pinned
  <1>14. Consistent(r)'
    BY <1>1, <1>2, <1>3, <1>4, <1>6, <1>7, <1>8, <1>9 DEF JobsInv, TypeOK, Consistent
  <1>15. \A o \in Readers \ {r} : /\ pc'[o] = pc[o] /\ kind'[o] = kind[o]
                                  /\ seen'[o] = seen[o] /\ left'[o] = left[o]
                                  /\ told'[o] = told[o]
    BY <1>2, <1>8 DEF JobsInv, TypeOK
  <1>16. QED BY <1>1, <1>2, <1>6, <1>10, <1>12, <1>13, <1>14, <1>15, OneReaderMoved

\* A locked-out request has no snapshot open, so it can give up at once.
LEMMA LockedOutStep ==
  ASSUME JobsInv, NEW r \in Readers, Busy(r) \/ Wedged(r)
  PROVE  JobsInv'
  <1> USE NoneAssumption
  <1>1. PICK status \in {"busy", "wedged"} :
          /\ told' = [told EXCEPT ![r] = status]
          /\ pc' = [pc EXCEPT ![r] = "answer"]
    BY DEF Busy, Wedged, Settle, Goto
  <1>2. /\ UNCHANGED writer
        /\ shared' = shared /\ kind' = kind /\ seen' = seen /\ left' = left
        /\ r \notin shared /\ pc[r] \in {"connect", "read"}
    BY DEF Busy, Wedged, Locked, CanShare
  <1>3. TypeOK'
    BY <1>1, <1>2 DEF JobsInv, TypeOK, Statuses, writer
  <1>4. Fresh(r)' /\ Pinned(r)' /\ Consistent(r)'
    BY <1>1, <1>2 DEF JobsInv, TypeOK, ReadersInv, Fresh, Pinned, Consistent
  <1>5. \A o \in Readers \ {r} : pc'[o] = pc[o] /\ told'[o] = told[o]
    BY <1>1 DEF JobsInv, TypeOK
  <1>6. QED BY <1>2, <1>3, <1>4, <1>5, OneReaderMoved

\* The other steps of a request: it arrives, connects, ends its snapshot, answers.
LEMMA PlainStep ==
  ASSUME JobsInv, NEW r \in Readers, Arrive(r) \/ Connect(r) \/ End(r) \/ Answer(r)
  PROVE  JobsInv'
  <1> USE NoneAssumption
  <1>1. CASE Arrive(r)
    <2>1. PICK k \in Kinds : /\ kind' = [kind EXCEPT ![r] = k]
                             /\ left' = [left EXCEPT ![r] = Statements[k]]
      BY <1>1 DEF Arrive
    <2>2. /\ pc[r] = "idle" /\ pc' = [pc EXCEPT ![r] = "connect"]
          /\ UNCHANGED writer /\ shared' = shared /\ seen' = seen /\ told' = told
          /\ r \notin shared /\ seen[r] = {} /\ told[r] = None
      BY <1>1 DEF Arrive, Goto, JobsInv, ReadersInv, Pinned, Fresh, TypeOK
    <2>3. Statements[k] \in 1..6 /\ (k \notin Snapshots => Statements[k] = 1)
      BY KindsListed
    <2>4. TypeOK'
      BY <2>1, <2>2, <2>3 DEF JobsInv, TypeOK, writer
    <2>5. kind'[r] = k /\ left'[r] = Statements[k] /\ pc'[r] = "connect"
      BY <2>1, <2>2 DEF JobsInv, TypeOK
    <2>6. Fresh(r)' /\ Pinned(r)' /\ Consistent(r)'
      BY <2>2, <2>3, <2>5 DEF Fresh, Pinned, Consistent
    <2>7. \A o \in Readers \ {r} : /\ pc'[o] = pc[o] /\ kind'[o] = kind[o]
                                   /\ left'[o] = left[o]
      BY <2>1, <2>2 DEF JobsInv, TypeOK
    <2>8. QED BY <2>2, <2>4, <2>6, <2>7, OneReaderMoved
  <1>2. CASE Connect(r)
    <2>1. /\ pc[r] = "connect" /\ pc' = [pc EXCEPT ![r] = "read"]
          /\ UNCHANGED writer /\ shared' = shared /\ kind' = kind /\ seen' = seen
          /\ left' = left /\ told' = told
      BY <1>2 DEF Connect, Goto
    <2>2. TypeOK'
      BY <2>1 DEF JobsInv, TypeOK, writer
    <2>3. seen[r] = {} /\ r \notin shared
      BY <2>1 DEF JobsInv, ReadersInv, Fresh, Pinned
    <2>4. Fresh(r)' /\ Pinned(r)' /\ Consistent(r)'
      BY <2>1, <2>3 DEF JobsInv, TypeOK, ReadersInv, Fresh, Pinned, Consistent
    <2>5. \A o \in Readers \ {r} : pc'[o] = pc[o]
      BY <2>1 DEF JobsInv, TypeOK
    <2>6. QED BY <2>1, <2>2, <2>3, <2>4, <2>5, OneReaderMoved
  <1>3. CASE End(r)
    <2>1. /\ pc[r] = "end" /\ pc' = [pc EXCEPT ![r] = "answer"]
          /\ UNCHANGED writer /\ shared' = shared \ {r} /\ kind' = kind /\ seen' = seen
          /\ left' = left /\ told' = told
      BY <1>3 DEF End, Goto
    <2>2. TypeOK'
      BY <2>1 DEF JobsInv, TypeOK, writer
    <2>3. Fresh(r)' /\ Pinned(r)' /\ Consistent(r)'
      BY <2>1 DEF JobsInv, TypeOK, ReadersInv, Fresh, Pinned, Consistent
    <2>4. \A o \in Readers \ {r} : pc'[o] = pc[o]
      BY <2>1 DEF JobsInv, TypeOK
    <2>5. QED BY <2>1, <2>2, <2>3, <2>4, OneReaderMoved
  <1>4. CASE Answer(r)
    <2>1. /\ pc[r] = "answer" /\ pc' = [pc EXCEPT ![r] = "idle"]
          /\ UNCHANGED writer /\ shared' = shared
          /\ kind' = [kind EXCEPT ![r] = None] /\ seen' = [seen EXCEPT ![r] = {}]
          /\ left' = [left EXCEPT ![r] = 0] /\ told' = [told EXCEPT ![r] = None]
      BY <1>4 DEF Answer, Goto
    <2>2. TypeOK'
      BY <2>1 DEF JobsInv, TypeOK, writer, Statuses
    <2>3. r \notin shared
      BY <2>1 DEF JobsInv, ReadersInv, Pinned
    <2>4. pc'[r] = "idle" /\ seen'[r] = {} /\ told'[r] = None
      BY <2>1 DEF JobsInv, TypeOK
    <2>5. Fresh(r)' /\ Pinned(r)' /\ Consistent(r)'
      BY <2>1, <2>3, <2>4 DEF Fresh, Pinned, Consistent
    <2>6. \A o \in Readers \ {r} : /\ pc'[o] = pc[o] /\ kind'[o] = kind[o]
                                   /\ seen'[o] = seen[o] /\ left'[o] = left[o]
                                   /\ told'[o] = told[o]
      BY <2>1 DEF JobsInv, TypeOK
    <2>7. QED BY <2>1, <2>2, <2>3, <2>5, <2>6, OneReaderMoved
  <1>5. QED BY <1>1, <1>2, <1>3, <1>4

-----------------------------------------------------------------------------
(* The scraper's steps, and all together                                    *)

\* The scraper does not touch a request, and commits only when nobody reads.
LEMMA ScraperStep ==
  ASSUME JobsInv, Scraper
  PROVE  JobsInv'
  <1>1. /\ pc' = pc /\ kind' = kind /\ seen' = seen /\ left' = left /\ told' = told
        /\ shared' = shared
    BY DEF Scraper, Begin, WantFile, Exclude, Overwrite, CommitEdition, GiveUp, Die,
        Repair, readers
  <1>2. /\ edition' \in 0..MaxEdition /\ torn' \in BOOLEAN /\ journal' \in BOOLEAN
        /\ lock' \in Locks
    <2>1. edition' \in 0..MaxEdition
      BY MaxEditionAssumption DEF Scraper, Begin, WantFile, Exclude, Overwrite,
          CommitEdition, GiveUp, Die, Repair, JobsInv, TypeOK, FileGuarded
    <2>2. torn' \in BOOLEAN /\ journal' \in BOOLEAN
      BY DEF Scraper, Begin, WantFile, Exclude, Overwrite, CommitEdition, GiveUp,
          Die, Repair, JobsInv, TypeOK
    <2>3. lock' \in Locks
      BY DEF Scraper, Begin, WantFile, Exclude, Overwrite, CommitEdition, GiveUp,
          Die, Repair, JobsInv, TypeOK, Locks
    <2>4. QED BY <2>1, <2>2, <2>3
  <1>3. FileGuarded'
    BY DEF Scraper, Begin, WantFile, Exclude, Overwrite, CommitEdition, GiveUp, Die,
        Repair, Hot, JobsInv, FileGuarded
  <1>4. edition' = edition \/ shared = {}
    BY DEF Scraper, Begin, WantFile, Exclude, Overwrite, CommitEdition, GiveUp, Die,
        Repair, JobsInv, FileGuarded
  <1>5. TypeOK'
    BY <1>1, <1>2 DEF JobsInv, TypeOK
  <1>6. ReadersInv'
    BY <1>1, <1>4 DEF JobsInv, ReadersInv, Fresh, Pinned, Consistent
  <1>7. QED BY <1>3, <1>5, <1>6 DEF JobsInv

\* Every step keeps the invariant.
LEMMA JobsInvStep == JobsInv /\ [Next]_vars => JobsInv'
  <1> SUFFICES ASSUME JobsInv, [Next]_vars PROVE JobsInv'
    OBVIOUS
  <1>1. CASE UNCHANGED vars
    BY <1>1 DEF vars, JobsInv, TypeOK, FileGuarded, ReadersInv, Fresh, Pinned, Consistent
  <1>2. CASE \E r \in Readers : Arrive(r) \/ Serve(r)
    BY <1>2, ReadStep, LockedOutStep, PlainStep DEF Serve
  <1>3. CASE Scraper
    BY <1>3, ScraperStep
  <1>4. QED BY <1>1, <1>2, <1>3 DEF Next

\* The invariant holds always.
LEMMA JobsInvAlways == Spec => []JobsInv
  <1>1. Init => JobsInv
    <2> SUFFICES ASSUME Init PROVE JobsInv
      OBVIOUS
    <2>1. TypeOK
      <3>1. edition \in 0..MaxEdition /\ lock \in Locks /\ shared \in SUBSET Readers
        BY MaxEditionAssumption DEF Init, Locks
      <3>2. torn \in BOOLEAN /\ journal \in BOOLEAN
        BY DEF Init
      <3>3. /\ pc \in [Readers -> {"idle", "connect", "read", "end", "answer"}]
            /\ kind \in [Readers -> Kinds \cup {None}]
            /\ seen \in [Readers -> SUBSET (Nat \cup {Torn})]
            /\ left \in [Readers -> 0..6]
            /\ told \in [Readers -> Statuses]
        BY DEF Init, Statuses
      <3>4. \A r \in Readers : /\ kind[r] = None <=> pc[r] = "idle"
                               /\ told[r] # None <=> pc[r] \in {"end", "answer"}
        BY DEF Init
      <3>5. QED BY <3>1, <3>2, <3>3, <3>4 DEF TypeOK
    <2>2. FileGuarded
      BY DEF Init, FileGuarded
    <2>3. ReadersInv
      BY NoneAssumption DEF Init, ReadersInv, Fresh, Pinned, Consistent
    <2>4. QED BY <2>1, <2>2, <2>3 DEF JobsInv
  <1>2. QED BY <1>1, JobsInvStep, PTL DEF Spec

-----------------------------------------------------------------------------
(* What follows                                                             *)

\* In every reachable state of the read path the types hold, and a request has an
\* outcome exactly when it has stopped reading.
THEOREM ReadPathTypes == Spec => []TypeOK
  <1>1. JobsInv => TypeOK
    BY DEF JobsInv
  <1>2. QED BY <1>1, JobsInvAlways, PTL

\* In every reachable state the statements of one answer of a snapshot endpoint have
\* read one edition of jobs.db, whatever the scraper commits between them.
THEOREM AnswersOfOneEdition == Spec => []OneEdition
  <1>1. JobsInv => OneEdition
    BY DEF JobsInv, ReadersInv, Consistent, OneEdition
  <1>2. QED BY <1>1, JobsInvAlways, PTL

\* In every reachable state no statement has read a half-written file, also after
\* the scraper died while it wrote.
THEOREM TornNeverRead == Spec => []NeverTorn
  <1>1. JobsInv => NeverTorn
    BY DEF JobsInv, ReadersInv, Consistent, NeverTorn
  <1>2. QED BY <1>1, JobsInvAlways, PTL

\* In every reachable state a 200 and a 404 about a job are true of the edition
\* that was read.
THEOREM GatesTrue == Spec => []GateInSnapshot
  <1>1. JobsInv => GateInSnapshot
    BY DEF JobsInv, ReadersInv, Consistent, GateInSnapshot
  <1>2. QED BY <1>1, JobsInvAlways, PTL

\* In every reachable state only an open snapshot holds SHARED: however a request
\* ended, it does not keep the scraper out.
THEOREM LocksGivenBack == Spec => []NoLockAfterAnswer
  <1>1. JobsInv => NoLockAfterAnswer
    BY DEF JobsInv, TypeOK, ReadersInv, Pinned, NoLockAfterAnswer
  <1>2. QED BY <1>1, JobsInvAlways, PTL

\* A request is told to retry only while a living writer keeps it out, and not to
\* retry only when a dead one's journal does.
THEOREM CausesTold == Spec => ToldTheCause
  <1>1. JobsInv /\ [Next]_vars =>
          [\A r \in Readers : told'[r] # told[r] =>
             /\ told'[r] = "busy" => lock \in {"pending", "exclusive"}
             /\ told'[r] = "wedged" => lock = "none" /\ journal]_vars
    <2> SUFFICES ASSUME JobsInv, Next, NEW r \in Readers, told'[r] # told[r]
                 PROVE  /\ told'[r] = "busy" => lock \in {"pending", "exclusive"}
                        /\ told'[r] = "wedged" => lock = "none" /\ journal
      OBVIOUS
    <2>1. PICK o \in Readers : Read(o) \/ Busy(o) \/ Wedged(o) \/ Answer(o)
      BY DEF Next, Serve, Arrive, Connect, End, Scraper, Begin, WantFile, Exclude,
          Overwrite, CommitEdition, GiveUp, Die, Repair, readers
    <2>2. CASE Read(o) \/ Answer(o)
      BY <2>2, NoneAssumption DEF Read, Answer, Settle, JobsInv, TypeOK
    <2>3. CASE Busy(o)
      BY <2>3 DEF Busy, Locked, CanShare, Settle, JobsInv, TypeOK, Locks
    <2>4. CASE Wedged(o)
      BY <2>4 DEF Wedged, Locked, Hot, Settle, JobsInv, TypeOK
    <2>5. QED BY <2>1, <2>2, <2>3, <2>4
  <1>2. QED BY <1>1, JobsInvAlways, PTL DEF Spec, ToldTheCause

=============================================================================
