------------------------ MODULE JobsRefinement_proofs ------------------------
(***************************************************************************)
(* The read path implements JobsService: for every set of readers, every   *)
(* number of scraper transactions and every job.                           *)
(***************************************************************************)
EXTENDS JobsRefinement, JobsDb_proofs

Phases == [r \in Readers |-> PhaseOf(r)]
Answers == [r \in Readers |-> AnswerOf(r)]

\* A step of request r leaves the phase and the answer of the others alone.
LEMMA OthersKept ==
  ASSUME NEW r \in Readers,
         \A o \in Readers \ {r} : /\ pc'[o] = pc[o] /\ kind'[o] = kind[o]
                                  /\ seen'[o] = seen[o] /\ told'[o] = told[o]
  PROVE  /\ Phases' = [Phases EXCEPT ![r] = PhaseOf(r)']
         /\ Answers' = [Answers EXCEPT ![r] = AnswerOf(r)']
  <1>1. ASSUME NEW o \in Readers \ {r}
        PROVE  PhaseOf(o)' = PhaseOf(o) /\ AnswerOf(o)' = AnswerOf(o)
    <2>1. PhaseOf(o)' = PhaseOf(o)
      BY DEF PhaseOf
    <2>2. QED BY <2>1 DEF AnswerOf
  <1>2. QED BY <1>1 DEF Phases, Answers

\* The scraper looks the same to a step that does not touch its variables.
LEMMA ScraperKept == UNCHANGED writer => ScraperOf' = ScraperOf
  BY DEF writer, ScraperOf, Hot

-----------------------------------------------------------------------------
(* Requests                                                                 *)

LEMMA ArriveOpens ==
  ASSUME JobsInv, NEW r \in Readers, Arrive(r)
  PROVE  Service!Open(r)
  <1> USE NoneAssumption
  <1>1. PICK k \in Kinds : kind' = [kind EXCEPT ![r] = k]
    BY DEF Arrive
  <1>2. /\ pc[r] = "idle" /\ pc' = [pc EXCEPT ![r] = "connect"]
        /\ UNCHANGED writer /\ seen' = seen /\ told' = told
        /\ told[r] = None /\ seen[r] = {}
    BY DEF Arrive, Goto, JobsInv, TypeOK, ReadersInv, Fresh
  <1>3. PhaseOf(r) = "idle" /\ PhaseOf(r)' = "open"
    <2>1. pc'[r] = "connect" /\ told'[r] = None /\ seen'[r] = {}
      BY <1>2 DEF JobsInv, TypeOK
    <2>2. PhaseOf(r) = "idle"
      BY <1>2 DEF PhaseOf
    <2>3. PhaseOf(r)' = "open"
      BY <2>1 DEF PhaseOf
    <2>4. QED BY <2>2, <2>3
  <1>4. AnswerOf(r)' = AnswerOf(r)
    BY <1>3 DEF AnswerOf
  <1>5. /\ Phases' = [Phases EXCEPT ![r] = "open"]
        /\ Answers' = [Answers EXCEPT ![r] = AnswerOf(r)]
    BY <1>1, <1>2, <1>3, <1>4, OthersKept DEF JobsInv, TypeOK
  <1>6. Answers' = Answers
    BY <1>5 DEF Answers
  <1>7. QED BY <1>1, <1>2, <1>3, <1>5, <1>6, ScraperKept
           DEF Service!Open, Service!Set, Phases, Answers, writer

\* A step that only moves on, before the first SELECT or after the last.
LEMMA MovesOn ==
  ASSUME JobsInv, NEW r \in Readers, Connect(r) \/ End(r)
  PROVE  UNCHANGED <<edition, ScraperOf, Phases, kind, Answers>>
  <1>1. /\ UNCHANGED writer /\ kind' = kind /\ seen' = seen /\ told' = told
        /\ pc[r] # "idle" /\ pc'[r] # "idle"
        /\ \A o \in Readers \ {r} : pc'[o] = pc[o]
    BY DEF Connect, End, Goto, JobsInv, TypeOK
  <1>2. PhaseOf(r)' = PhaseOf(r)
    BY <1>1 DEF PhaseOf
  <1>3. AnswerOf(r)' = AnswerOf(r)
    BY <1>1, <1>2 DEF AnswerOf
  <1>4. Phases' = [Phases EXCEPT ![r] = PhaseOf(r)]
        /\ Answers' = [Answers EXCEPT ![r] = AnswerOf(r)]
    BY <1>1, <1>2, <1>3, OthersKept
  <1>5. QED BY <1>1, <1>4, ScraperKept DEF Phases, Answers, writer

\* The first SELECT decides the answer; the later ones find it decided.
LEMMA ReadDecides ==
  ASSUME JobsInv, NEW r \in Readers, Read(r)
  PROVE  Service!Found(r) \/ UNCHANGED <<edition, ScraperOf, Phases, kind, Answers>>
  <1> USE NoneAssumption
  <1>1. Content = edition /\ edition \in Nat
    BY ReadableIsCommitted DEF Read
  <1> DEFINE absent == kind[r] \in Lookups /\ seen[r] = {} /\ edition \notin Holding
  <1>2. /\ pc[r] = "read" /\ told[r] = None
        /\ seen' = [seen EXCEPT ![r] = @ \cup {edition}]
        /\ UNCHANGED writer /\ kind' = kind /\ kind[r] \in Kinds
    BY <1>1 DEF Read, JobsInv, TypeOK
  <1>3. /\ seen[r] \subseteq {edition}
        /\ seen[r] # {} /\ kind[r] \in Lookups => edition \in Holding
    BY <1>2 DEF JobsInv, ReadersInv, Pinned, Consistent
  <1>4. seen'[r] = {edition}
    BY <1>2, <1>3 DEF JobsInv, TypeOK
  <1>5. /\ told'[r] \in {None, "ok", "not_found"}
        /\ told'[r] = "not_found" => absent
        /\ told'[r] = "ok" => ~absent
        /\ pc'[r] # "idle"
        /\ \A o \in Readers \ {r} : /\ pc'[o] = pc[o] /\ kind'[o] = kind[o]
                                    /\ seen'[o] = seen[o] /\ told'[o] = told[o]
    <2>1. \/ /\ pc' = [pc EXCEPT ![r] = IF kind[r] \in Snapshots THEN "end" ELSE "answer"]
             /\ \/ absent /\ told' = [told EXCEPT ![r] = "not_found"]
                \/ ~absent /\ told' = [told EXCEPT ![r] = "ok"]
          \/ pc' = pc /\ told' = told
      BY <1>1 DEF Read, Settle, Goto
    <2>2. QED BY <1>2, <2>1 DEF JobsInv, TypeOK
  <1>6. PhaseOf(r)' = "done"
    BY <1>4, <1>5 DEF PhaseOf
  <1> DEFINE status == IF kind[r] \in Lookups /\ edition \notin Holding
                       THEN "not_found" ELSE "ok"
  <1>7. AnswerOf(r)' = [status |-> status, of |-> {edition}]
    <2>1. absent <=> kind[r] \in Lookups /\ edition \notin Holding
      BY <1>3
    <2>2. {edition} \cap Holding = {} <=> edition \notin Holding
      OBVIOUS
    <2>3. AnswerOf(r)' =
            [status |-> IF told'[r] # None THEN told'[r]
                        ELSE IF kind[r] \in Lookups /\ {edition} \cap Holding = {}
                             THEN "not_found" ELSE "ok",
             of |-> {edition}]
      <3>1. CASE told'[r] # None
        BY <1>2, <1>4, <1>6, <3>1 DEF AnswerOf
      <3>2. CASE told'[r] = None /\ kind[r] \in Lookups /\ {edition} \cap Holding = {}
        BY <1>2, <1>4, <1>6, <3>2 DEF AnswerOf
      <3>3. CASE told'[r] = None /\ ~(kind[r] \in Lookups /\ {edition} \cap Holding = {})
        BY <1>2, <1>4, <1>6, <3>3 DEF AnswerOf
      <3>4. QED BY <3>1, <3>2, <3>3
    <2>4. QED BY <1>5, <2>1, <2>2, <2>3
  <1>8. /\ Phases' = [Phases EXCEPT ![r] = "done"]
        /\ Answers' = [Answers EXCEPT ![r] = [status |-> status, of |-> {edition}]]
    BY <1>5, <1>6, <1>7, OthersKept
  <1>9. CASE seen[r] = {}
    <2>1. PhaseOf(r) = "open"
      BY <1>2, <1>9 DEF PhaseOf
    <2>2. Service!Found(r)
      BY <1>2, <1>8, <2>1, ScraperKept
         DEF Service!Found, Service!Decide, Service!Verdict, Service!Set, Phases,
             Answers, writer
    <2>3. QED BY <2>2
  <1>10. CASE seen[r] # {}
    <2>1. PhaseOf(r) = "done"
      BY <1>2, <1>10 DEF PhaseOf
    <2>2. seen[r] = {edition} /\ status = "ok"
      BY <1>3, <1>10
    <2>3. AnswerOf(r) = [status |-> status, of |-> {edition}]
      BY <1>2, <1>3, <2>1, <2>2 DEF AnswerOf
    <2>4. QED BY <1>2, <1>8, <2>1, <2>3, ScraperKept DEF Phases, Answers, writer
  <1>11. QED BY <1>9, <1>10

\* Who is locked out has read nothing, and is told what keeps it out.
LEMMA LockedOutDecides ==
  ASSUME JobsInv, NEW r \in Readers, Busy(r) \/ Wedged(r)
  PROVE  Service!RetryLater(r) \/ Service!NeedsOperator(r)
  <1> USE NoneAssumption
  <1>1. /\ pc[r] \in {"connect", "read"} /\ seen[r] = {} /\ told[r] = None
        /\ UNCHANGED writer /\ kind' = kind /\ seen' = seen
    BY DEF Busy, Wedged, Locked, CanShare, JobsInv, TypeOK, ReadersInv, Fresh, Pinned
  <1>2. PICK status \in {"busy", "wedged"} :
          /\ told' = [told EXCEPT ![r] = status]
          /\ pc' = [pc EXCEPT ![r] = "answer"]
          /\ status = "busy" => ScraperOf = "working"
          /\ status = "wedged" => ScraperOf = "dead"
    <2>1. Busy(r) => ScraperOf = "working"
      BY DEF Busy, Locked, CanShare, ScraperOf, JobsInv, TypeOK, Locks
    <2>2. Wedged(r) => ScraperOf = "dead"
      BY DEF Wedged, ScraperOf, Hot
    <2>3. QED BY <2>1, <2>2 DEF Busy, Wedged, Settle, Goto
  <1>3. PhaseOf(r) = "open" /\ PhaseOf(r)' = "done"
    BY <1>1, <1>2 DEF PhaseOf, JobsInv, TypeOK
  <1>4. AnswerOf(r)' = [status |-> status, of |-> {}]
    <2>1. told'[r] = status /\ told'[r] # None /\ seen'[r] = {}
      BY <1>1, <1>2 DEF JobsInv, TypeOK
    <2>2. QED BY <1>3, <2>1 DEF AnswerOf
  <1>5. /\ Phases' = [Phases EXCEPT ![r] = "done"]
        /\ Answers' = [Answers EXCEPT ![r] = [status |-> status, of |-> {}]]
    BY <1>1, <1>2, <1>3, <1>4, OthersKept DEF JobsInv, TypeOK
  <1>6. QED BY <1>1, <1>2, <1>3, <1>5, ScraperKept
           DEF Service!RetryLater, Service!NeedsOperator, Service!Decide, Service!Set,
               Phases, Answers, writer

LEMMA AnswerCloses ==
  ASSUME JobsInv, NEW r \in Readers, Answer(r)
  PROVE  Service!Close(r)
  <1> USE NoneAssumption
  <1>1. /\ pc[r] = "answer" /\ pc' = [pc EXCEPT ![r] = "idle"]
        /\ UNCHANGED writer /\ kind' = [kind EXCEPT ![r] = None]
        /\ seen' = [seen EXCEPT ![r] = {}] /\ told' = [told EXCEPT ![r] = None]
        /\ told[r] # None
    BY DEF Answer, Goto, JobsInv, TypeOK
  <1>2. PhaseOf(r) = "done" /\ PhaseOf(r)' = "idle"
    <2>1. pc'[r] = "idle"
      BY <1>1 DEF JobsInv, TypeOK
    <2>2. PhaseOf(r) = "done"
      BY <1>1 DEF PhaseOf
    <2>3. PhaseOf(r)' = "idle"
      BY <2>1 DEF PhaseOf
    <2>4. QED BY <2>2, <2>3
  <1>3. AnswerOf(r)' = None
    BY <1>2 DEF AnswerOf
  <1>4. /\ Phases' = [Phases EXCEPT ![r] = "idle"]
        /\ Answers' = [Answers EXCEPT ![r] = None]
    BY <1>1, <1>2, <1>3, OthersKept DEF JobsInv, TypeOK
  <1>5. QED BY <1>1, <1>2, <1>4, ScraperKept
           DEF Service!Close, Service!Set, Phases, Answers, writer

-----------------------------------------------------------------------------
(* The scraper, and all together                                            *)

LEMMA ScraperMaps ==
  ASSUME JobsInv, Scraper
  PROVE  \/ Service!Work \/ Service!Leave \/ Service!Abandon \/ Service!Repaired
         \/ UNCHANGED <<edition, ScraperOf, Phases, kind, Answers>>
  <1>1. UNCHANGED <<pc, kind, seen, told>>
    BY DEF Scraper, Begin, WantFile, Exclude, Overwrite, CommitEdition, GiveUp, Die,
        Repair, readers
  <1>2. UNCHANGED <<Phases, kind, Answers>>
    <2>1. \A r \in Readers : PhaseOf(r)' = PhaseOf(r)
      BY <1>1 DEF PhaseOf
    <2>2. \A r \in Readers : AnswerOf(r)' = AnswerOf(r)
      BY <1>1, <2>1 DEF AnswerOf
    <2>3. QED BY <1>1, <2>1, <2>2 DEF Phases, Answers
  <1> USE DEF ScraperOf, Hot
  <1>3. CASE Begin
    BY <1>2, <1>3 DEF Begin, Service!Work, Phases, Answers
  <1>4. CASE WantFile \/ Exclude \/ Overwrite
    BY <1>2, <1>4 DEF WantFile, Exclude, Overwrite
  <1>5. CASE CommitEdition \/ GiveUp
    BY <1>2, <1>5 DEF CommitEdition, GiveUp, Service!Leave, Phases, Answers
  <1>6. CASE Die
    BY <1>2, <1>6 DEF Die, Service!Leave, Service!Abandon, Phases, Answers
  <1>7. CASE Repair
    BY <1>2, <1>7 DEF Repair, Service!Repaired, Phases, Answers
  <1>8. QED BY <1>3, <1>4, <1>5, <1>6, <1>7 DEF Scraper

\* Each step of the read path is a step of the service it promises, or none of its.
LEMMA StepMaps == JobsInv /\ [Next]_vars => [Service!SNext]_(Service!svars)
  <1> SUFFICES ASSUME JobsInv, [Next]_vars
               PROVE  \/ Service!SNext
                      \/ UNCHANGED <<edition, ScraperOf, Phases, kind, Answers>>
    BY DEF Service!svars, Phases, Answers
  <1>1. CASE \E r \in Readers : Arrive(r) \/ Serve(r)
    BY <1>1, ArriveOpens, MovesOn, ReadDecides, LockedOutDecides, AnswerCloses
       DEF Serve, Service!SNext, Service!Request
  <1>2. CASE Scraper
    BY <1>2, ScraperMaps DEF Service!SNext
  <1>3. CASE UNCHANGED vars
    <2>1. \A r \in Readers : PhaseOf(r)' = PhaseOf(r)
      BY <1>3 DEF vars, PhaseOf
    <2>2. \A r \in Readers : AnswerOf(r)' = AnswerOf(r)
      BY <1>3, <2>1 DEF vars, AnswerOf
    <2>3. QED BY <1>3, <2>1, <2>2 DEF vars, ScraperOf, Hot, Phases, Answers
  <1>4. QED BY <1>1, <1>2, <1>3 DEF Next

\* The read path implements its service: an answer is decided at one moment of its
\* request by the edition current then, and a refusal by what the scraper does then.
THEOREM ReadPathImplements == Spec => ImplementsJobs
  <1>1. Init => Service!SInit
    <2> SUFFICES ASSUME Init PROVE Service!SInit
      OBVIOUS
    <2>1. ScraperOf = "away"
      BY DEF Init, ScraperOf, Hot
    <2>2. \A r \in Readers : PhaseOf(r) = "idle"
      BY DEF Init, PhaseOf
    <2>3. \A r \in Readers : AnswerOf(r) = None
      BY <2>2 DEF AnswerOf
    <2>4. QED BY <2>1, <2>2, <2>3 DEF Init, Service!SInit
  <1>2. QED BY <1>1, StepMaps, JobsInvAlways, PTL
           DEF Spec, ImplementsJobs, Service!SSpec

=============================================================================
