--------------------------- MODULE Startup_proofs ---------------------------
(***************************************************************************)
(* Safety of the startup: for any rows and values of posted_at, any locks  *)
(* and alterations by the scraper, and any number of starts cut off.       *)
(***************************************************************************)
EXTENDS Startup, TLAPS

-----------------------------------------------------------------------------
(* app.db                                                                   *)

LEMMA ScriptIs ==
  /\ Len(Script) = 4
  /\ Script[1] = "watchlists" /\ Script[2] = "items"
  /\ Script[3] = "index" /\ Script[4] = "version"
  BY DEF Script

Whole == {"watchlists", "items", "index", "version"}

\* What the statements before the present one have left in app.db.
Progress ==
  /\ next \in 1..5
  /\ next > 1 => "watchlists" \in created
  /\ next > 2 => "items" \in created
  /\ next > 3 => "index" \in created
  /\ next > 4 => "version" \in created

\* The version is there only with all that comes before it.
Versioned == "version" \in created => Whole \subseteq created

Gated ==
  /\ state \in {"values", "ensure", "serving"} => "jobs" \in found
  /\ state = "serving" => Whole \subseteq created

AppInv == Progress /\ Versioned /\ Gated

LEMMA AppInvInit == Init => AppInv
  BY DEF Init, AppInv, Progress, Versioned, Gated

\* Every action but Ensure leaves app.db alone, and nothing is ever taken from it.
LEMMA AppInvStep == AppInv /\ [Next]_vars => AppInv'
  <1> SUFFICES ASSUME AppInv, [Next]_vars PROVE AppInv'
    OBVIOUS
  <1> USE DEF AppInv, Progress, Versioned, Gated
  <1>1. CASE Start
    BY <1>1 DEF Start
  <1>2. CASE Locked
    BY <1>2 DEF Locked, Refuse
  <1>3. CASE VerifySchema
    BY <1>3 DEF VerifySchema, Refuse
  <1>4. CASE VerifyPostedAt
    <2>1. CASE Refuse
      BY <2>1 DEF Refuse
    <2>2. CASE ~Refuse
      BY <1>4, <2>2 DEF VerifyPostedAt, FirstStatement
    <2>3. QED BY <2>1, <2>2
  <1>5. CASE Ensure
    <2>1. CASE next <= Len(Script)
      <3>1. /\ next \in 1..4
            /\ created' = created \cup {Script[next]} /\ next' = next + 1
            /\ UNCHANGED <<state, found>> /\ state = "ensure"
        BY <1>5, <2>1, ScriptIs DEF Ensure
      <3>2. QED BY <3>1, ScriptIs DEF Whole
    <2>2. CASE next > Len(Script)
      <3>1. next = 5 /\ UNCHANGED <<created, next, found>> /\ state = "ensure"
        BY <1>5, <2>2, ScriptIs DEF Ensure
      <3>2. QED BY <3>1 DEF Whole
    <2>3. QED BY <2>1, <2>2, ScriptIs
  <1>6. CASE EnsureFails
    BY <1>6 DEF EnsureFails, Refuse
  <1>7. CASE Die
    BY <1>7 DEF Die, Refuse
  <1>8. CASE Page
    BY <1>8 DEF Page
  <1>9. CASE Stats
    BY <1>9 DEF Stats
  <1>10. CASE Scraper
    BY <1>10 DEF Scraper, Hold, Release, WriteRow, AlterTable, service
  <1>11. CASE UNCHANGED vars
    BY <1>11 DEF vars
  <1>12. QED
    BY <1>1, <1>2, <1>3, <1>4, <1>5, <1>6, <1>7, <1>8, <1>9, <1>10, <1>11
       DEF Next, Boot

-----------------------------------------------------------------------------
(* posted_at                                                                *)

\* What was verified, and has not been written since, has the shape of a date.
StillShaped == \A i \in checked : i \in DOMAIN rows /\ rows[i] \in Shaped

\* A failed answer has a row in it that explains it; there is none while booting.
Explained ==
  /\ state \in Booting => answer = None
  /\ answer # None /\ answer.status = 500 =>
       \E i \in answer.ids : i \notin checked \/ rows[i] \in Shaped \ Dates

ServeInv == StillShaped /\ Explained

LEMMA ServeInvInit == Init => ServeInv
  BY DEF Init, ServeInv, StillShaped, Explained

\* An answer computed from rows that are there.
LEMMA AnswerExplained ==
  ASSUME StillShaped, NEW S \in SUBSET DOMAIN rows,
         answer' = [ids |-> S, status |-> Status({rows[i] : i \in S})],
         answer'.status = 500
  PROVE  \E i \in answer'.ids : i \notin checked \/ rows[i] \in Shaped \ Dates
  <1>1. ~({rows[i] : i \in S} \subseteq Dates)
    BY DEF Status
  <1>2. PICK i \in S : rows[i] \notin Dates
    BY <1>1
  <1>3. QED BY <1>2 DEF StillShaped

LEMMA ServeInvStep == ServeInv /\ [Next]_vars => ServeInv'
  <1> SUFFICES ASSUME ServeInv, [Next]_vars PROVE ServeInv'
    OBVIOUS
  <1> USE DEF ServeInv
  <1>1. CASE Start
    BY <1>1 DEF Start, file, StillShaped, Explained
  <1>2. CASE Refuse
    BY <1>2 DEF Refuse, file, StillShaped, Explained, Booting
  <1>3. CASE VerifySchema /\ ~Refuse
    BY <1>3 DEF VerifySchema, file, StillShaped, Explained, Booting
  <1>4. CASE VerifyPostedAt /\ ~Refuse
    <2>1. /\ \A i \in DOMAIN rows : rows[i] \in Shaped
          /\ state = "values" /\ checked' = DOMAIN rows
          /\ UNCHANGED <<file, answer>>
      BY <1>4 DEF VerifyPostedAt, LooksLikeDate
    <2>2. QED BY <2>1 DEF file, StillShaped, Explained, Booting
  <1>5. CASE Ensure
    BY <1>5 DEF Ensure, file, StillShaped, Explained, Booting
  <1>6. CASE Page
    <2>1. PICK S \in SUBSET DOMAIN rows :
            answer' = [ids |-> S, status |-> Status({rows[i] : i \in S})]
      BY <1>6 DEF Page
    <2>2. state = "serving" /\ UNCHANGED <<file, state, checked>>
      BY <1>6 DEF Page
    <2>3. StillShaped'
      BY <2>2 DEF StillShaped, file
    <2>4. Explained'
      BY <2>1, <2>2, AnswerExplained DEF Explained, file, Booting
    <2>5. QED BY <2>3, <2>4
  <1>7. CASE Stats
    <2>1. PICK S \in SUBSET DOMAIN rows :
            answer' = [ids |-> S, status |-> Status({rows[i] : i \in S})]
      <3> DEFINE known == {i \in DOMAIN rows : rows[i] # None}
      <3> DEFINE ends ==
            {i \in known : \/ \A j \in known : <<rows[i], rows[j]>> \notin After
                           \/ \A j \in known : <<rows[j], rows[i]>> \notin After}
      <3>1. answer' = [ids |-> ends, status |-> Status({rows[i] : i \in ends})]
        BY <1>7 DEF Stats
      <3>2. ends \in SUBSET DOMAIN rows
        OBVIOUS
      <3> HIDE DEF ends
      <3>3. QED BY <3>1, <3>2
    <2>2. state = "serving" /\ UNCHANGED <<file, state, checked>>
      BY <1>7 DEF Stats
    <2>3. StillShaped'
      BY <2>2 DEF StillShaped, file
    <2>4. Explained'
      BY <2>1, <2>2, AnswerExplained DEF Explained, file, Booting
    <2>5. QED BY <2>3, <2>4
  <1>8. CASE WriteRow
    <2>1. PICK i \in Ids, v \in Values :
            /\ rows' = [j \in DOMAIN rows \cup {i} |-> IF j = i THEN v ELSE rows[j]]
            /\ checked' = checked \ {i}
      BY <1>8 DEF WriteRow
    <2>2. UNCHANGED <<state, answer>>
      BY <1>8 DEF WriteRow
    <2>3. StillShaped'
      BY <2>1 DEF StillShaped
    <2>4. ASSUME answer # None, answer.status = 500
          PROVE  \E k \in answer.ids : k \notin checked' \/ rows'[k] \in Shaped \ Dates
      <3>1. PICK k \in answer.ids : k \notin checked \/ rows[k] \in Shaped \ Dates
        BY <2>4 DEF Explained
      <3>2. CASE k \in checked /\ k # i
        BY <2>1, <3>1, <3>2 DEF StillShaped
      <3>3. CASE k \notin checked \/ k = i
        BY <2>1, <3>3
      <3>4. QED BY <3>2, <3>3
    <2>5. QED BY <2>2, <2>3, <2>4 DEF Explained
  <1>9. CASE Hold \/ Release \/ AlterTable
    BY <1>9 DEF Hold, Release, AlterTable, service, StillShaped, Explained
  <1>10. CASE UNCHANGED vars
    BY <1>10 DEF vars, StillShaped, Explained
  <1>11. QED
    BY <1>1, <1>2, <1>3, <1>4, <1>5, <1>6, <1>7, <1>8, <1>9, <1>10
       DEF Next, Boot, Scraper, Locked, EnsureFails, Die

-----------------------------------------------------------------------------
(* Theorems                                                                 *)

\* A service that serves has verified the jobs table and completed app.db.
THEOREM ReadyToServe == Spec => []ServingMeansReady
  <1>1. AppInv => ServingMeansReady
    BY DEF AppInv, Gated, Whole, ServingMeansReady
  <1>2. QED BY <1>1, AppInvInit, AppInvStep, PTL DEF Spec

\* An answer with posted_at fails only for a row the startup gate could not name.
THEOREM FailuresExplained == Spec => []OnlyNewOrShapedFails
  <1>1. ServeInv => OnlyNewOrShapedFails
    BY DEF ServeInv, Explained, OnlyNewOrShapedFails
  <1>2. QED BY <1>1, ServeInvInit, ServeInvStep, PTL DEF Spec

=============================================================================
