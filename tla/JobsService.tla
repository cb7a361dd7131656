----------------------------- MODULE JobsService -----------------------------
(***************************************************************************)
(* What the endpoints over jobs.db promise, without connections, locks,    *)
(* statements or a journal.  A request is open until the whole of its      *)
(* answer is decided, at one moment, by the edition of jobs.db that is     *)
(* current then: never by one from before the request, never by two, never *)
(* by half a one.  Or it is turned away, for what the scraper does at that *)
(* moment.                                                                 *)
(***************************************************************************)
EXTENDS Integers

CONSTANTS
  Readers,     \* the requests that may be served at the same time
  Kinds,       \* the endpoints
  Lookups,     \* those that answer 404 for a job that is not there
  MaxEdition,  \* bound: scraper transactions
  Holding,     \* the editions in which the job a request names exists
  None

VARIABLES
  published,  \* the editions published so far
  scraper,    \* "away", "working" on the next one, or "dead" in the middle of it
  phase,      \* how far each request is
  asked,      \* its endpoint
  answer      \* its status, and the editions it is made of

svars == <<published, scraper, phase, asked, answer>>

Set(f, r, value) == [f EXCEPT ![r] = value]

Verdict(k, e) == IF k \in Lookups /\ e \notin Holding THEN "not_found" ELSE "ok"

-----------------------------------------------------------------------------

Open(r) ==
  /\ phase[r] = "idle"
  /\ \E k \in Kinds : asked' = Set(asked, r, k)
  /\ phase' = Set(phase, r, "open")
  /\ UNCHANGED <<published, scraper, answer>>

Decide(r, status, editions) ==
  /\ phase[r] = "open"
  /\ phase' = Set(phase, r, "done")
  /\ answer' = Set(answer, r, [status |-> status, of |-> editions])
  /\ UNCHANGED <<published, scraper, asked>>

Found(r) == Decide(r, Verdict(asked[r], published), {published})

RetryLater(r) == scraper = "working" /\ Decide(r, "busy", {})

NeedsOperator(r) == scraper = "dead" /\ Decide(r, "wedged", {})

Close(r) ==
  /\ phase[r] = "done"
  /\ phase' = Set(phase, r, "idle")
  /\ asked' = Set(asked, r, None)
  /\ answer' = Set(answer, r, None)
  /\ UNCHANGED <<published, scraper>>

Work ==
  /\ scraper = "away" /\ published < MaxEdition
  /\ scraper' = "working"
  /\ UNCHANGED <<published, phase, asked, answer>>

\* With a new edition, or without.
Leave ==
  /\ scraper = "working"
  /\ scraper' = "away"
  /\ published' \in {published, published + 1}
  /\ UNCHANGED <<phase, asked, answer>>

Abandon ==
  /\ scraper = "working"
  /\ scraper' = "dead"
  /\ UNCHANGED <<published, phase, asked, answer>>

Repaired ==
  /\ scraper = "dead"
  /\ scraper' = "away"
  /\ UNCHANGED <<published, phase, asked, answer>>

-----------------------------------------------------------------------------

SInit ==
  /\ published = 0 /\ scraper = "away"
  /\ phase = [r \in Readers |-> "idle"]
  /\ asked = [r \in Readers |-> None]
  /\ answer = [r \in Readers |-> None]

Request(r) == Open(r) \/ Found(r) \/ RetryLater(r) \/ NeedsOperator(r) \/ Close(r)

SNext == (\E r \in Readers : Request(r)) \/ Work \/ Leave \/ Abandon \/ Repaired

SSpec == SInit /\ [][SNext]_svars

=============================================================================
