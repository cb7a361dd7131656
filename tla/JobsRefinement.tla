--------------------------- MODULE JobsRefinement ---------------------------
(***************************************************************************)
(* The requests of JobsDb keep what JobsService promises.  The answer is   *)
(* decided at the first SELECT: what follows it in a snapshot reads the    *)
(* same edition and cannot be locked out any more.                         *)
(***************************************************************************)
EXTENDS JobsDb

\* How far a request is for its client.
PhaseOf(r) == IF pc[r] = "idle" THEN "idle"
              ELSE IF told[r] = None /\ seen[r] = {} THEN "open" ELSE "done"

\* What it will be told, which from the first read on is certain.
AnswerOf(r) ==
  IF PhaseOf(r) # "done" THEN None
  ELSE [status |-> IF told[r] # None THEN told[r]
                   ELSE IF kind[r] \in Lookups /\ seen[r] \cap Holding = {}
                   THEN "not_found" ELSE "ok",
        of     |-> seen[r]]

\* What can be seen of the scraper by who opens the file.
ScraperOf == CASE lock # "none" -> "working"
               [] Hot           -> "dead"
               [] OTHER         -> "away"

Service == INSTANCE JobsService WITH
  published <- edition,
  scraper   <- ScraperOf,
  phase     <- [r \in Readers |-> PhaseOf(r)],
  asked     <- kind,
  answer    <- [r \in Readers |-> AnswerOf(r)]

\* Every behaviour of the requests and the scraper is one in which each answer is
\* decided at one moment, after its request came, by what jobs.db held then.
ImplementsJobs == Service!SSpec

=============================================================================
