------------------------------- MODULE Startup -------------------------------
(***************************************************************************)
(* The lifespan of the service up to its first requests: the startup gate  *)
(* over jobs.db, which another program goes on writing, the creation of    *)
(* app.db statement by statement, a process that may die at any of them,   *)
(* and the requests that serve posted_at afterwards.                       *)
(***************************************************************************)
EXTENDS Integers, Sequences, FiniteSets

CONSTANTS
  Ids,     \* bound: the rows jobs.db may get
  Values,  \* what may be in posted_at; NULL is None
  Dates, Shaped, TenLong,  \* those that are dates, match the GLOB, have ten characters
  After,   \* the order of text: pairs <<v, w>> with v after w
  None

ASSUME ValuesAssumption ==
  /\ None \in Dates /\ Dates \subseteq Shaped /\ Shaped \subseteq TenLong
  /\ TenLong \subseteq Values
  /\ IsFiniteSet(Ids)
  /\ After \subseteq (Values \ {None}) \X (Values \ {None})

\* The tables of jobs.db whose columns the queries name.
Tables == {"jobs", "runs", "job_changes"}

\* What ensure_schema does, each statement a transaction of its own.
Script == <<"watchlists", "items", "index", "version">>

VARIABLES
  rows,      \* id -> posted_at
  tables,    \* the tables that have every column the service reads
  held,      \* the scraper holds the file exclusively
  created,   \* what app.db has got
  state,     \* the process
  next,      \* the statement of Script it is at
  checked,   \* the ids whose posted_at was verified and is what it was then
  found,     \* the tables that were as expected when the schema was
  answer     \* the last answer: the ids it is computed from, and its status

file == <<rows, tables, held>>
vars == <<rows, tables, held, created, state, next, checked, found, answer>>

Booting == {"schema", "values", "ensure"}

-----------------------------------------------------------------------------
(* Starting                                                                 *)

Start ==
  /\ state = "down"
  /\ state' = "schema"
  /\ checked' = {} /\ found' = {} /\ answer' = None
  /\ UNCHANGED <<file, created, next>>

\* check_database, or a statement of it, raises: the lifespan fails.
Refuse ==
  /\ state' = "down"
  /\ UNCHANGED <<file, created, next, checked, found, answer>>

\* Faulty: SQLITE_BUSY is tried again and again.
LockedForEver == state \in {"schema", "values"} /\ held /\ UNCHANGED vars

\* The busy timeout is over; at startup nobody classifies it.
Locked ==
  /\ state \in {"schema", "values"} /\ held
  /\ Refuse

VerifySchema ==
  /\ state = "schema" /\ ~held
  /\ \/ "jobs" \notin tables /\ Refuse
     \/ /\ "jobs" \in tables
        /\ state' = "values"
        /\ found' = tables
        /\ UNCHANGED <<file, created, next, checked, answer>>

\* Faulty: length(posted_at) <> 10.
LooksLikeDateByLength(v) == v \in TenLong

\* posted_at IS NULL OR posted_at GLOB ...
LooksLikeDate(v) == v \in Shaped

\* Faulty: an app.db that is there is taken to be complete.
FirstStatementIfNew == IF created = {} THEN 1 ELSE Len(Script) + 1

\* CREATE ... IF NOT EXISTS: always from the start.
FirstStatement == 1

VerifyPostedAt ==
  /\ state = "values" /\ ~held
  /\ \/ (\E i \in DOMAIN rows : ~LooksLikeDate(rows[i])) /\ Refuse
     \/ /\ \A i \in DOMAIN rows : LooksLikeDate(rows[i])
        /\ state' = "ensure"
        /\ next' = FirstStatement
        /\ checked' = DOMAIN rows
        /\ UNCHANGED <<file, created, found, answer>>

\* One statement of ensure_schema; after the last one the service serves.
Ensure ==
  /\ state = "ensure"
  /\ \/ /\ next <= Len(Script)
        /\ created' = created \cup {Script[next]}
        /\ next' = next + 1
        /\ UNCHANGED state
     \/ /\ next > Len(Script)
        /\ state' = "serving"
        /\ UNCHANGED <<created, next>>
  /\ UNCHANGED <<file, checked, found, answer>>

\* A full disk, a directory that cannot be written.
EnsureFails == state = "ensure" /\ Refuse

Die == state # "down" /\ Refuse

-----------------------------------------------------------------------------
(* Serving posted_at                                                        *)

Status(values) == IF values \subseteq Dates THEN 200 ELSE 500

\* A page of GET /jobs or of a watchlist, or one job: items is validated whole.
Page ==
  /\ state = "serving"
  /\ \E ids \in SUBSET DOMAIN rows :
       answer' = [ids |-> ids, status |-> Status({rows[i] : i \in ids})]
  /\ UNCHANGED <<file, created, state, next, checked, found>>

\* GET /stats serves MIN(posted_at) and MAX(posted_at).
Stats ==
  LET known == {i \in DOMAIN rows : rows[i] # None}
      ends == {i \in known : \/ \A j \in known : <<rows[i], rows[j]>> \notin After
                             \/ \A j \in known : <<rows[j], rows[i]>> \notin After}
  IN /\ state = "serving"
     /\ answer' = [ids |-> ends, status |-> Status({rows[i] : i \in ends})]
     /\ UNCHANGED <<file, created, state, next, checked, found>>

-----------------------------------------------------------------------------
(* The scraper                                                              *)

service == <<created, state, next, checked, found, answer>>

Hold == ~held /\ held' = TRUE /\ UNCHANGED <<rows, tables, service>>
Release == held /\ held' = FALSE /\ UNCHANGED <<rows, tables, service>>

\* A commit: a row that is new or written over, or a new schema.
WriteRow ==
  /\ held
  /\ \E i \in Ids, v \in Values :
       /\ rows' = [j \in DOMAIN rows \cup {i} |-> IF j = i THEN v ELSE rows[j]]
       /\ checked' = checked \ {i}
  /\ UNCHANGED <<tables, held, created, state, next, found, answer>>

AlterTable ==
  /\ held
  /\ \E t \in Tables : tables' = (tables \ {t}) \cup ({t} \ tables)
  /\ UNCHANGED <<rows, held, service>>

Scraper == Hold \/ Release \/ WriteRow \/ AlterTable

Init ==
  /\ rows = <<>> /\ tables \in {Tables, Tables \ {"runs"}} /\ held = FALSE
  /\ created = {} /\ state = "down" /\ next = 1
  /\ checked = {} /\ found = {} /\ answer = None

Boot == Locked \/ VerifySchema \/ VerifyPostedAt \/ Ensure

Next == Start \/ Boot \/ EnsureFails \/ Die \/ Page \/ Stats \/ Scraper

Spec == Init /\ [][Next]_vars

\* The process runs on; nothing is assumed of the scraper or the operator.
FairSpec == Spec /\ WF_vars(Boot)

-----------------------------------------------------------------------------
(* Properties                                                               *)

\* No request is served before app.db is complete, also when an earlier start died
\* half way, and before the jobs table was found to be as expected.
ServingMeansReady ==
  state = "serving" => /\ {"watchlists", "items", "index", "version"} \subseteq created
                       /\ "jobs" \in found

\* What fails while posted_at is served could not have been named at startup by its
\* shape: a row written after the check, or one that is shaped like a date and is
\* none.  No answer without such a row fails.
OnlyNewOrShapedFails ==
  answer # None /\ answer.status = 500 =>
    \E i \in answer.ids : i \notin checked \/ rows[i] \in Shaped \ Dates

\* Each start ends in service or in a refusal, whatever locks the scraper holds.
StartupDecides == state \in Booting ~> state \notin Booting

=============================================================================
