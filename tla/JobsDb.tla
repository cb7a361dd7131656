------------------------------- MODULE JobsDb -------------------------------
(***************************************************************************)
(* The read path: the requests that read jobs.db, and the scraper that     *)
(* writes it.  jobs.db is another program's file in rollback-journal mode, *)
(* opened mode=ro: a reader holds SHARED from the first read of a snapshot *)
(* to its end, or for one statement; the writer goes RESERVED, PENDING     *)
(* (no new reader), EXCLUSIVE (no reader at all), and overwrites the file  *)
(* in place after it has written the old pages to a journal.               *)
(*                                                                         *)
(* The content of the file is the number of scraper transactions committed *)
(* to it, its edition: two reads agree on everything when they saw the     *)
(* same edition.                                                           *)
(***************************************************************************)
EXTENDS Integers, FiniteSets

CONSTANTS
  Readers,     \* the requests that may be served at the same time
  MaxEdition,  \* bound: scraper transactions
  Holding,     \* the editions in which the job a request names exists
  None

ASSUME MaxEditionAssumption == MaxEdition \in Nat
ASSUME HoldingAssumption == Holding \subseteq Nat

\* The statements each endpoint sends, read_snapshot or not.
Statements == [jobs |-> 2, runs |-> 2, changes |-> 3, stats |-> 6,
               detail |-> 1, sources |-> 1, by_ids |-> 1]
Kinds == DOMAIN Statements
Snapshots == {"jobs", "runs", "changes", "stats"}

\* The endpoints whose first statement decides between 200 and 404.
Lookups == {"changes", "detail"}

Torn == -1  \* what a half-written file holds: no edition

Locks == {"none", "reserved", "pending", "exclusive"}
Statuses == {None, "ok", "not_found", "busy", "wedged"}

ASSUME NoneAssumption == None \notin Kinds \cup {"ok", "not_found", "busy", "wedged"}

VARIABLES
  edition,  \* committed scraper transactions
  torn,     \* the file holds pages of an unfinished one
  journal,  \* a synced journal with its old pages is on disk; until it is synced its
            \* header is zero and no reader takes it for one
  lock,     \* the lock of the living writer
  shared,   \* the readers that hold SHARED
  pc, kind, \* each request's next step, and its endpoint
  seen,     \* what its statements have read
  left,     \* statements it still has to send
  told      \* its outcome

readers == <<pc, kind, seen, left, told>>
writer == <<edition, torn, journal, lock>>
vars == <<edition, torn, journal, lock, shared, pc, kind, seen, left, told>>

\* A journal nobody is writing: its writer died.
Hot == journal /\ lock = "none"

Content == IF torn THEN Torn ELSE edition

-----------------------------------------------------------------------------
(* A request                                                                *)

Goto(r, step) == pc' = [pc EXCEPT ![r] = step]

Arrive(r) ==
  /\ pc[r] = "idle"
  /\ \E k \in Kinds : /\ kind' = [kind EXCEPT ![r] = k]
                      /\ left' = [left EXCEPT ![r] = Statements[k]]
  /\ Goto(r, "connect")
  /\ UNCHANGED <<writer, shared, seen, told>>

\* Faulty: readers that do not respect PENDING.
CanShareUnderPending(r) == r \in shared \/ (lock # "exclusive" /\ ~Hot)

\* Faulty: immutable=1 opens the file without looking at locks or journals.
CanAlwaysShare(r) == TRUE

\* SHARED is granted, or held already.
CanShare(r) == r \in shared \/ (lock \in {"none", "reserved"} /\ ~Hot)

\* connect(): the first PRAGMA that reads the schema takes SHARED and drops it.
Connect(r) ==
  /\ pc[r] = "connect"
  /\ CanShare(r)
  /\ Goto(r, "read")
  /\ UNCHANGED <<writer, shared, kind, seen, left, told>>

\* Faulty: read_snapshot without BEGIN, each statement drops its lock.
SharedBetweenReads(r) == shared

\* BEGIN is deferred: the first read of a snapshot takes the lock.
SharedAfterRead(r) == IF kind[r] \in Snapshots THEN shared \cup {r} ELSE shared

Settle(r, status, step) ==
  /\ told' = [told EXCEPT ![r] = status]
  /\ Goto(r, step)

\* Faulty: the 404 is noted, and the page and the count are read all the same.
ReadOn(r) ==
  LET first == seen[r] = {}
      absent == kind[r] \in Lookups /\ first /\ Content \notin Holding
      done == IF kind[r] \in Snapshots THEN "end" ELSE "answer"
  IN /\ pc[r] = "read"
     /\ CanShare(r)
     /\ seen' = [seen EXCEPT ![r] = @ \cup {Content}]
     /\ left' = [left EXCEPT ![r] = @ - 1]
     /\ shared' = SharedAfterRead(r)
     /\ \/ absent /\ Settle(r, "not_found", IF left[r] = 1 THEN done ELSE "read")
        \/ ~absent /\ left[r] = 1 /\ Settle(r, "ok", done)
        \/ ~absent /\ left[r] > 1 /\ UNCHANGED <<pc, told>>
     /\ UNCHANGED <<writer, kind>>

\* One SELECT.
Read(r) ==
  LET first == seen[r] = {}
      absent == kind[r] \in Lookups /\ first /\ Content \notin Holding
      done == IF kind[r] \in Snapshots THEN "end" ELSE "answer"
  IN /\ pc[r] = "read"
     /\ CanShare(r)
     /\ seen' = [seen EXCEPT ![r] = @ \cup {Content}]
     /\ left' = [left EXCEPT ![r] = @ - 1]
     /\ shared' = SharedAfterRead(r)
     /\ \/ absent /\ Settle(r, "not_found", done)
        \/ ~absent /\ left[r] = 1 /\ Settle(r, "ok", done)
        \/ ~absent /\ left[r] > 1 /\ UNCHANGED <<pc, told>>
     /\ UNCHANGED <<writer, kind>>

Locked(r) == pc[r] \in {"connect", "read"} /\ ~CanShare(r)

\* Faulty: every locked-out reader is told to retry.
BusyOrHot(r) ==
  /\ Locked(r)
  /\ Settle(r, "busy", "answer")
  /\ UNCHANGED <<writer, shared, kind, seen, left>>

\* Faulty: no busy timeout.
BusyNever(r) == Locked(r) /\ UNCHANGED vars

\* SQLITE_BUSY once the busy timeout is over: DATABASE_BUSY with Retry-After.
Busy(r) ==
  /\ Locked(r) /\ ~Hot
  /\ Settle(r, "busy", "answer")
  /\ UNCHANGED <<writer, shared, kind, seen, left>>

\* SQLITE_READONLY_ROLLBACK: DATABASE_UNAVAILABLE, no Retry-After.
Wedged(r) ==
  /\ Locked(r) /\ Hot
  /\ Settle(r, "wedged", "answer")
  /\ UNCHANGED <<writer, shared, kind, seen, left>>

\* Faulty: the snapshot is left open when its block raises.
EndOnSuccess(r) ==
  /\ pc[r] = "end"
  /\ shared' = IF told[r] = "ok" THEN shared \ {r} ELSE shared
  /\ Goto(r, "answer")
  /\ UNCHANGED <<writer, kind, seen, left, told>>

\* END, also when the block raised.
End(r) ==
  /\ pc[r] = "end"
  /\ shared' = shared \ {r}
  /\ Goto(r, "answer")
  /\ UNCHANGED <<writer, kind, seen, left, told>>

Answer(r) ==
  /\ pc[r] = "answer"
  /\ Goto(r, "idle")
  /\ kind' = [kind EXCEPT ![r] = None]
  /\ seen' = [seen EXCEPT ![r] = {}]
  /\ left' = [left EXCEPT ![r] = 0]
  /\ told' = [told EXCEPT ![r] = None]
  /\ UNCHANGED <<writer, shared>>

-----------------------------------------------------------------------------
(* The scraper (not in this repository)                                     *)

Begin ==
  /\ lock = "none" /\ ~journal /\ edition < MaxEdition
  /\ lock' = "reserved"
  /\ UNCHANGED <<edition, torn, journal, shared, readers>>

WantFile ==
  /\ lock = "reserved"
  /\ lock' = "pending"
  /\ UNCHANGED <<edition, torn, journal, shared, readers>>

\* The last reader is out; the journal is synced before a page is overwritten.
Exclude ==
  /\ lock = "pending" /\ shared = {}
  /\ lock' = "exclusive"
  /\ journal' = TRUE
  /\ UNCHANGED <<edition, torn, shared, readers>>

Overwrite ==
  /\ lock = "exclusive" /\ ~torn
  /\ torn' = TRUE
  /\ UNCHANGED <<edition, journal, lock, shared, readers>>

\* Deleting the journal is the commit.
CommitEdition ==
  /\ lock = "exclusive" /\ torn
  /\ edition' = edition + 1
  /\ torn' = FALSE
  /\ journal' = FALSE
  /\ lock' = "none"
  /\ UNCHANGED <<shared, readers>>

GiveUp ==
  /\ lock # "none"
  /\ lock' = "none"
  /\ torn' = FALSE
  /\ journal' = FALSE
  /\ UNCHANGED <<edition, shared, readers>>

Die ==
  /\ lock # "none"
  /\ lock' = "none"
  /\ UNCHANGED <<edition, torn, journal, shared, readers>>

\* The operator, or the next run of the scraper, opens the file for writing.
Repair ==
  /\ Hot
  /\ journal' = FALSE
  /\ torn' = FALSE
  /\ UNCHANGED <<edition, lock, shared, readers>>

-----------------------------------------------------------------------------

Init ==
  /\ edition = 0 /\ torn = FALSE /\ journal = FALSE /\ lock = "none"
  /\ shared = {}
  /\ pc = [r \in Readers |-> "idle"]
  /\ kind = [r \in Readers |-> None]
  /\ seen = [r \in Readers |-> {}]
  /\ left = [r \in Readers |-> 0]
  /\ told = [r \in Readers |-> None]

Serve(r) == Connect(r) \/ Read(r) \/ Busy(r) \/ Wedged(r) \/ End(r) \/ Answer(r)

Scraper == Begin \/ WantFile \/ Exclude \/ Overwrite \/ CommitEdition \/ GiveUp
           \/ Die \/ Repair

Next == (\E r \in Readers : Arrive(r) \/ Serve(r)) \/ Scraper

Spec == Init /\ [][Next]_vars

\* A request's thread runs on; a scraper that waits for readers keeps asking,
\* as SQLite's busy handler does.
FairSpec == Spec /\ (\A r \in Readers : WF_vars(Serve(r))) /\ WF_vars(Exclude)

-----------------------------------------------------------------------------
(* Properties                                                               *)

\* Types of the variables; a request has an endpoint while it is served, and an
\* outcome exactly when it has stopped reading.
TypeOK ==
  /\ edition \in 0..MaxEdition
  /\ torn \in BOOLEAN /\ journal \in BOOLEAN
  /\ lock \in Locks
  /\ shared \in SUBSET Readers
  /\ pc \in [Readers -> {"idle", "connect", "read", "end", "answer"}]
  /\ kind \in [Readers -> Kinds \cup {None}]
  /\ seen \in [Readers -> SUBSET (Nat \cup {Torn})]
  /\ left \in [Readers -> 0..6]
  /\ told \in [Readers -> Statuses]
  /\ \A r \in Readers :
       /\ kind[r] = None <=> pc[r] = "idle"
       /\ told[r] # None <=> pc[r] \in {"end", "answer"}

\* All statements of one answer of a snapshot endpoint read one edition: total,
\* rows, coverage and counts cannot come from both sides of a scraper commit.
OneEdition ==
  \A r \in Readers : kind[r] \in Snapshots =>
    \A e, f \in seen[r] : e = f

\* No statement reads a half-written file, not even after a writer died.
NeverTorn == \A r \in Readers : Torn \notin seen[r]

\* A 200 of /jobs/{id}/changes describes a job that exists in the edition its
\* changes and total were read from, and a 404 one that does not: the two facts
\* are never collapsed.
GateInSnapshot ==
  \A r \in Readers :
    /\ told[r] = "ok" /\ kind[r] \in Lookups => seen[r] \subseteq Holding
    /\ told[r] = "not_found" => seen[r] \cap Holding = {}

\* A request that has its answer holds no lock, whichever way it ended: no
\* refusal or 404 leaves the scraper waiting.
NoLockAfterAnswer ==
  \A r \in shared : pc[r] \in {"read", "end"} /\ kind[r] \in Snapshots

\* "Retry" is advised only while a living writer holds the file, and "do not
\* retry" only when none does.
ToldTheCause ==
  [][\A r \in Readers : told'[r] # told[r] =>
       /\ told'[r] = "busy" => lock \in {"pending", "exclusive"}
       /\ told'[r] = "wedged" => lock = "none" /\ journal]_vars

\* Every request is answered, whatever the scraper does or fails to do.
EveryRequestEnds == \A r \in Readers : pc[r] # "idle" ~> pc[r] = "idle"

\* Readers cannot keep the scraper from its commit: once it waits for the file it
\* gets it (or gives up or dies), although snapshots hold SHARED over several
\* statements.
ScraperNotStarved == lock = "pending" ~> lock # "pending"

=============================================================================
