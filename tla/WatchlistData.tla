---------------------------- MODULE WatchlistData ----------------------------
(***************************************************************************)
(* The data of the watchlist service: the content of app.db, the requests, *)
(* the answers, and what a statement reads from or does to an image of the *)
(* database.                                                               *)
(***************************************************************************)
EXTENDS Integers, FiniteSets

CONSTANTS
  Clients,   \* the request handlers that may run at the same time
  MaxId,     \* bound: the largest watchlist id of the instance
  Names,     \* watchlist names
  Fold,      \* a name's key under COLLATE NOCASE
  Descs,     \* descriptions
  Jobs,      \* job ids of jobs.db
  Requests,  \* the requests clients send
  None,      \* SQL NULL; also: no row, no writer, no image
  Unset      \* a field a PATCH body does not name

Ids == 1..MaxId

Kinds == {"create", "list", "get", "put", "patch", "delete", "add", "items", "remove"}

Row == [name : Names, desc : Descs \cup {None}]

\* The content of app.db: the watchlists by id, and the watchlist_items.
Image == [lists : [Ids -> Row \cup {None}], items : SUBSET (Ids \X Jobs)]

\* jobs.db as this service reads it: whether a job has a row, and whether the row's
\* posted_at is a date, without which no response model accepts it.
Catalogue == [Jobs -> {"absent", "dated", "undated"}]

Present(cat) == {j \in Jobs : cat[j] # "absent"}

Servable(cat) == {j \in Jobs : cat[j] = "dated"}

Request == [kind : Kinds, id : Ids, name : Names \cup {None, Unset},
            desc : Descs \cup {None, Unset}, job : Jobs]

\* What request validation lets through: POST and PUT carry a name, a
\* description that is absent is NULL, and a PATCH names at least one field
\* (an explicit null is a value it names).
Valid(r) ==
  /\ r.kind \in {"create", "put"} => r.name \in Names /\ r.desc # Unset
  /\ r.kind = "patch" => r.name # Unset \/ r.desc # Unset

ASSUME BoundAssumption == MaxId \in Nat \ {0}
ASSUME NamesAssumption == Fold \in [Names -> Names]
ASSUME FiniteAssumption == IsFiniteSet(Jobs) /\ IsFiniteSet(Clients)
ASSUME NoneAssumption ==
  /\ None \notin Names \cup Descs \cup Clients \cup {Unset}
  /\ None \notin Row /\ None \notin Image /\ None \notin Request
  /\ Unset \notin Names \cup Descs
ASSUME RequestAssumption == Requests \subseteq Request /\ \A r \in Requests : Valid(r)

Refusals == {"watchlist_not_found", "job_not_found", "item_not_found",
             "duplicate", "unavailable", "internal_error"}

Statuses == {"none", "ok", "created", "no_content"} \cup Refusals

\* A page holds watchlist ids or job ids.
Answer == [status : Statuses, id : Ids \cup {0}, row : Row \cup {None},
           page : SUBSET (Ids \cup Jobs), missing : SUBSET (Ids \cup Jobs),
           count : Nat]

Blank == [status |-> "none", id |-> 0, row |-> None, page |-> {}, missing |-> {},
          count |-> 0]

-----------------------------------------------------------------------------
(* Reading and changing an image                                            *)

Existing(d) == {i \in Ids : d.lists[i] # None}

ItemsOf(d, i) == {j \in Jobs : <<i, j>> \in d.items}

\* Faulty: the column without COLLATE NOCASE.
NameTakenExactly(d, n, i) ==
  \E k \in Existing(d) \ {i} : d.lists[k].name = n

\* Faulty: a SELECT for the name that forgets to leave out the row itself.
NameTakenByAny(d, n, i) ==
  \E k \in Existing(d) : Fold[d.lists[k].name] = Fold[n]

\* UNIQUE COLLATE NOCASE: a row other than i has n's key.
NameTaken(d, n, i) ==
  \E k \in Existing(d) \ {i} : Fold[d.lists[k].name] = Fold[n]

\* INTEGER PRIMARY KEY without AUTOINCREMENT: one past the largest id in use.
IsNextId(d, i) ==
  /\ \A k \in Existing(d) : k < i
  /\ i = 1 \/ i - 1 \in Existing(d)

\* Faulty: foreign_keys left OFF, the clause is parsed and ignored.
WithoutListOnly(d, i) == [d EXCEPT !.lists[i] = None]

\* ON DELETE CASCADE under PRAGMA foreign_keys = ON.
WithoutList(d, i) ==
  [lists |-> [d.lists EXCEPT ![i] = None],
   items |-> {p \in d.items : p[1] # i}]

WithRow(d, i, row) == [d EXCEPT !.lists[i] = row]

\* Faulty: model_dump without exclude_unset, an unsent description is its default.
MergedWithDefaults(row, r) ==
  [name |-> IF r.name = Unset THEN row.name ELSE r.name,
   desc |-> IF r.desc = Unset THEN None ELSE r.desc]

\* Faulty: the marker of an unsent description reaches the column.
MergedWithMarker(row, r) ==
  [name |-> IF r.name = Unset THEN row.name ELSE r.name,
   desc |-> r.desc]

\* Only the columns the PATCH body names change.
Merged(row, r) ==
  [name |-> IF r.name = Unset THEN row.name ELSE r.name,
   desc |-> IF r.desc = Unset THEN row.desc ELSE r.desc]

\* A watchlist as _SELECT returns it: the row with a live count of its items.
RowAnswer(d, i) ==
  [Blank EXCEPT !.status = "ok", !.id = i, !.row = d.lists[i],
                !.count = Cardinality(ItemsOf(d, i))]

=============================================================================
