------------------------------ MODULE MCStartup ------------------------------
(***************************************************************************)
(* posted_at may be NULL, one of two dates, a timestamp between them, a    *)
(* value of the shape of a date that is none, and ten other characters.    *)
(***************************************************************************)
EXTENDS Startup

Ordered == <<"2026-08-01", "2026-08-01T12:00", "2026-08-02", "2026-99-99", "not-a-date">>

MCDates == {None, "2026-08-01", "2026-08-02"}
MCShaped == MCDates \cup {"2026-99-99"}
MCTenLong == MCShaped \cup {"not-a-date"}
MCValues == {Ordered[i] : i \in 1..5} \cup {None}
MCAfter == {<<Ordered[p[1]], Ordered[p[2]]>> : p \in {p \in (1..5) \X (1..5) : p[1] > p[2]}}

=============================================================================
