------------------------------ MODULE MCJobsDb ------------------------------
(***************************************************************************)
(* Small instances of JobsDb.  The job a request names is in the first     *)
(* edition, leaves in the second and is back in the third.                 *)
(***************************************************************************)
EXTENDS JobsRefinement

CONSTANTS r1, r2

MCHolding == {0, 2}

=============================================================================
