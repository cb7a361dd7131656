-------------------------- MODULE MCWatchlistRetry --------------------------
(***************************************************************************)
(* Two clients that may each send a request twice.                         *)
(***************************************************************************)
EXTENDS WatchlistRetry, TLC

CONSTANTS c1, c2, n1, n2

ClientSymmetry == Permutations(Clients)
NameSymmetry == Permutations(Names)
RetrySymmetry == ClientSymmetry \cup NameSymmetry

=============================================================================
