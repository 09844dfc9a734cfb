------------------------- MODULE MCRequestSequence -------------------------
(***************************************************************************)
(* TLC instance of RequestSequence: two threads, three requests, a table   *)
(* capped at two entries so that the third request evicts.                 *)
(***************************************************************************)
EXTENDS RequestSequence, TLC

\* Thread and request names are interchangeable; not used where liveness is checked.
Symmetric == Permutations(Threads) \cup Permutations(Requests)
=============================================================================
