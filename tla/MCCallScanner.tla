--------------------------- MODULE MCCallScanner ---------------------------
(* Two object types and two method names, each set without structure.       *)
EXTENDS CallScanner, TLC

Symm == Permutations(Types) \cup Permutations(MethodNames)
============================================================================
