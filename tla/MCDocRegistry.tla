--------------------------- MODULE MCDocRegistry ---------------------------
(* A type with a field of another type, a type of a command, and two        *)
(* request threads.                                                         *)
EXTENDS DocRegistry, TLC

CONSTANTS Order, Line, Receipt, Create, Cancel

MCNames == {Order, Line, Receipt}
MCFields == [n \in MCNames |-> IF n = Order THEN <<Line>> ELSE <<Simple>>]
MCRoots == <<Order>>
MCCommands == <<Create, Cancel>>
MCTypesOf == [c \in {Create, Cancel} |-> IF c = Create THEN {Receipt} ELSE {}]
============================================================================
