---------------------------- MODULE NumberSource ----------------------------
(* What the audit trail expects of RequestSequence: each row of a request   *)
(* gets, in one atomic step, the number after the last one.  The only       *)
(* licence is for a request the source has forgotten: its next row may get  *)
(* a smaller number again, but never one that skips ahead.                  *)
EXTENDS Naturals, Sequences

CONSTANT Requests

VARIABLES issued,     \* request -> the numbers its rows got, oldest first
          forgotten   \* requests whose numbering may start over

Init == /\ issued = [r \in Requests |-> << >>]
        /\ forgotten = {}

Issue(r) ==
  /\ \E n \in 1..(Len(issued[r]) + 1) :
        /\ issued' = [issued EXCEPT ![r] = Append(@, n)]
        /\ r \notin forgotten => n = Len(issued[r]) + 1
  /\ UNCHANGED forgotten

Forget == /\ forgotten' \in SUBSET Requests
          /\ forgotten \subseteq forgotten'
          /\ UNCHANGED issued

Next == Forget \/ \E r \in Requests : Issue(r)

Spec == Init /\ [][Next]_<<issued, forgotten>>
=============================================================================
