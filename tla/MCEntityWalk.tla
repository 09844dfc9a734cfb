---------------------------- MODULE MCEntityWalk ----------------------------
(* Every call graph without self-calls over one handler method and three    *)
(* others, at most one of them unreadable; one method saves an entity and   *)
(* one mentions an entity related to it.  The three are alike, so the saver *)
(* is the handler or a.                                                     *)
EXTENDS EntityWalk

CONSTANTS handle, a, b, c, order, line

MCMethods == {handle, a, b, c}
MCHandler == {handle}
MCEntities == {order, line}
Others == {a, b, c}

CallGraphs ==
  {g \in [MCMethods -> SUBSET Others] : \A m \in Others : m \notin g[m]}
Unreadable ==
  {[m \in MCMethods |-> "open"]} \cup
  {[m \in MCMethods |-> IF m = x THEN how ELSE "open"] :
      x \in Others, how \in {"hidden", "framework"}}

MCPrograms ==
  {[body |-> [m \in MCMethods |->
       [calls |-> calls[m], saves |-> IF m = saver THEN {order} ELSE {},
        mentions |-> (IF m = saver THEN {order} ELSE {})
                     \cup (IF m = mentioner THEN {line} ELSE {}),
        seen |-> seen[m]]],
    repositories |-> repositories,
    related |-> [e \in MCEntities |-> IF e = order THEN {order, line} ELSE {}]] :
      calls \in CallGraphs, seen \in Unreadable, saver \in {handle, a},
      mentioner \in MCMethods, repositories \in {{}, {order}}}
============================================================================
