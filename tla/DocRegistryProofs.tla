------------------------- MODULE DocRegistryProofs -------------------------
(* For any number of threads, requests and types, of the documentation:     *)
(*   - it serves every command exactly once, in order.  The list of flows   *)
(*     is filled under a lock, is read outside it, and a build that throws  *)
(*     leaves entries in it; it is complete before anybody can leave the    *)
(*     gate, and a build which can throw never lets anybody out (GateInv)   *)
(*   - a kept registry is safe once warm: nobody clears it, every type that *)
(*     is asked for is there, a field goes to a registration that was lost, *)
(*     because no two registrations share an object (RegistryInv, WarmInv)  *)
(*   - a cleared registry heals: a request that is alone leaves exactly the *)
(*     types its roots lead to, each whole (LoneInv)                        *)
EXTENDS DocRegistry, TLAPS, SequenceTheorems, FiniteSetTheorems

Phases == {"idle", "map", "lock", "build", "clear", "fill", "copy", "answer"}
CommandSeqs == Seq(Range(Commands))

(* One builder at a time, who holds the monitor.                            *)
OneBuilder == \A t \in Threads : pc[t] = "build" <=> lock = t

(* What is listed and what is left to be listed.                            *)
Listing ==
  /\ \A t \in Threads : lock = t => todo[t] \in CommandSeqs
  /\ ~duplicate =>
       /\ handlerMap = "null" /\ lock = None => flows = << >>
       /\ handlerMap = "built" => flows = Commands
       /\ \A t \in Threads : lock = t =>
            /\ handlerMap = "null" => flows \o todo[t] = Commands
            /\ handlerMap = "built" => todo[t] = << >>

(* Nobody passes the gate before the map is there, and nobody goes around.  *)
Gate ==
  \A t \in Threads :
    /\ style = "kept" =>
         pc[t] # "clear" /\ (pc[t] \in {"fill", "copy", "answer"} => handlerMap = "built")
    /\ style # "kept" => pc[t] \notin {"map", "lock", "build"}

GateInv ==
  /\ pc \in [Threads -> Phases]
  /\ DOMAIN todo = Threads /\ DOMAIN answer = Threads
  /\ lock \in Threads \cup {None} /\ handlerMap \in {"null", "built"}
  /\ flows \in CommandSeqs /\ duplicate \in BOOLEAN
  /\ duplicate => handlerMap = "null"
  /\ OneBuilder
  /\ Listing
  /\ Gate
  /\ ServedFlowsAreWhole

----------------------------------------------------------------------------
(* The head of one sequence moves to the end of the one before it.          *)
LEMMA MoveHead ==
  ASSUME NEW S, NEW s \in Seq(S), NEW r \in Seq(S), r # << >>
  PROVE  Append(s, Head(r)) \o Tail(r) = s \o r
<1> DEFINE l == Append(s, Head(r)) \o Tail(r)
           e == s \o r
<1>1. /\ Head(r) = r[1] /\ Len(r) \in Nat /\ Len(r) >= 1 /\ Len(s) \in Nat
      /\ Tail(r) \in Seq(S) /\ Len(Tail(r)) = Len(r) - 1
      /\ \A i \in 1..(Len(r) - 1) : Tail(r)[i] = r[i + 1]
  OBVIOUS
<1>2. /\ Append(s, Head(r)) \in Seq(S) /\ Len(Append(s, Head(r))) = Len(s) + 1
      /\ Append(s, Head(r))[Len(s) + 1] = r[1]
      /\ \A i \in 1..Len(s) : Append(s, Head(r))[i] = s[i]
  BY <1>1
<1>3. l \in Seq(S) /\ e \in Seq(S) /\ Len(l) = Len(s) + Len(r) /\ Len(e) = Len(s) + Len(r)
  BY <1>1, <1>2
<1>4. ASSUME NEW i \in 1..(Len(s) + Len(r)) PROVE l[i] = e[i]
  <2>1. CASE i <= Len(s)
    BY <1>1, <1>2, <2>1
  <2>2. CASE i = Len(s) + 1
    BY <1>1, <1>2, <2>2
  <2>3. CASE i > Len(s) + 1
    <3>1. l[i] = Tail(r)[i - (Len(s) + 1)] /\ e[i] = r[i - Len(s)]
      BY <1>1, <1>2, <2>3
    <3>2. i - (Len(s) + 1) \in 1..(Len(r) - 1)
      BY <1>1, <2>3
    <3> QED
      BY <1>1, <3>1, <3>2
  <2> QED
    BY <1>1, <2>1, <2>2, <2>3
<1> HIDE DEF l, e
<1> QED
  BY <1>3, <1>4 DEF l, e

LEMMA GateInitInv == DocInit => GateInv
<1> SUFFICES ASSUME DocInit PROVE GateInv
  OBVIOUS
<1>1. << >> \in CommandSeqs
  BY DEF CommandSeqs
<1> QED
  BY <1>1, DocAssumption
  DEF DocInit, GateInv, Phases, OneBuilder, Listing, Gate, ServedFlowsAreWhole, Answered

(* Steps outside the gate: those that change neither it nor, before it is   *)
(* passed, the program counter.                                             *)
LEMMA OutsideInv ==
  ASSUME GateInv, NEW t \in Threads, NEW next \in Phases \ {"build"}, pc[t] # "build",
         UNCHANGED <<style, duplicate, handlerMap, lock, flows>>,
         pc' = [pc EXCEPT ![t] = next],
         DOMAIN todo' = Threads, \A u \in Threads : u # t => todo'[u] = todo[u],
         DOMAIN answer' = Threads, ServedFlowsAreWhole',
         style = "kept" =>
           next # "clear" /\ (next \in {"fill", "copy", "answer"} => handlerMap = "built"),
         style # "kept" => next \notin {"map", "lock", "build"}
  PROVE  GateInv'
<1>1. /\ pc' \in [Threads -> Phases] /\ pc'[t] = next
      /\ \A u \in Threads : u # t => pc'[u] = pc[u]
  BY DEF GateInv
<1>2. lock # t
  BY DEF GateInv, OneBuilder
<1>3. OneBuilder'
  BY <1>1, <1>2 DEF GateInv, OneBuilder
<1>4. Listing'
  BY <1>2 DEF GateInv, Listing, CommandSeqs
<1>5. Gate'
  BY <1>1 DEF GateInv, Gate
<1> QED
  BY <1>1, <1>3, <1>4, <1>5 DEF GateInv, CommandSeqs, Phases

LEMMA RequestInv ==
  ASSUME GateInv, NEW t \in Threads, Request(t)
  PROVE  GateInv'
<1> DEFINE next == IF style = "kept" THEN "map" ELSE "clear"
<1>1. /\ next \in Phases \ {"build"} /\ pc[t] = "idle"
      /\ pc' = [pc EXCEPT ![t] = next]
      /\ next \notin {"fill", "copy", "answer"} /\ (style = "kept" => next # "clear")
      /\ (style # "kept" => next = "clear")
      /\ UNCHANGED <<style, duplicate, handlerMap, lock, flows, todo>>
      /\ answer' = [u \in Threads |-> None]
  BY DEF Request, Active, Phases, gateVars
<1>2. ServedFlowsAreWhole' /\ DOMAIN todo' = Threads /\ DOMAIN answer' = Threads
  BY <1>1 DEF ServedFlowsAreWhole, Answered, GateInv
<1> HIDE DEF next
<1> QED
  BY <1>1, <1>2, OutsideInv

LEMMA ReadMapInv ==
  ASSUME GateInv, NEW t \in Threads, ReadMap(t)
  PROVE  GateInv'
<1> DEFINE next == IF handlerMap = "null" THEN "lock" ELSE "fill"
<1>0. style = "kept"
  BY DEF ReadMap, GateInv, Gate
<1>1. /\ next \in Phases \ {"build"} /\ pc[t] = "map"
      /\ pc' = [pc EXCEPT ![t] = next]
      /\ next = "fill" => handlerMap = "built"
      /\ next \notin {"clear", "copy", "answer"}
      /\ UNCHANGED <<style, duplicate, handlerMap, lock, flows, answer>>
      /\ DOMAIN todo' = Threads /\ \A u \in Threads : u # t => todo'[u] = todo[u]
  BY DEF ReadMap, Phases, gateVars, historyVars, GateInv
<1>2. ServedFlowsAreWhole' /\ DOMAIN answer' = Threads
  BY <1>1 DEF ServedFlowsAreWhole, Answered, GateInv
<1> HIDE DEF next
<1> QED
  BY <1>0, <1>1, <1>2, OutsideInv

LEMMA LockInv ==
  ASSUME GateInv, NEW t \in Threads, Lock(t)
  PROVE  GateInv'
<1>1. /\ pc[t] = "lock" /\ lock = None /\ lock' = t
      /\ pc' = [pc EXCEPT ![t] = "build"]
      /\ todo' = [todo EXCEPT ![t] = IF handlerMap = "null" THEN Commands ELSE << >>]
      /\ UNCHANGED <<style, duplicate, handlerMap, flows, answer>>
  BY DEF Lock, historyVars
<1>2. /\ pc' \in [Threads -> Phases] /\ pc'[t] = "build"
      /\ \A u \in Threads : u # t => pc'[u] = pc[u]
      /\ DOMAIN todo' = Threads
      /\ todo'[t] = IF handlerMap = "null" THEN Commands ELSE << >>
  BY <1>1 DEF GateInv, Phases
<1>3. OneBuilder'
  BY <1>1, <1>2, DocAssumption DEF GateInv, OneBuilder
<1>4. Listing'
  <2>1. /\ Commands \in CommandSeqs /\ << >> \in CommandSeqs
        /\ << >> \o Commands = Commands
    BY DocAssumption DEF CommandSeqs
  <2> QED
    BY <1>1, <1>2, <2>1, DocAssumption DEF GateInv, Listing, CommandSeqs
<1>5. Gate' /\ ServedFlowsAreWhole'
  BY <1>1, <1>2 DEF GateInv, Gate, ServedFlowsAreWhole, Answered
<1> QED
  BY <1>1, <1>2, <1>3, <1>4, <1>5 DEF GateInv, CommandSeqs

LEMMA RegisterTypesInv ==
  ASSUME GateInv, NEW t \in Threads, RegisterTypes(t)
  PROVE  GateInv'
<1>1. UNCHANGED <<style, duplicate, handlerMap, lock, flows, pc, todo, answer>>
  BY DEF RegisterTypes, historyVars, gateVars
<1> QED
  BY <1>1 DEF GateInv, OneBuilder, Listing, Gate, ServedFlowsAreWhole, Answered, CommandSeqs

LEMMA BuildHandlerInv ==
  ASSUME GateInv, NEW t \in Threads, BuildHandler(t)
  PROVE  GateInv'
<1>1. /\ pc[t] = "build" /\ todo[t] # << >> /\ lock = t
      /\ flows' = Append(flows, Head(todo[t]))
      /\ todo' = [todo EXCEPT ![t] = Tail(@)]
      /\ UNCHANGED <<style, duplicate, handlerMap, lock, pc, answer>>
  BY DEF BuildHandler, historyVars, GateInv, OneBuilder
<1>2. /\ todo[t] \in CommandSeqs /\ flows \in CommandSeqs
      /\ Head(todo[t]) \in Range(Commands) /\ Tail(todo[t]) \in CommandSeqs
      /\ flows' \in CommandSeqs
      /\ flows' \o Tail(todo[t]) = flows \o todo[t]
  <2>1. todo[t] \in CommandSeqs /\ flows \in CommandSeqs
    BY <1>1 DEF GateInv, Listing
  <2>2. /\ Head(todo[t]) \in Range(Commands) /\ Tail(todo[t]) \in CommandSeqs
        /\ Append(flows, Head(todo[t])) \in CommandSeqs
    BY <1>1, <2>1 DEF CommandSeqs
  <2>3. Append(flows, Head(todo[t])) \o Tail(todo[t]) = flows \o todo[t]
    BY <1>1, <2>1, MoveHead DEF CommandSeqs
  <2> QED
    BY <1>1, <2>1, <2>2, <2>3
<1>3. /\ DOMAIN todo' = Threads /\ todo'[t] = Tail(todo[t])
      /\ \A u \in Threads : u # t => todo'[u] = todo[u]
  BY <1>1 DEF GateInv
<1>4. OneBuilder' /\ Gate' /\ ServedFlowsAreWhole'
  BY <1>1 DEF GateInv, OneBuilder, Gate, ServedFlowsAreWhole, Answered
<1>5. ~duplicate => handlerMap = "null"
  BY <1>1 DEF GateInv, Listing
<1>6. Listing'
  BY <1>1, <1>2, <1>3, <1>5, DocAssumption DEF GateInv, Listing, CommandSeqs
<1> QED
  BY <1>1, <1>2, <1>3, <1>4, <1>6 DEF GateInv, CommandSeqs

LEMMA BuildFailsInv ==
  ASSUME GateInv, NEW t \in Threads, BuildFails(t)
  PROVE  GateInv'
<1>1. /\ pc[t] = "build" /\ lock = t /\ duplicate /\ lock' = None
      /\ pc' = [pc EXCEPT ![t] = "idle"] /\ todo' = [todo EXCEPT ![t] = << >>]
      /\ UNCHANGED <<style, duplicate, handlerMap, flows, answer>>
  BY DEF BuildFails, Fail, historyVars, Unlocked, GateInv, OneBuilder
<1>2. /\ pc' \in [Threads -> Phases] /\ pc'[t] = "idle"
      /\ \A u \in Threads : u # t => pc'[u] = pc[u]
      /\ DOMAIN todo' = Threads
  BY <1>1 DEF GateInv, Phases
<1>3. OneBuilder'
  BY <1>1, <1>2, DocAssumption DEF GateInv, OneBuilder
<1>4. Listing' /\ Gate' /\ ServedFlowsAreWhole'
  BY <1>1, <1>2, DocAssumption DEF GateInv, Listing, Gate, ServedFlowsAreWhole, Answered
<1> QED
  BY <1>1, <1>2, <1>3, <1>4 DEF GateInv, CommandSeqs

LEMMA BuiltInv ==
  ASSUME GateInv, NEW t \in Threads, Built(t)
  PROVE  GateInv'
<1>1. /\ pc[t] = "build" /\ lock = t /\ todo[t] = << >> /\ lock' = None
      /\ handlerMap' = "built" /\ (handlerMap = "null" => ~duplicate)
      /\ pc' = [pc EXCEPT ![t] = "fill"] /\ todo' = [todo EXCEPT ![t] = Roots]
      /\ UNCHANGED <<style, duplicate, flows, answer>>
  BY DEF Built, historyVars, Unlocked, GateInv, OneBuilder
<1>2. /\ pc' \in [Threads -> Phases] /\ pc'[t] = "fill"
      /\ \A u \in Threads : u # t => pc'[u] = pc[u]
      /\ DOMAIN todo' = Threads
  BY <1>1 DEF GateInv, Phases
<1>3. ~duplicate /\ flows = Commands
  <2>1. ~duplicate
    BY <1>1 DEF GateInv
  <2>2. flows \o << >> = flows
    BY DEF GateInv, CommandSeqs
  <2> QED
    BY <1>1, <2>1, <2>2 DEF GateInv, Listing
<1>4. OneBuilder'
  BY <1>1, <1>2, DocAssumption DEF GateInv, OneBuilder
<1>5. Listing' /\ Gate' /\ ServedFlowsAreWhole'
  BY <1>1, <1>2, <1>3, DocAssumption DEF GateInv, Listing, Gate, ServedFlowsAreWhole, Answered
<1> QED
  BY <1>1, <1>2, <1>3, <1>4, <1>5 DEF GateInv, CommandSeqs

----------------------------------------------------------------------------
(* Filling and copying the registry: the gate was passed before.            *)
LEMMA FillingInv ==
  ASSUME GateInv, NEW t \in Threads,
         \/ DescribeRoot(t) \/ Put(t) \/ DescribeField(t) \/ PutField(t) \/ EndOfFields(t)
         \/ Clear(t) \/ BeginCopy(t) \/ EndCopy(t)
  PROVE  GateInv'
<1>1. UNCHANGED <<style, duplicate, handlerMap, lock, flows, answer>>
  BY DEF DescribeRoot, Put, DescribeField, PutField, EndOfFields, Clear, BeginCopy, EndCopy,
         historyVars, gateVars
<1>2. PICK next \in Phases \ {"build"} :
        /\ pc' = [pc EXCEPT ![t] = next]
        /\ pc[t] # "build"
        /\ style = "kept" =>
             next # "clear" /\ (next \in {"fill", "copy", "answer"} => handlerMap = "built")
        /\ next \notin {"map", "lock", "build"}
        /\ \/ UNCHANGED todo
           \/ \E rest : todo' = [todo EXCEPT ![t] = rest]
  <2>1. CASE \/ DescribeRoot(t) \/ Put(t) \/ DescribeField(t) \/ PutField(t) \/ EndOfFields(t)
    <3>1. /\ pc[t] = "fill" /\ pc' = pc
          /\ \/ UNCHANGED todo
             \/ \E rest : todo' = [todo EXCEPT ![t] = rest]
      BY <2>1 DEF DescribeRoot, Put, DescribeField, PutField, EndOfFields, Filling
    <3>2. pc' = [pc EXCEPT ![t] = "fill"] /\ "fill" \in Phases \ {"build"}
      BY <3>1 DEF GateInv, Phases
    <3>3. style = "kept" => handlerMap = "built"
      BY <3>1 DEF GateInv, Gate
    <3> QED
      BY <3>1, <3>2, <3>3
  <2>2. CASE Clear(t)
    <3>1. /\ pc[t] = "clear" /\ pc' = [pc EXCEPT ![t] = "fill"]
          /\ todo' = [todo EXCEPT ![t] = Roots] /\ "fill" \in Phases \ {"build"}
      BY <2>2 DEF Clear, Phases
    <3>2. style # "kept"
      BY <3>1 DEF GateInv, Gate
    <3> QED
      BY <3>1, <3>2
  <2>3. CASE BeginCopy(t)
    <3>1. /\ pc[t] = "fill" /\ pc' = [pc EXCEPT ![t] = "copy"]
          /\ UNCHANGED todo /\ "copy" \in Phases \ {"build"}
      BY <2>3 DEF BeginCopy, Filling, Phases
    <3>2. style = "kept" => handlerMap = "built"
      BY <3>1 DEF GateInv, Gate
    <3> QED
      BY <3>1, <3>2
  <2>4. CASE EndCopy(t)
    <3>1. /\ pc[t] = "copy"
          /\ \/ pc' = [pc EXCEPT ![t] = "idle"] /\ todo' = [todo EXCEPT ![t] = << >>]
             \/ pc' = [pc EXCEPT ![t] = "answer"] /\ UNCHANGED todo
          /\ {"idle", "answer"} \subseteq Phases \ {"build"}
      BY <2>4 DEF EndCopy, Fail, Phases
    <3>2. style = "kept" => handlerMap = "built"
      BY <3>1 DEF GateInv, Gate
    <3> QED
      BY <3>1, <3>2
  <2> QED
    BY <2>1, <2>2, <2>3, <2>4
<1>3. /\ DOMAIN todo' = Threads /\ DOMAIN answer' = Threads
      /\ \A u \in Threads : u # t => todo'[u] = todo[u]
  BY <1>1, <1>2 DEF GateInv
<1>4. ServedFlowsAreWhole'
  BY <1>1 DEF GateInv, ServedFlowsAreWhole, Answered
<1> QED
  BY <1>1, <1>2, <1>3, <1>4, OutsideInv

LEMMA AnswerInv ==
  ASSUME GateInv, NEW t \in Threads, Answer(t)
  PROVE  GateInv'
<1>1. /\ pc[t] = "answer" /\ pc' = [pc EXCEPT ![t] = "idle"] /\ "idle" \in Phases \ {"build"}
      /\ UNCHANGED <<style, duplicate, handlerMap, lock, flows, todo>>
      /\ DOMAIN answer' = Threads /\ answer'[t].flows = flows
      /\ \A u \in Threads : u # t => answer'[u] = answer[u]
  BY DEF Answer, historyVars, gateVars, Phases, GateInv
<1>2. style = "kept" => flows = Commands
  BY <1>1 DEF GateInv, Gate, Listing
<1>3. ServedFlowsAreWhole'
  BY <1>1, <1>2 DEF GateInv, ServedFlowsAreWhole, Answered
<1>4. DOMAIN todo' = Threads
  BY <1>1 DEF GateInv
<1> QED
  BY <1>1, <1>3, <1>4, OutsideInv

LEMMA GateNextInv == GateInv /\ [DocNext]_docVars => GateInv'
<1> SUFFICES ASSUME GateInv, [DocNext]_docVars PROVE GateInv'
  OBVIOUS
<1>1. CASE DocNext
  BY <1>1, RequestInv, ReadMapInv, LockInv, RegisterTypesInv, BuildHandlerInv, BuildFailsInv, BuiltInv,
     FillingInv, AnswerInv
  DEF DocNext, Handle
<1>2. CASE UNCHANGED docVars
  BY <1>2 DEF docVars, GateInv, OneBuilder, Listing, Gate, ServedFlowsAreWhole, Answered,
              CommandSeqs
<1> QED
  BY <1>1, <1>2

----------------------------------------------------------------------------
(* However many threads ask and however their requests interleave with the  *)
(* build of the handler map, failed builds included: an answer of the       *)
(* command documentation lists every command once, in the order of the      *)
(* handlers.                                                                *)
THEOREM EveryFlowIsServedOnce == DocSpec => []ServedFlowsAreWhole
<1>1. GateInv => ServedFlowsAreWhole
  BY DEF GateInv
<1> QED
  BY <1>1, GateInitInv, GateNextInv, PTL DEF DocSpec

----------------------------------------------------------------------------
(* The names that some types lead to are the least set closed under fields. *)
LEMMA LeadsNames ==
  ASSUME NEW types \in SUBSET Names
  PROVE  /\ types \subseteq Leads(types) /\ Leads(types) \subseteq Names
         /\ \A m \in Leads(types) : CustomFields(m) \subseteq Leads(types)
<1>1. types \subseteq Leads(types)
  BY DEF Leads
<1>2. ASSUME NEW m \in Leads(types) PROVE CustomFields(m) \subseteq Leads(types)
  <2>1. CustomFields(m) \subseteq Names
    BY DEF CustomFields
  <2> QED
    BY <2>1 DEF Leads
<1> QED
  BY <1>1, <1>2 DEF Leads

LEMMA LeadsLeast ==
  ASSUME NEW types, NEW S \in SUBSET Names,
         types \subseteq S, \A m \in S : CustomFields(m) \subseteq S
  PROVE  Leads(types) \subseteq S
BY DEF Leads

(* The names that are expected: the roots, what the build registers, and    *)
(* what their fields lead to.                                               *)
LEMMA DescribedNames == Described \in SUBSET Names
<1>1. Range(Roots) \subseteq Names
  BY DocAssumption DEF Range
<1>2. \A c \in Range(Commands) : TypesOf[c] \subseteq Names
  BY DocAssumption
<1> QED
  BY <1>1, <1>2 DEF Described

LEMMA ExpectedNames ==
  /\ Range(Roots) \subseteq Expected /\ Expected \subseteq Names
  /\ \A m \in Expected : CustomFields(m) \subseteq Expected
BY DescribedNames, LeadsNames DEF Expected, Described

LEMMA ExpectedLeast ==
  ASSUME style # "kept", NEW S \in SUBSET Names,
         Range(Roots) \subseteq S, \A m \in S : CustomFields(m) \subseteq S
  PROVE  Expected \subseteq S
BY LeadsLeast DEF Expected, Described

(* What the build registers is expected.                                    *)
LEMMA BuiltExpected ==
  ASSUME GateInv, NEW t \in Threads, pc[t] = "build", todo[t] # << >>
  PROVE  Leads(TypesOf[Head(todo[t])]) \subseteq Expected
<1> DEFINE types == TypesOf[Head(todo[t])]
<1>1. style = "kept" /\ lock = t /\ todo[t] \in CommandSeqs
  BY DEF GateInv, Gate, OneBuilder, Listing
<1>2. Head(todo[t]) \in Range(Commands)
  BY <1>1 DEF CommandSeqs
<1>3. types \subseteq Described
  BY <1>1, <1>2 DEF Described
<1>4. types \subseteq Expected
  BY <1>3, DescribedNames, LeadsNames DEF Expected
<1> HIDE DEF types
<1> QED
  BY <1>4, ExpectedNames, LeadsLeast DEF types

LEMMA ExpectedStays ==
  ASSUME UNCHANGED style
  PROVE  Expected' = Expected
BY DEF Expected, Described, Leads, CustomFields

(* What keeps an object alive.                                              *)
Refers(i) ==
  \/ \E n \in DOMAIN schema : schema[n] = i
  \/ \E u \in Threads : \E n \in DOMAIN copy[u] : copy[u][n] = i
  \/ \E u \in Threads : \E k \in DOMAIN frames[u] : frames[u][k].obj = i

LEMMA LiveObjects == \A i : i \in Live <=> Refers(i)
<1> SUFFICES ASSUME NEW i PROVE i \in Live <=> Refers(i)
  OBVIOUS
<1>1. i \in Live <=> i \in Range(schema) \/ \E u \in Threads : i \in Uses(u)
  BY DEF Live
<1>2. i \in Range(schema) <=> \E n \in DOMAIN schema : schema[n] = i
  BY DEF Range
<1>3. ASSUME NEW u \in Threads
      PROVE  i \in Uses(u) <=> \/ \E n \in DOMAIN copy[u] : copy[u][n] = i
                               \/ \E k \in DOMAIN frames[u] : frames[u][k].obj = i
  BY DEF Uses, Range
<1> QED
  BY <1>1, <1>2, <1>3 DEF Refers

FrameSet == [name : Names, obj : Nat, described : BOOLEAN]

(* A new object is new: only finitely many are alive.                       *)
LEMMA NewObjectIsNew ==
  ASSUME IsFiniteSet(DOMAIN heap), Live \subseteq DOMAIN heap
  PROVE  NewObject \in Nat /\ NewObject \notin Live
<1>1. IsFiniteSet(Live) /\ Cardinality(Live) \in Nat
  BY FS_Subset, FS_CardinalityType
<1> DEFINE n == Cardinality(Live)
<1>2. \E i \in 1..(n + 1) : i \notin Live
  <2> SUFFICES ASSUME 1..(n + 1) \subseteq Live PROVE FALSE
    OBVIOUS
  <2>1. Cardinality(1..(n + 1)) <= n
    BY <1>1, FS_Subset
  <2>2. Cardinality(1..(n + 1)) = n + 1
    <3>1. 1 \in Int /\ n + 1 \in Int /\ ~(1 > n + 1) /\ (n + 1) - 1 + 1 = n + 1
      BY <1>1
    <3> HIDE DEF n
    <3> QED
      BY <3>1, FS_Interval
  <2> QED
    BY <1>1, <2>1, <2>2
<1>3. NewObject \in 1..(n + 1) /\ NewObject \notin Live
  BY <1>2 DEF NewObject
<1> QED
  BY <1>1, <1>3

(* Per thread: outside the loop that fills the registry there is nothing    *)
(* under way, and a copy is held only until the answer is written.          *)
ThreadTypes ==
  /\ pc \in [Threads -> Phases] /\ DOMAIN todo = Threads
  /\ frames \in [Threads -> Seq(FrameSet)]
  /\ putting \in [Threads -> Names \cup {None}]
  /\ racing \in [Threads -> {"no", "calm", "disturbed"}]
  /\ DOMAIN copy = Threads /\ DOMAIN answer = Threads
  /\ \A t \in Threads :
       /\ pc[t] = "fill" => todo[t] \in Seq(Range(Roots))
       /\ pc[t] # "fill" => frames[t] = << >> /\ putting[t] = None
       /\ pc[t] \notin {"copy", "answer"} => copy[t] = << >>

RegistryTypes ==
  /\ style \in Styles /\ requests \in 0..MaxRequests
  /\ Registered = table \cup list /\ Registered \subseteq Names
  /\ IsFiniteSet(DOMAIN heap) /\ \A i \in DOMAIN heap : i \in Nat /\ heap[i] \in Nat
  /\ \A i \in Live : i \in DOMAIN heap

(* What is registered, or about to be, is expected; a schema object is of   *)
(* one name and of at most one registration; it never has too many fields.  *)
Sized(obj, n) == /\ heap[obj] <= Whole(n)
                 /\ style = "flat" => heap[obj] = Whole(n)
Objects ==
  /\ \A t \in Threads : putting[t] \in Expected \cup {None}
  /\ \A n \in Registered : n \in Expected /\ Sized(schema[n], n)
  /\ \A m, n \in Registered : schema[m] = schema[n] => m = n
  /\ \A t \in Threads : \A k \in DOMAIN frames[t] :
       /\ frames[t][k].name \in Expected /\ Sized(frames[t][k].obj, frames[t][k].name)
       /\ \A n \in Registered : schema[n] = frames[t][k].obj => n = frames[t][k].name
       /\ \A u \in Threads : \A l \in DOMAIN frames[u] :
            frames[u][l].obj = frames[t][k].obj => u = t /\ l = k

RegistryInv == ThreadTypes /\ RegistryTypes /\ Objects

(* A step that leaves the registry alone.                                   *)
LEMMA QuietStep ==
  ASSUME RegistryInv, ThreadTypes', UNCHANGED <<style, table, list, schema, heap>>,
         requests' \in 0..MaxRequests,
         \A u \in Threads : putting'[u] \in Expected \cup {None},
         \A u \in Threads : \A n \in DOMAIN copy'[u] : Refers(copy'[u][n]),
         \A u \in Threads : \A k \in DOMAIN frames'[u] :
           /\ k \in DOMAIN frames[u] /\ frames'[u][k].name = frames[u][k].name
           /\ frames'[u][k].obj = frames[u][k].obj
  PROVE  RegistryInv'
<1>1. \A i : i \in Live' => i \in Live
  <2>1. (\A i : i \in Live <=> Refers(i))'
    BY LiveObjects, PTL
  <2>2. \A i : Refers(i)' => Refers(i)
    BY DEF Refers
  <2> QED
    BY <2>1, <2>2, LiveObjects
<1>2. RegistryTypes'
  BY <1>1 DEF RegistryInv, RegistryTypes, Registered
<1>3. Expected' = Expected
  BY ExpectedStays
<1>4. Objects'
  BY <1>3 DEF RegistryInv, Objects, Sized, Registered
<1> QED
  BY <1>2, <1>4 DEF RegistryInv

LEMMA RegistryInit == DocInit => RegistryInv
<1> SUFFICES ASSUME DocInit PROVE RegistryInv
  OBVIOUS
<1>1. DOMAIN << >> = {} /\ << >> \in Seq(FrameSet)
  OBVIOUS
<1>2. ThreadTypes
  BY <1>1 DEF DocInit, ThreadTypes, Phases
<1>3. \A i : ~Refers(i)
  BY <1>1 DEF DocInit, Refers
<1>4. RegistryTypes
  <2>1. IsFiniteSet(DOMAIN heap)
    BY <1>1, FS_EmptySet DEF DocInit
  <2>2. style \in Styles /\ requests \in 0..MaxRequests /\ DOMAIN heap = {} /\ DOMAIN schema = {}
        /\ table = {} /\ list = {}
    BY <1>1, DocAssumption DEF DocInit
  <2> QED
    BY <1>3, <2>1, <2>2, LiveObjects DEF RegistryTypes, Registered
<1>5. Objects
  BY <1>1 DEF DocInit, Objects, Registered
<1> QED
  BY <1>2, <1>4, <1>5 DEF RegistryInv

(* The steps before the registry is filled, and the end of the answer.      *)
LEMMA GateStepKeeps ==
  ASSUME GateInv, RegistryInv, NEW t \in Threads,
         \/ Request(t) \/ ReadMap(t) \/ Lock(t) \/ BuildHandler(t) \/ BuildFails(t) \/ Built(t)
         \/ Answer(t)
  PROVE  RegistryInv'
<1>1. /\ UNCHANGED <<style, table, list, schema, heap, putting, racing>>
      /\ pc[t] # "fill"
  BY DEF Request, ReadMap, Lock, BuildHandler, BuildFails, Built, Answer, historyVars,
         registryVars, Active
<1>2. frames[t] = << >> /\ putting[t] = None
  BY <1>1 DEF RegistryInv, ThreadTypes
<1>3. frames' = frames
  BY <1>2 DEF Request, ReadMap, Lock, BuildHandler, BuildFails, Built, Answer, Fail,
              RegistryInv, ThreadTypes
<1>4. requests' \in 0..MaxRequests
  <2>1. requests \in 0..MaxRequests /\ MaxRequests \in Nat
    BY DocAssumption DEF RegistryInv, RegistryTypes
  <2>2. requests' = requests \/ (requests' = requests + 1 /\ requests < MaxRequests)
    BY DEF Request, ReadMap, Lock, BuildHandler, BuildFails, Built, Answer, historyVars
  <2> QED
    BY <2>1, <2>2
<1>5. DOMAIN answer' = Threads
  BY DEF RegistryInv, ThreadTypes, Request, ReadMap, Lock, BuildHandler, BuildFails, Built, Answer
<1>6. /\ DOMAIN copy' = Threads /\ copy'[t] \in {copy[t], << >>}
      /\ \A u \in Threads : u # t => copy'[u] = copy[u]
      /\ pc[t] # "answer" => copy' = copy
      /\ pc[t] = "answer" => copy'[t] = << >>
  BY DEF RegistryInv, ThreadTypes, Request, ReadMap, Lock, BuildHandler, BuildFails, Built, Answer,
         Active
<1>7. PICK next \in Phases \ {"copy", "answer"} :
        /\ pc' = [pc EXCEPT ![t] = next]
        /\ next = "fill" => todo'[t] = Roots
        /\ pc[t] # "copy"
  <2>1. CASE Request(t)
    BY <2>1 DEF Request, Phases, Active
  <2>2. CASE ReadMap(t)
    BY <2>2 DEF ReadMap, Phases, GateInv
  <2>3. CASE Lock(t)
    BY <2>3 DEF Lock, Phases
  <2>4. CASE BuildHandler(t)
    <3>1. pc[t] = "build" /\ pc' = pc /\ pc' = [pc EXCEPT ![t] = "build"]
      BY <2>4 DEF BuildHandler, RegistryInv, ThreadTypes
    <3> QED
      BY <3>1 DEF Phases
  <2>5. CASE BuildFails(t)
    BY <2>5 DEF BuildFails, Fail, Phases
  <2>6. CASE Built(t)
    BY <2>6 DEF Built, Phases, GateInv
  <2>7. CASE Answer(t)
    BY <2>7 DEF Answer, Phases
  <2> QED
    BY <2>1, <2>2, <2>3, <2>4, <2>5, <2>6, <2>7
<1>8. DOMAIN todo' = Threads /\ \A u \in Threads : u # t => todo'[u] = todo[u]
  BY DEF RegistryInv, ThreadTypes, Request, ReadMap, Lock, BuildHandler, BuildFails, Built, Answer,
         Fail
<1>9. Roots \in Seq(Range(Roots))
  BY DocAssumption DEF Range
<1>10. pc' \in [Threads -> Phases] /\ pc'[t] = next /\ \A u \in Threads : u # t => pc'[u] = pc[u]
  BY <1>7 DEF RegistryInv, ThreadTypes
<1>11. ASSUME NEW u \in Threads
       PROVE  /\ pc'[u] = "fill" => todo'[u] \in Seq(Range(Roots))
              /\ pc'[u] # "fill" => frames'[u] = << >> /\ putting'[u] = None
              /\ pc'[u] \notin {"copy", "answer"} => copy'[u] = << >>
  <2>1. CASE u = t
    <3>1. copy'[t] = << >>
      BY <1>6, <1>7 DEF RegistryInv, ThreadTypes
    <3> QED
      BY <1>1, <1>2, <1>3, <1>7, <1>9, <1>10, <2>1, <3>1
  <2>2. CASE u # t
    BY <1>1, <1>3, <1>6, <1>8, <1>10, <2>2 DEF RegistryInv, ThreadTypes
  <2> QED
    BY <2>1, <2>2
<1>12. ThreadTypes'
  BY <1>1, <1>3, <1>5, <1>6, <1>8, <1>10, <1>11 DEF RegistryInv, ThreadTypes
<1>13. \A u \in Threads : \A n \in DOMAIN copy'[u] : Refers(copy'[u][n])
  BY <1>6 DEF Refers
<1>14. \A u \in Threads : putting'[u] \in Expected \cup {None}
  BY <1>1 DEF RegistryInv, Objects
<1> QED
  BY <1>1, <1>3, <1>4, <1>12, <1>13, <1>14, QuietStep

(* A type that is asked for is expected: a root, or a field of a type that  *)
(* is being registered.                                                     *)
LEMMA NextFieldExpected ==
  ASSUME RegistryInv, NEW t \in Threads, frames[t] # << >>, FieldsLeft(t)
  PROVE  /\ Len(frames[t]) \in DOMAIN frames[t] /\ TopFrame(t) = frames[t][Len(frames[t])]
         /\ TopFrame(t).name \in Expected /\ TopFrame(t).name \in Names
         /\ TopFrame(t).obj \in DOMAIN heap /\ heap[TopFrame(t).obj] \in Nat
         /\ heap[TopFrame(t).obj] + 1 \in 1..Whole(TopFrame(t).name)
         /\ style # "flat"
         /\ NextField(t) \in Names => NextField(t) \in CustomFields(TopFrame(t).name)
         /\ NextField(t) \in Names => NextField(t) \in Expected
<1>1. frames[t] \in Seq(FrameSet) /\ Len(frames[t]) \in DOMAIN frames[t]
      /\ TopFrame(t) = frames[t][Len(frames[t])]
  <2>1. frames[t] \in Seq(FrameSet)
    BY DEF RegistryInv, ThreadTypes
  <2> QED
    BY <2>1 DEF TopFrame, Last
<1>2. TopFrame(t).name \in Expected /\ Sized(TopFrame(t).obj, TopFrame(t).name)
  BY <1>1 DEF RegistryInv, Objects
<1>3. TopFrame(t).name \in Names
  BY <1>2, ExpectedNames
<1>4. TopFrame(t).obj \in DOMAIN heap
  <2>1. Refers(TopFrame(t).obj)
    BY <1>1 DEF Refers
  <2> QED
    BY <2>1, LiveObjects DEF RegistryInv, RegistryTypes
<1>5. heap[TopFrame(t).obj] \in Nat
  BY <1>4 DEF RegistryInv, RegistryTypes
<1>6. Fields[TopFrame(t).name] \in Seq(Names \cup {Simple})
  BY <1>3, DocAssumption
<1>7. heap[TopFrame(t).obj] + 1 \in 1..Whole(TopFrame(t).name)
  BY <1>5, <1>6 DEF FieldsLeft, Whole
<1>8. style # "flat"
  BY <1>2, <1>5, <1>6 DEF FieldsLeft, Sized, Whole
<1>9. NextField(t) \in Range(Fields[TopFrame(t).name])
  BY <1>6, <1>7 DEF NextField, Range, Whole
<1>10. NextField(t) \in Names => NextField(t) \in CustomFields(TopFrame(t).name)
  BY <1>8, <1>9 DEF CustomFields
<1> QED
  BY <1>1, <1>2, <1>3, <1>4, <1>5, <1>7, <1>8, <1>10, ExpectedNames

LEMMA ClearKeeps ==
  ASSUME RegistryInv, NEW t \in Threads, Clear(t)
  PROVE  RegistryInv'
<1>1. /\ pc[t] = "clear" /\ pc' = [pc EXCEPT ![t] = "fill"] /\ todo' = [todo EXCEPT ![t] = Roots]
      /\ table' = {} /\ list' = {} /\ schema' = << >> /\ Disturbing(t)
      /\ UNCHANGED <<style, requests, putting, frames, copy, answer, heap>>
  BY DEF Clear, historyVars
<1>2. racing' \in [Threads -> {"no", "calm", "disturbed"}]
  BY <1>1 DEF Disturbing, RegistryInv, ThreadTypes
<1>3. Roots \in Seq(Range(Roots))
  BY DocAssumption DEF Range
<1>4. ThreadTypes'
  BY <1>1, <1>2, <1>3 DEF RegistryInv, ThreadTypes, Phases
<1>5. DOMAIN schema' = {}
  BY <1>1
<1>6. \A i : i \in Live' => i \in Live
  <2>1. (\A i : i \in Live <=> Refers(i))'
    BY LiveObjects, PTL
  <2>2. \A i : Refers(i)' => Refers(i)
    BY <1>1, <1>5 DEF Refers
  <2> QED
    BY <2>1, <2>2, LiveObjects
<1>7. RegistryTypes'
  BY <1>1, <1>5, <1>6 DEF RegistryInv, RegistryTypes, Registered
<1>8. Expected' = Expected
  BY <1>1, ExpectedStays
<1>9. Objects'
  BY <1>1, <1>5, <1>8 DEF RegistryInv, Objects, Registered, Sized
<1> QED
  BY <1>4, <1>7, <1>9 DEF RegistryInv

LEMMA DescribeKeeps ==
  ASSUME RegistryInv, NEW t \in Threads, DescribeRoot(t) \/ DescribeField(t)
  PROVE  RegistryInv'
<1>1. /\ pc[t] = "fill" /\ UNCHANGED <<style, requests, pc, copy, answer, table, list, schema, heap>>
      /\ racing' \in [Threads -> {"no", "calm", "disturbed"}]
  BY DEF DescribeRoot, DescribeField, Filling, Racing, historyVars, registryVars,
         RegistryInv, ThreadTypes
<1>2. /\ todo' = [todo EXCEPT ![t] = Tail(@)] \/ todo' = todo
      /\ todo' # todo => todo[t] # << >>
  BY DEF DescribeRoot, DescribeField
<1>3. todo[t] \in Seq(Range(Roots))
  BY <1>1 DEF RegistryInv, ThreadTypes
<1>4. DOMAIN todo' = Threads /\ todo'[t] \in Seq(Range(Roots))
      /\ \A u \in Threads : u # t => todo'[u] = todo[u]
  <2>1. DOMAIN todo = Threads
    BY DEF RegistryInv, ThreadTypes
  <2>2. CASE todo[t] # << >> /\ todo' = [todo EXCEPT ![t] = Tail(todo[t])]
    <3>1. Tail(todo[t]) \in Seq(Range(Roots))
      BY <1>3, <2>2
    <3> QED
      BY <2>1, <2>2, <3>1
  <2>3. CASE todo' = todo
    BY <1>3, <2>1, <2>3
  <2> QED
    BY <1>2, <2>2, <2>3
<1>5. PICK type : /\ type \in Expected
                  /\ putting' = [putting EXCEPT ![t] = type] \/ putting' = putting
  <2>1. CASE DescribeRoot(t)
    <3>1. todo[t] # << >>
      BY <2>1 DEF DescribeRoot
    <3>2. Head(todo[t]) \in Range(Roots)
      BY <1>3, <3>1
    <3>3. Head(todo[t]) \in Expected
      BY <3>2, ExpectedNames
    <3> QED
      BY <2>1, <3>3 DEF DescribeRoot
  <2>2. CASE DescribeField(t)
    BY <2>2, NextFieldExpected DEF DescribeField, Unknown
  <2> QED
    BY <2>1, <2>2
<1>6. /\ putting' \in [Threads -> Names \cup {None}]
      /\ \A u \in Threads : putting'[u] \in Expected \cup {None}
      /\ \A u \in Threads : u # t => putting'[u] = putting[u]
  <2>1. putting \in [Threads -> Names \cup {None}] /\ type \in Names
        /\ \A u \in Threads : putting[u] \in Expected \cup {None}
    BY <1>5, ExpectedNames DEF RegistryInv, ThreadTypes, Objects
  <2>2. CASE putting' = putting
    BY <2>1, <2>2
  <2>3. CASE putting' = [putting EXCEPT ![t] = type]
    BY <1>5, <2>1, <2>3
  <2> QED
    BY <1>5, <2>2, <2>3
<1>7. /\ frames' \in [Threads -> Seq(FrameSet)] /\ \A u \in Threads : u # t => frames'[u] = frames[u]
      /\ \A u \in Threads : \A k \in DOMAIN frames'[u] :
           /\ k \in DOMAIN frames[u] /\ frames'[u][k].name = frames[u][k].name
           /\ frames'[u][k].obj = frames[u][k].obj
  <2>1. frames \in [Threads -> Seq(FrameSet)]
    BY DEF RegistryInv, ThreadTypes
  <2>2. CASE DescribeRoot(t)
    BY <2>1, <2>2 DEF DescribeRoot
  <2>3. CASE DescribeField(t)
    <3> DEFINE top == Len(frames[t])
               f == [frames[t][top] EXCEPT !.described = TRUE]
    <3>1. top \in DOMAIN frames[t] /\ frames[t][top] \in FrameSet /\ top \in 1..Len(frames[t])
      BY <2>1, <2>3 DEF DescribeField
    <3>2. f \in FrameSet /\ f.name = frames[t][top].name /\ f.obj = frames[t][top].obj
      BY <3>1 DEF FrameSet
    <3>3. frames' = [frames EXCEPT ![t] = [frames[t] EXCEPT ![top] = f]]
      BY <2>3 DEF DescribeField
    <3> HIDE DEF f
    <3>4. /\ [frames[t] EXCEPT ![top] = f] \in Seq(FrameSet)
          /\ DOMAIN [frames[t] EXCEPT ![top] = f] = DOMAIN frames[t]
          /\ [frames[t] EXCEPT ![top] = f][top] = f
          /\ \A k \in DOMAIN frames[t] : k # top => [frames[t] EXCEPT ![top] = f][k] = frames[t][k]
      BY <2>1, <3>1, <3>2, ExceptSeq
    <3> QED
      BY <2>1, <3>1, <3>2, <3>3, <3>4
  <2> QED
    BY <2>2, <2>3
<1>8. ThreadTypes'
  BY <1>1, <1>4, <1>6, <1>7 DEF RegistryInv, ThreadTypes
<1>9. /\ requests' \in 0..MaxRequests
      /\ \A u \in Threads : \A n \in DOMAIN copy'[u] : Refers(copy'[u][n])
  BY <1>1 DEF RegistryInv, RegistryTypes, Refers
<1> QED
  BY <1>1, <1>6, <1>7, <1>8, <1>9, QuietStep

LEMMA EndKeeps ==
  ASSUME RegistryInv, NEW t \in Threads, EndOfFields(t) \/ BeginCopy(t) \/ EndCopy(t)
  PROVE  RegistryInv'
<1>1. /\ UNCHANGED <<style, requests, putting, answer, table, list, schema, heap>>
      /\ racing' \in [Threads -> {"no", "calm", "disturbed"}]
      /\ DOMAIN todo' = Threads /\ \A u \in Threads : u # t => todo'[u] = todo[u]
      /\ DOMAIN copy' = Threads /\ \A u \in Threads : u # t => copy'[u] = copy[u]
  BY DEF EndOfFields, BeginCopy, EndCopy, Fail, Racing, historyVars, registryVars,
         RegistryInv, ThreadTypes
<1>2. frames \in [Threads -> Seq(FrameSet)] /\ pc \in [Threads -> Phases]
  BY DEF RegistryInv, ThreadTypes
<1>3. /\ frames' \in [Threads -> Seq(FrameSet)] /\ \A u \in Threads : u # t => frames'[u] = frames[u]
      /\ \A u \in Threads : \A k \in DOMAIN frames'[u] :
           /\ k \in DOMAIN frames[u] /\ frames'[u][k].name = frames[u][k].name
           /\ frames'[u][k].obj = frames[u][k].obj
  <2>1. CASE EndOfFields(t)
    <3>1. frames' = [frames EXCEPT ![t] = Front(frames[t])] /\ frames[t] # << >>
      BY <2>1 DEF EndOfFields
    <3>2. /\ Front(frames[t]) \in Seq(FrameSet) /\ DOMAIN Front(frames[t]) \subseteq DOMAIN frames[t]
          /\ \A k \in DOMAIN Front(frames[t]) : Front(frames[t])[k] = frames[t][k]
      BY <1>2, <3>1 DEF Front
    <3> QED
      BY <1>2, <3>1, <3>2
  <2>2. CASE BeginCopy(t)
    BY <1>2, <2>2 DEF BeginCopy
  <2>3. CASE EndCopy(t)
    <3>1. frames[t] = << >>
      BY <2>3 DEF EndCopy, RegistryInv, ThreadTypes
    <3>2. frames' = frames
      BY <1>2, <2>3, <3>1 DEF EndCopy, Fail
    <3> QED
      BY <1>2, <3>2
  <2> QED
    BY <2>1, <2>2, <2>3
<1>4. \A u \in Threads : \A n \in DOMAIN copy'[u] : Refers(copy'[u][n])
  <2>1. CASE EndOfFields(t)
    BY <2>1 DEF EndOfFields, Refers
  <2>2. CASE BeginCopy(t)
    <3>1. copy'[t] = [n \in list |-> schema[n]] /\ list \subseteq DOMAIN schema
      BY <2>2 DEF BeginCopy, RegistryInv, RegistryTypes, ThreadTypes, Registered
    <3>2. \A n \in DOMAIN copy'[t] : Refers(copy'[t][n])
      BY <3>1 DEF Refers
    <3> QED
      BY <1>1, <3>2 DEF Refers
  <2>3. CASE EndCopy(t)
    <3>1. copy'[t] = copy[t] \/ copy'[t] = << >>
      BY <2>3 DEF EndCopy, RegistryInv, ThreadTypes
    <3>2. \A n \in DOMAIN copy'[t] : Refers(copy'[t][n])
      BY <3>1 DEF Refers
    <3> QED
      BY <1>1, <3>2 DEF Refers
  <2> QED
    BY <2>1, <2>2, <2>3
<1>5. ThreadTypes'
  <2>1. CASE EndOfFields(t)
    <3>1. pc[t] = "fill" /\ pc' = pc /\ todo' = todo /\ copy' = copy
      BY <2>1 DEF EndOfFields, Filling
    <3> QED
      BY <1>1, <1>3, <3>1 DEF RegistryInv, ThreadTypes
  <2>2. CASE BeginCopy(t)
    <3>1. /\ pc' = [pc EXCEPT ![t] = "copy"] /\ putting[t] = None /\ frames[t] = << >>
          /\ frames' = frames
      BY <2>2 DEF BeginCopy, Filling
    <3>2. pc' \in [Threads -> Phases] /\ pc'[t] = "copy" /\ \A u \in Threads : u # t => pc'[u] = pc[u]
      BY <1>2, <3>1 DEF Phases
    <3> QED
      BY <1>1, <1>3, <3>1, <3>2 DEF RegistryInv, ThreadTypes
  <2>3. CASE EndCopy(t)
    <3>1. PICK next \in {"idle", "answer"} : /\ pc' = [pc EXCEPT ![t] = next]
                                             /\ next = "idle" => copy'[t] = << >>
      BY <2>3 DEF EndCopy, Fail, RegistryInv, ThreadTypes
    <3>2. pc' \in [Threads -> Phases] /\ pc'[t] = next /\ \A u \in Threads : u # t => pc'[u] = pc[u]
      BY <1>2, <3>1 DEF Phases
    <3>3. frames[t] = << >> /\ putting[t] = None
      BY <2>3 DEF EndCopy, RegistryInv, ThreadTypes
    <3>4. frames'[t] = << >>
      BY <1>2, <2>3, <3>3 DEF EndCopy, Fail
    <3> QED
      BY <1>1, <1>3, <3>1, <3>2, <3>3, <3>4 DEF RegistryInv, ThreadTypes
  <2> QED
    BY <2>1, <2>2, <2>3
<1>6. /\ requests' \in 0..MaxRequests
      /\ \A u \in Threads : putting'[u] \in Expected \cup {None}
  BY <1>1 DEF RegistryInv, RegistryTypes, Objects
<1> QED
  BY <1>1, <1>3, <1>4, <1>5, <1>6, QuietStep

(* The top frame changes its flag only.                                     *)
LEMMA FlagStep ==
  ASSUME RegistryInv, NEW t \in Threads, NEW d \in BOOLEAN, frames[t] # << >>,
         frames' = [frames EXCEPT ![t][Len(frames[t])].described = d]
  PROVE  /\ frames' \in [Threads -> Seq(FrameSet)]
         /\ \A u \in Threads : u # t => frames'[u] = frames[u]
         /\ Len(frames'[t]) = Len(frames[t])
         /\ frames'[t][Len(frames[t])].described = d
         /\ \A k \in DOMAIN frames[t] : k # Len(frames[t]) => frames'[t][k] = frames[t][k]
         /\ \A u \in Threads : DOMAIN frames'[u] = DOMAIN frames[u]
         /\ \A u \in Threads : \A k \in DOMAIN frames'[u] :
              /\ frames'[u][k].name = frames[u][k].name
              /\ frames'[u][k].obj = frames[u][k].obj
<1>1. frames \in [Threads -> Seq(FrameSet)]
  BY DEF RegistryInv, ThreadTypes
<1> DEFINE top == Len(frames[t])
           f == [frames[t][top] EXCEPT !.described = d]
<1>2. top \in DOMAIN frames[t] /\ frames[t][top] \in FrameSet /\ top \in 1..Len(frames[t])
  BY <1>1
<1>3. f \in FrameSet /\ f.name = frames[t][top].name /\ f.obj = frames[t][top].obj /\ f.described = d
  BY <1>2 DEF FrameSet
<1>4. frames' = [frames EXCEPT ![t] = [frames[t] EXCEPT ![top] = f]]
  OBVIOUS
<1> HIDE DEF f
<1>5. /\ [frames[t] EXCEPT ![top] = f] \in Seq(FrameSet)
      /\ DOMAIN [frames[t] EXCEPT ![top] = f] = DOMAIN frames[t]
      /\ Len([frames[t] EXCEPT ![top] = f]) = Len(frames[t])
      /\ [frames[t] EXCEPT ![top] = f][top] = f
      /\ \A k \in DOMAIN frames[t] : k # top => [frames[t] EXCEPT ![top] = f][k] = frames[t][k]
  BY <1>1, <1>2, <1>3, ExceptSeq
<1> QED
  BY <1>1, <1>2, <1>3, <1>4, <1>5

LEMMA PutFieldKeeps ==
  ASSUME RegistryInv, NEW t \in Threads, PutField(t)
  PROVE  RegistryInv'
<1>1. /\ pc[t] = "fill" /\ frames[t] # << >> /\ FieldsLeft(t)
      /\ UNCHANGED <<style, requests, pc, todo, putting, racing, copy, answer, schema, table, list>>
      /\ heap' = [heap EXCEPT ![TopFrame(t).obj] = heap[TopFrame(t).obj] + 1]
      /\ frames' = [frames EXCEPT ![t][Len(frames[t])].described = FALSE]
  BY DEF PutField, Filling, historyVars
<1>2. /\ frames' \in [Threads -> Seq(FrameSet)]
      /\ \A u \in Threads : u # t => frames'[u] = frames[u]
      /\ \A u \in Threads : DOMAIN frames'[u] = DOMAIN frames[u]
      /\ \A u \in Threads : \A k \in DOMAIN frames'[u] :
           /\ frames'[u][k].name = frames[u][k].name
           /\ frames'[u][k].obj = frames[u][k].obj
  BY <1>1, FlagStep
<1>3. ThreadTypes'
  BY <1>1, <1>2 DEF RegistryInv, ThreadTypes
<1>4. \A i : i \in Live' => i \in Live
  <2>1. (\A i : i \in Live <=> Refers(i))'
    BY LiveObjects, PTL
  <2>2. \A i : Refers(i)' => Refers(i)
    BY <1>1, <1>2 DEF Refers
  <2> QED
    BY <2>1, <2>2, LiveObjects
<1> DEFINE obj == TopFrame(t).obj
           name == TopFrame(t).name
           top == Len(frames[t])
<1>5. /\ top \in DOMAIN frames[t] /\ frames[t][top].name = name /\ frames[t][top].obj = obj
      /\ name \in Names /\ style # "flat" /\ obj \in DOMAIN heap /\ heap[obj] \in Nat
      /\ heap[obj] + 1 \in 1..Whole(name)
  BY <1>1, NextFieldExpected
<1> HIDE DEF obj, name, top
<1>6. /\ DOMAIN heap' = DOMAIN heap /\ heap'[obj] = heap[obj] + 1
      /\ \A i \in DOMAIN heap : i # obj => heap'[i] = heap[i]
  BY <1>1, <1>5 DEF obj
<1>7. heap'[obj] \in Nat /\ heap'[obj] <= Whole(name)
  BY <1>5, <1>6
<1>8. RegistryTypes'
  BY <1>1, <1>4, <1>6, <1>7 DEF RegistryInv, RegistryTypes, Registered
<1>9. Expected' = Expected
  BY <1>1, ExpectedStays
<1>10. ASSUME NEW i \in DOMAIN heap, NEW n, Sized(i, n), i = obj => n = name
       PROVE  Sized(i, n)'
  BY <1>1, <1>5, <1>6, <1>7, <1>10 DEF Sized, Whole
<1>11. ASSUME NEW n \in Registered
       PROVE  n \in Expected /\ Sized(schema[n], n)'
  <2>1. schema[n] \in DOMAIN heap
    BY LiveObjects DEF Refers, RegistryInv, RegistryTypes, Registered
  <2>2. schema[n] = obj => n = name
    BY <1>5 DEF RegistryInv, Objects
  <2> QED
    BY <1>1, <1>10, <2>1, <2>2 DEF RegistryInv, Objects, Sized, Whole
<1>12. ASSUME NEW u \in Threads, NEW k \in DOMAIN frames[u]
       PROVE  Sized(frames[u][k].obj, frames[u][k].name)'
  <2>1. frames[u][k].obj \in DOMAIN heap
    BY LiveObjects DEF Refers, RegistryInv, RegistryTypes
  <2>2. frames[u][k].obj = obj => u = t /\ k = top
    BY <1>5 DEF RegistryInv, Objects
  <2>3. frames[u][k].obj = obj => frames[u][k].name = name
    BY <1>5, <2>2
  <2>4. Sized(frames[u][k].obj, frames[u][k].name)
    BY DEF RegistryInv, Objects
  <2>5. heap'[frames[u][k].obj] <= Whole(frames[u][k].name)
    BY <1>6, <1>7, <2>1, <2>3, <2>4 DEF Sized
  <2>6. frames'[u][k].obj = frames[u][k].obj /\ frames'[u][k].name = frames[u][k].name
    BY <1>2
  <2> QED
    BY <1>1, <1>5, <2>5, <2>6 DEF Sized, Whole
<1>13. Objects'
  <2>1. \A u \in Threads : putting'[u] \in Expected \cup {None}
    BY <1>1 DEF RegistryInv, Objects
  <2>2. Registered' = Registered /\ schema' = schema
    BY <1>1 DEF Registered
  <2>3. \A m, n \in Registered : schema[m] = schema[n] => m = n
    BY DEF RegistryInv, Objects
  <2>4. ASSUME NEW u \in Threads, NEW k \in DOMAIN frames[u]
        PROVE  /\ frames'[u][k].name \in Expected
               /\ \A n \in Registered : schema[n] = frames'[u][k].obj => n = frames'[u][k].name
               /\ \A v \in Threads : \A l \in DOMAIN frames[v] :
                    frames'[v][l].obj = frames'[u][k].obj => v = u /\ l = k
    BY <1>2 DEF RegistryInv, Objects
  <2> QED
    BY <1>2, <1>9, <1>11, <1>12, <2>1, <2>2, <2>3, <2>4 DEF Objects
<1> QED
  BY <1>3, <1>8, <1>13 DEF RegistryInv

(* What a put does: to the table and the list, when nobody disturbs it,     *)
(* exactly what it should.                                                  *)
LEMMA PutFacts ==
  ASSUME RegistryInv, NEW t \in Threads, Put(t)
  PROVE  LET n == putting[t] IN
         /\ pc[t] = "fill" /\ n \in Expected /\ n \in Names /\ n # None
         /\ NewObject \in Nat /\ NewObject \notin Live
         /\ UNCHANGED <<style, requests, pc, todo, copy, answer>>
         /\ DOMAIN heap' = Live \cup {NewObject} /\ heap'[NewObject] = Placeholder(n)
         /\ \A i \in Live : i \in DOMAIN heap /\ heap'[i] = heap[i]
         /\ table' \subseteq table \cup {n} /\ list' \subseteq list \cup {n}
         /\ racing[t] # "disturbed" => table' = table \cup {n} /\ list' = list \cup {n}
         /\ Registered' = table' \cup list' /\ Registered' \subseteq Registered \cup {n}
         /\ n \in Registered' => schema'[n] = NewObject
         /\ \A m \in Registered' : m # n => m \in Registered /\ schema'[m] = schema[m]
         /\ frames' = [frames EXCEPT ![t] = Append(frames[t], Frame(n, NewObject))]
         /\ putting' = [putting EXCEPT ![t] = None]
         /\ racing' \in [Threads -> {"no", "calm", "disturbed"}]
<1> DEFINE n == putting[t]
<1>1. /\ pc[t] = "fill" /\ n # None
      /\ UNCHANGED <<style, requests, pc, todo, copy, answer>>
      /\ heap' = [i \in Live \cup {NewObject} |->
                    IF i = NewObject THEN Placeholder(n) ELSE heap[i]]
      /\ IF racing[t] = "disturbed"
         THEN table' \in SUBSET (table \cup {n}) /\ list' \in SUBSET (list \cup {n})
         ELSE table' = table \cup {n} /\ list' = list \cup {n}
      /\ schema' = [m \in table' \cup list' |-> IF m = n THEN NewObject ELSE schema[m]]
      /\ frames' = [frames EXCEPT ![t] = Append(frames[t], Frame(n, NewObject))]
      /\ Disturbing(t) /\ putting' = [putting EXCEPT ![t] = None]
  BY DEF Put, Allocate, historyVars
<1>2. n \in Expected /\ n \in Names
  BY <1>1, ExpectedNames DEF RegistryInv, Objects
<1>3. NewObject \in Nat /\ NewObject \notin Live
  BY NewObjectIsNew DEF RegistryInv, RegistryTypes
<1>4. \A i \in Live : i \in DOMAIN heap
  BY DEF RegistryInv, RegistryTypes
<1>5. racing' \in [Threads -> {"no", "calm", "disturbed"}]
  BY <1>1 DEF Disturbing, RegistryInv, ThreadTypes
<1>6. Registered = table \cup list
  BY DEF RegistryInv, RegistryTypes
<1> HIDE DEF n
<1>7. DOMAIN heap' = Live \cup {NewObject} /\ heap'[NewObject] = Placeholder(n)
      /\ \A i \in Live : heap'[i] = heap[i]
  BY <1>1, <1>3
<1>8. /\ table' \subseteq table \cup {n} /\ list' \subseteq list \cup {n}
      /\ racing[t] # "disturbed" => table' = table \cup {n} /\ list' = list \cup {n}
  BY <1>1
<1>9. /\ Registered' = table' \cup list'
      /\ n \in Registered' => schema'[n] = NewObject
      /\ \A m \in Registered' : m # n => schema'[m] = schema[m]
  BY <1>1 DEF Registered
<1> QED
  BY <1>1, <1>2, <1>3, <1>4, <1>5, <1>6, <1>7, <1>8, <1>9 DEF n

LEMMA PutKeeps ==
  ASSUME RegistryInv, NEW t \in Threads, Put(t)
  PROVE  RegistryInv'
<1> DEFINE n == putting[t]
           obj == NewObject
           last == Frame(n, obj)
<1>1. /\ pc[t] = "fill" /\ n \in Expected /\ n \in Names
      /\ obj \in Nat /\ obj \notin Live
      /\ UNCHANGED <<style, requests, pc, todo, copy, answer>>
      /\ DOMAIN heap' = Live \cup {obj} /\ heap'[obj] = Placeholder(n)
      /\ \A i \in Live : i \in DOMAIN heap /\ heap'[i] = heap[i]
      /\ Registered' = table' \cup list' /\ Registered' \subseteq Registered \cup {n}
      /\ n \in Registered' => schema'[n] = obj
      /\ \A m \in Registered' : m # n => m \in Registered /\ schema'[m] = schema[m]
      /\ frames' = [frames EXCEPT ![t] = Append(frames[t], last)]
      /\ putting' = [putting EXCEPT ![t] = None]
      /\ racing' \in [Threads -> {"no", "calm", "disturbed"}]
  BY PutFacts
<1>2. last \in FrameSet /\ last.name = n /\ last.obj = obj
  BY <1>1 DEF FrameSet, Frame
<1>3. Placeholder(n) \in Nat /\ Placeholder(n) <= Whole(n)
      /\ (style = "flat" => Placeholder(n) = Whole(n))
  <2>1. Fields[n] \in Seq(Names \cup {Simple})
    BY <1>1, DocAssumption
  <2>2. Whole(n) \in Nat
    BY <2>1 DEF Whole
  <2> QED
    BY <2>2 DEF Placeholder
<1> HIDE DEF n, obj, last
<1>4. /\ frames' \in [Threads -> Seq(FrameSet)]
      /\ \A u \in Threads : \A k \in DOMAIN frames'[u] :
           \/ u = t /\ k = Len(frames[t]) + 1 /\ frames'[u][k] = last
           \/ k \in DOMAIN frames[u] /\ frames'[u][k] = frames[u][k]
  <2>1. frames \in [Threads -> Seq(FrameSet)]
    BY DEF RegistryInv, ThreadTypes
  <2>2. /\ Append(frames[t], last) \in Seq(FrameSet)
        /\ \A k \in DOMAIN Append(frames[t], last) :
             \/ k = Len(frames[t]) + 1 /\ Append(frames[t], last)[k] = last
             \/ k \in DOMAIN frames[t] /\ Append(frames[t], last)[k] = frames[t][k]
    BY <1>2, <2>1
  <2> QED
    BY <1>1, <2>1, <2>2
<1>5. putting' \in [Threads -> Names \cup {None}]
      /\ \A u \in Threads : putting'[u] = IF u = t THEN None ELSE putting[u]
  BY <1>1 DEF RegistryInv, ThreadTypes
<1>6. \A u \in Threads : u # t => frames'[u] = frames[u]
  BY <1>1 DEF RegistryInv, ThreadTypes
<1>7. ThreadTypes'
  BY <1>1, <1>4, <1>5, <1>6 DEF RegistryInv, ThreadTypes
<1>8. \A i : i \in Live' => i \in Live \/ i = obj
  <2>1. (\A i : i \in Live <=> Refers(i))'
    BY LiveObjects, PTL
  <2>2. ASSUME NEW i, Refers(i)' PROVE Refers(i) \/ i = obj
    <3>1. CASE \E m \in Registered' : schema'[m] = i
      BY <1>1, <3>1 DEF Refers, Registered
    <3>2. CASE \E u \in Threads : \E m \in DOMAIN copy'[u] : copy'[u][m] = i
      BY <1>1, <3>2 DEF Refers
    <3>3. CASE \E u \in Threads : \E k \in DOMAIN frames'[u] : (frames'[u][k].obj = i)
      <4>1. PICK u \in Threads : \E k \in DOMAIN frames'[u] : (frames'[u][k].obj = i)
        BY <3>3
      <4> QED
        BY <1>2, <1>4, <4>1 DEF Refers
    <3> QED
      BY <2>2, <3>1, <3>2, <3>3 DEF Refers, Registered
  <2> QED
    BY <2>1, <2>2, LiveObjects
<1>9. RegistryTypes'
  <2>1. IsFiniteSet(DOMAIN heap')
    <3>1. IsFiniteSet(Live)
      BY FS_Subset DEF RegistryInv, RegistryTypes
    <3> QED
      BY <1>1, <3>1, FS_AddElement
  <2>2. \A i \in DOMAIN heap' : i \in Nat /\ heap'[i] \in Nat
    BY <1>1, <1>3 DEF RegistryInv, RegistryTypes
  <2>3. Registered' \subseteq Names
    BY <1>1 DEF RegistryInv, RegistryTypes
  <2> QED
    BY <1>1, <1>8, <2>1, <2>2, <2>3 DEF RegistryInv, RegistryTypes
<1>10. Expected' = Expected
  BY <1>1, ExpectedStays
<1>11. \A m \in Registered : schema[m] \in Live
  BY LiveObjects DEF Refers, Registered
<1>12. \A u \in Threads : \A k \in DOMAIN frames[u] : frames[u][k].obj \in Live
  BY LiveObjects DEF Refers
<1>13. /\ heap'[obj] <= Whole(n)
       /\ style = "flat" => heap'[obj] = Whole(n)
       /\ \A i \in Live : \A m : Sized(i, m) =>
            heap'[i] <= Whole(m) /\ (style = "flat" => heap'[i] = Whole(m))
  <2>1. heap'[obj] <= Whole(n) /\ (style = "flat" => heap'[obj] = Whole(n))
    BY <1>1, <1>3
  <2> QED
    BY <1>1, <2>1 DEF Sized
<1>14. ASSUME NEW m \in Registered'
       PROVE  /\ m \in Expected /\ Sized(schema[m], m)'
              /\ m = n => schema'[m] = obj
              /\ m # n => schema'[m] \in Live
  <2>1. m \in Expected
    BY <1>1 DEF RegistryInv, Objects
  <2>2. /\ m = n => schema'[m] = obj
        /\ m # n => schema'[m] \in Live /\ Sized(schema'[m], m)
    BY <1>1, <1>11 DEF RegistryInv, Objects
  <2>3. heap'[schema'[m]] <= Whole(m) /\ (style = "flat" => heap'[schema'[m]] = Whole(m))
    BY <1>13, <2>2
  <2> QED
    BY <1>1, <2>1, <2>2, <2>3 DEF Sized, Whole
<1>15. \A m, l \in Registered' : schema'[m] = schema'[l] => m = l
  BY <1>1, <1>14 DEF RegistryInv, Objects
<1>16. ASSUME NEW u \in Threads, NEW k \in DOMAIN frames'[u]
       PROVE  /\ frames'[u][k].name \in Expected
              /\ Sized(frames[u][k].obj, frames[u][k].name)'
              /\ \A m \in Registered' : schema'[m] = frames'[u][k].obj => m = frames'[u][k].name
              /\ \A v \in Threads : \A l \in DOMAIN frames'[v] :
                   frames'[v][l].obj = frames'[u][k].obj => v = u /\ l = k
  <2>1. CASE u = t /\ k = Len(frames[t]) + 1 /\ frames'[u][k] = last
    <3>1. frames'[u][k].name = n /\ frames'[u][k].obj = obj
      BY <1>2, <2>1
    <3>2. heap'[obj] <= Whole(n) /\ (style = "flat" => heap'[obj] = Whole(n))
      BY <1>13
    <3>3. \A v \in Threads : \A l \in DOMAIN frames'[v] : frames'[v][l].obj = obj => v = u /\ l = k
      BY <1>1, <1>4, <1>12, <2>1
    <3>4. \A m \in Registered' : schema'[m] = obj => m = n
      BY <1>1, <1>14
    <3> QED
      BY <1>1, <3>1, <3>2, <3>3, <3>4 DEF Sized, Whole
  <2>2. CASE k \in DOMAIN frames[u] /\ frames'[u][k] = frames[u][k]
    <3>1. /\ frames[u][k].name \in Expected /\ Sized(frames[u][k].obj, frames[u][k].name)
          /\ \A m \in Registered : schema[m] = frames[u][k].obj => m = frames[u][k].name
          /\ \A v \in Threads : \A l \in DOMAIN frames[v] :
               frames[v][l].obj = frames[u][k].obj => v = u /\ l = k
      BY <2>2 DEF RegistryInv, Objects
    <3>2. frames[u][k].obj \in Live
      BY <1>12, <2>2
    <3>3. heap'[frames[u][k].obj] <= Whole(frames[u][k].name)
          /\ (style = "flat" => heap'[frames[u][k].obj] = Whole(frames[u][k].name))
      BY <1>13, <3>1, <3>2
    <3>4. \A m \in Registered' : schema'[m] = frames[u][k].obj => m = frames[u][k].name
      BY <1>1, <1>14, <3>1, <3>2
    <3>5. ASSUME NEW v \in Threads, NEW l \in DOMAIN frames'[v], frames'[v][l].obj = frames[u][k].obj
          PROVE  v = u /\ l = k
      BY <1>1, <1>2, <1>4, <3>1, <3>2, <3>5
    <3> QED
      BY <1>1, <2>2, <3>1, <3>3, <3>4, <3>5 DEF Sized, Whole
  <2> QED
    BY <1>4, <2>1, <2>2
<1>17. \A u \in Threads : putting'[u] \in Expected \cup {None}
  BY <1>5 DEF RegistryInv, Objects
<1>18. Objects'
  BY <1>10, <1>14, <1>15, <1>16, <1>17 DEF Objects
<1> QED
  BY <1>7, <1>9, <1>18 DEF RegistryInv

(* The build adds a schema object of its own, whole.                        *)
LEMMA RegisterTypesKeeps ==
  ASSUME GateInv, RegistryInv, NEW t \in Threads, RegisterTypes(t)
  PROVE  RegistryInv'
<1> DEFINE obj == NewObject
<1>1. /\ pc[t] = "build" /\ todo[t] # << >>
      /\ UNCHANGED <<style, requests, pc, todo, frames, putting, racing, copy, answer>>
  BY DEF RegisterTypes, historyVars
<1>2. PICK n \in Leads(TypesOf[Head(todo[t])]) \ table :
        /\ heap' = [i \in Live \cup {obj} |-> IF i = obj THEN Whole(n) ELSE heap[i]]
        /\ table' = table \cup {n} /\ list' = list \cup {n}
        /\ schema' = [m \in table' \cup list' |-> IF m = n THEN obj ELSE schema[m]]
  BY DEF RegisterTypes, Allocate
<1>3. n \in Expected /\ n \in Names
  BY <1>1, BuiltExpected, ExpectedNames
<1>4. obj \in Nat /\ obj \notin Live
  BY NewObjectIsNew DEF RegistryInv, RegistryTypes
<1>5. \A i \in Live : i \in DOMAIN heap
  BY DEF RegistryInv, RegistryTypes
<1>6. Registered = table \cup list
  BY DEF RegistryInv, RegistryTypes
<1>7. Whole(n) \in Nat
  BY <1>3, DocAssumption DEF Whole
<1> HIDE DEF obj
<1>8. /\ DOMAIN heap' = Live \cup {obj} /\ heap'[obj] = Whole(n)
      /\ \A i \in Live : heap'[i] = heap[i]
  BY <1>2, <1>4
<1>9. /\ Registered' = table' \cup list' /\ Registered' = Registered \cup {n}
      /\ schema'[n] = obj
      /\ \A m \in Registered' : m # n => m \in Registered /\ schema'[m] = schema[m]
  BY <1>2, <1>6 DEF Registered
<1>10. ThreadTypes'
  BY <1>1 DEF RegistryInv, ThreadTypes
<1>11. \A i : i \in Live' => i \in Live \/ i = obj
  <2>1. (\A i : i \in Live <=> Refers(i))'
    BY LiveObjects, PTL
  <2>2. \A i : Refers(i)' => Refers(i) \/ i = obj
    BY <1>1, <1>9 DEF Refers, Registered
  <2> QED
    BY <2>1, <2>2, LiveObjects
<1>12. RegistryTypes'
  <2>1. IsFiniteSet(DOMAIN heap')
    <3>1. IsFiniteSet(Live)
      BY FS_Subset DEF RegistryInv, RegistryTypes
    <3> QED
      BY <1>8, <3>1, FS_AddElement
  <2>2. \A i \in DOMAIN heap' : i \in Nat /\ heap'[i] \in Nat
    BY <1>4, <1>5, <1>7, <1>8 DEF RegistryInv, RegistryTypes
  <2>3. Registered' \subseteq Names
    BY <1>3, <1>9 DEF RegistryInv, RegistryTypes
  <2> QED
    BY <1>1, <1>8, <1>9, <1>11, <2>1, <2>2, <2>3 DEF RegistryInv, RegistryTypes
<1>13. Expected' = Expected
  BY <1>1, ExpectedStays
<1>14. \A m \in Registered : schema[m] \in Live
  BY LiveObjects DEF Refers, Registered
<1>15. \A u \in Threads : \A k \in DOMAIN frames[u] : frames[u][k].obj \in Live
  BY LiveObjects DEF Refers
<1>16. \A i \in Live : \A m : Sized(i, m) =>
         heap'[i] <= Whole(m) /\ (style = "flat" => heap'[i] = Whole(m))
  BY <1>8 DEF Sized
<1>17. ASSUME NEW m \in Registered'
       PROVE  /\ m \in Expected /\ Sized(schema[m], m)'
              /\ m = n => schema'[m] = obj
              /\ m # n => schema'[m] \in Live
  <2>1. m \in Expected
    BY <1>3, <1>9 DEF RegistryInv, Objects
  <2>2. /\ m = n => schema'[m] = obj
        /\ m # n => schema'[m] \in Live /\ Sized(schema'[m], m)
    BY <1>9, <1>14 DEF RegistryInv, Objects
  <2>3. heap'[schema'[m]] <= Whole(m) /\ (style = "flat" => heap'[schema'[m]] = Whole(m))
    BY <1>7, <1>8, <1>16, <2>2
  <2> QED
    BY <1>1, <2>1, <2>2, <2>3 DEF Sized, Whole
<1>18. \A m, l \in Registered' : schema'[m] = schema'[l] => m = l
  BY <1>4, <1>9, <1>17 DEF RegistryInv, Objects
<1>19. ASSUME NEW u \in Threads, NEW k \in DOMAIN frames[u]
       PROVE  /\ frames[u][k].name \in Expected
              /\ Sized(frames[u][k].obj, frames[u][k].name)'
              /\ \A m \in Registered' : schema'[m] = frames[u][k].obj => m = frames[u][k].name
              /\ \A v \in Threads : \A l \in DOMAIN frames[v] :
                   frames[v][l].obj = frames[u][k].obj => v = u /\ l = k
  <2>1. /\ frames[u][k].name \in Expected /\ Sized(frames[u][k].obj, frames[u][k].name)
        /\ \A m \in Registered : schema[m] = frames[u][k].obj => m = frames[u][k].name
        /\ \A v \in Threads : \A l \in DOMAIN frames[v] :
             frames[v][l].obj = frames[u][k].obj => v = u /\ l = k
    BY DEF RegistryInv, Objects
  <2>2. frames[u][k].obj \in Live
    BY <1>15
  <2>3. heap'[frames[u][k].obj] <= Whole(frames[u][k].name)
        /\ (style = "flat" => heap'[frames[u][k].obj] = Whole(frames[u][k].name))
    BY <1>16, <2>1, <2>2
  <2>4. \A m \in Registered' : schema'[m] = frames[u][k].obj => m = frames[u][k].name
    BY <1>4, <1>9, <1>17, <2>1, <2>2
  <2> QED
    BY <1>1, <2>1, <2>3, <2>4 DEF Sized, Whole
<1>20. \A u \in Threads : putting'[u] \in Expected \cup {None}
  BY <1>1 DEF RegistryInv, Objects
<1>21. Objects'
  BY <1>1, <1>13, <1>17, <1>18, <1>19, <1>20 DEF Objects
<1> QED
  BY <1>10, <1>12, <1>21 DEF RegistryInv

LEMMA RegistryNext == GateInv /\ RegistryInv /\ [DocNext]_docVars => RegistryInv'
<1> SUFFICES ASSUME GateInv, RegistryInv, [DocNext]_docVars PROVE RegistryInv'
  OBVIOUS
<1>1. ASSUME NEW t \in Threads, Request(t) \/ Handle(t) PROVE RegistryInv'
  BY <1>1, GateStepKeeps, RegisterTypesKeeps, ClearKeeps, DescribeKeeps, PutKeeps, PutFieldKeeps, EndKeeps DEF Handle
<1>2. CASE UNCHANGED docVars
  <2>1. ThreadTypes' /\ UNCHANGED <<style, table, list, schema, heap, putting, copy, frames, requests>>
    BY <1>2 DEF docVars, RegistryInv, ThreadTypes
  <2>2. /\ \A u \in Threads : putting[u] \in Expected \cup {None}
        /\ \A u \in Threads : \A n \in DOMAIN copy[u] : Refers(copy[u][n])
        /\ requests \in 0..MaxRequests
    BY DEF RegistryInv, RegistryTypes, Objects, Refers
  <2> QED
    BY <2>1, <2>2, QuietStep
<1> QED
  BY <1>1, <1>2 DEF DocNext

LEMMA RegistryInvariant == DocSpec => [](GateInv /\ RegistryInv)
<1>1. DocInit => GateInv /\ RegistryInv
  BY GateInitInv, RegistryInit
<1>2. GateInv /\ RegistryInv /\ [DocNext]_docVars => (GateInv /\ RegistryInv)'
  BY GateNextInv, RegistryNext
<1> QED
  BY <1>1, <1>2, PTL DEF DocSpec

(* Types: the monitor is held exactly while a map is built, the table and   *)
(* the list hold known names, and no object that is in use is collected.    *)
THEOREM DocTypesAreCorrect == DocSpec => []DocTypeOK
<1>1. GateInv /\ RegistryInv => DocTypeOK
  BY DEF GateInv, OneBuilder, RegistryInv, RegistryTypes, DocTypeOK, Phases
<1> QED
  BY <1>1, RegistryInvariant, PTL

----------------------------------------------------------------------------
(* A kept registry that was warm when some request started, and that        *)
(* request's copy and answer.                                               *)
WarmFor(t) ==
  /\ Warm
  /\ pc[t] \in {"copy", "answer"} => copy[t] = [n \in Expected |-> schema[n]]
  /\ answer[t] # None => Complete(t)
WarmInv ==
  /\ startedWarm \in [Threads -> BOOLEAN]
  /\ style = "kept" => \A t \in Threads : startedWarm[t] => WarmFor(t)

(* Once warm a kept registry stays as it is: nobody clears it, every type   *)
(* that is asked for is registered, a field goes to a registration that is  *)
(* lost.                                                                    *)
LEMMA WarmStays ==
  ASSUME GateInv, RegistryInv, style = "kept", Warm, NEW t \in Threads, Request(t) \/ Handle(t)
  PROVE  Warm' /\ UNCHANGED <<style, schema, table, list>> /\ Expected' = Expected
<1>1. UNCHANGED style
  BY DEF Handle, Request, ReadMap, Lock, RegisterTypes, BuildHandler, BuildFails, Built, Clear, DescribeRoot, Put,
         DescribeField, PutField, EndOfFields, BeginCopy, EndCopy, Answer, historyVars
<1>2. Expected' = Expected
  BY <1>1, ExpectedStays
<1>3. ~Clear(t) /\ ~Put(t) /\ ~RegisterTypes(t)
  BY BuiltExpected DEF Clear, Put, RegisterTypes, GateInv, Gate, Warm
<1>4. ~DescribeField(t)
  BY NextFieldExpected DEF DescribeField, Unknown, Warm
<1>5. DescribeRoot(t) => UNCHANGED putting
  <2> SUFFICES ASSUME DescribeRoot(t) PROVE UNCHANGED putting
    OBVIOUS
  <2>1. todo[t] \in Seq(Range(Roots)) /\ todo[t] # << >>
    BY DEF DescribeRoot, Filling, RegistryInv, ThreadTypes
  <2>2. Head(todo[t]) \in Range(Roots)
    BY <2>1
  <2>3. ~Unknown(Head(todo[t]))
    BY <2>2, ExpectedNames DEF Unknown, Warm
  <2> QED
    BY <2>3 DEF DescribeRoot
<1>6. UNCHANGED <<schema, table, list, putting>>
  BY <1>3, <1>4, <1>5
  DEF Handle, Request, ReadMap, Lock, RegisterTypes, BuildHandler, BuildFails, Built, DescribeRoot,
      PutField, EndOfFields, BeginCopy, EndCopy, Answer, registryVars
<1>7. ASSUME NEW n \in Expected PROVE heap'[schema[n]] = Whole(n)
  <2>1. n \in Registered /\ heap[schema[n]] = Whole(n)
    BY DEF Warm, RegistryInv, RegistryTypes
  <2>2. CASE PutField(t)
    <3>1. /\ frames[t] # << >> /\ FieldsLeft(t)
          /\ heap' = [heap EXCEPT ![TopFrame(t).obj] = heap[TopFrame(t).obj] + 1]
      BY <2>2 DEF PutField
    <3>2. /\ Len(frames[t]) \in DOMAIN frames[t] /\ TopFrame(t) = frames[t][Len(frames[t])]
          /\ TopFrame(t).obj \in DOMAIN heap /\ heap[TopFrame(t).obj] \in Nat
          /\ heap[TopFrame(t).obj] + 1 \in 1..Whole(TopFrame(t).name)
      BY <3>1, NextFieldExpected
    <3>3. schema[n] # TopFrame(t).obj
      <4> SUFFICES ASSUME schema[n] = TopFrame(t).obj PROVE FALSE
        OBVIOUS
      <4>1. n = TopFrame(t).name
        BY <2>1, <3>2 DEF RegistryInv, Objects
      <4> QED
        BY <2>1, <3>2, <4>1
    <3> QED
      BY <2>1, <3>1, <3>3
  <2>3. CASE ~PutField(t)
    BY <1>3, <1>4, <2>1, <2>3
    DEF Handle, Request, ReadMap, Lock, RegisterTypes, BuildHandler, BuildFails, Built, DescribeRoot,
        EndOfFields, BeginCopy, EndCopy, Answer, registryVars
  <2> QED
    BY <2>2, <2>3
<1>8. Warm'
  BY <1>2, <1>6, <1>7 DEF Warm, Whole
<1> QED
  BY <1>1, <1>2, <1>6, <1>8

LEMMA WarmNext == GateInv /\ RegistryInv /\ WarmInv /\ [DocNext]_docVars => WarmInv'
<1> SUFFICES ASSUME GateInv, RegistryInv, WarmInv, [DocNext]_docVars PROVE WarmInv'
  OBVIOUS
<1>1. ASSUME NEW t \in Threads, Request(t) \/ Handle(t) PROVE WarmInv'
  <2>1. CASE Request(t)
    <3>1. /\ startedWarm' = [u \in Threads |-> IF u = t THEN Warm ELSE startedWarm[u] /\ Active(u)]
          /\ answer' = [u \in Threads |-> None] /\ UNCHANGED <<style, copy, schema>>
          /\ pc' = [pc EXCEPT ![t] = IF style = "kept" THEN "map" ELSE "clear"]
      BY <2>1 DEF Request, registryVars
    <3>2. startedWarm' \in [Threads -> BOOLEAN]
      BY <3>1 DEF Warm, WarmInv, Active
    <3>3. ASSUME style = "kept", NEW u \in Threads, startedWarm'[u] PROVE WarmFor(u)'
      <4>1. Warm /\ (u # t => startedWarm[u])
        BY <3>1, <3>3 DEF WarmInv, WarmFor
      <4>2. Warm' /\ Expected' = Expected
        BY <1>1, <3>3, <4>1, WarmStays
      <4>3. pc'[u] \in {"copy", "answer"} => copy'[u] = [n \in Expected |-> schema[n]]
        BY <3>1, <3>3, <4>1 DEF WarmInv, WarmFor, RegistryInv, ThreadTypes
      <4> QED
        BY <3>1, <4>2, <4>3 DEF WarmFor
    <3> QED
      BY <3>1, <3>2, <3>3 DEF WarmInv
  <2>2. CASE Handle(t)
    <3>1. UNCHANGED <<style, startedWarm>>
      BY <2>2 DEF Handle, ReadMap, Lock, RegisterTypes, BuildHandler, BuildFails, Built, Clear, DescribeRoot, Put,
             DescribeField, PutField, EndOfFields, BeginCopy, EndCopy, Answer, historyVars
    <3>2. ASSUME style = "kept", NEW u \in Threads, startedWarm[u] PROVE WarmFor(u)'
      <4>1. Warm /\ WarmFor(u)
        BY <3>2 DEF WarmInv, WarmFor
      <4>2. Warm' /\ Expected' = Expected /\ UNCHANGED schema /\ UNCHANGED style
        BY <1>1, <3>2, <4>1, WarmStays
      <4>3. pc'[u] \in {"copy", "answer"} => copy'[u] = [n \in Expected |-> schema[n]]
        <5>1. CASE BeginCopy(t) /\ u = t
          <6>1. copy'[u] = [n \in list |-> schema[n]]
            BY <5>1 DEF BeginCopy, RegistryInv, ThreadTypes
          <6> QED
            BY <4>1, <6>1 DEF Warm
        <5>2. CASE ~(BeginCopy(t) /\ u = t)
          <6>1. pc'[u] \in {"copy", "answer"} => pc[u] \in {"copy", "answer"} /\ copy'[u] = copy[u]
            BY <2>2, <5>2 DEF Handle, ReadMap, Lock, RegisterTypes, BuildHandler, BuildFails, Built, Clear,
               DescribeRoot, Put, DescribeField, PutField, EndOfFields, BeginCopy, EndCopy, Answer,
               Fail, RegistryInv, ThreadTypes
          <6> QED
            BY <4>1, <6>1 DEF WarmFor
        <5> QED
          BY <5>1, <5>2
      <4>4. answer'[u] # None => Complete(u)'
        <5>1. CASE Answer(t) /\ u = t
          <6>1. /\ answer'[u] = [dtos |-> [n \in DOMAIN copy[u] |-> heap[copy[u][n]]], flows |-> flows]
                /\ pc[u] = "answer"
            BY <5>1 DEF Answer, RegistryInv, ThreadTypes
          <6>2. answer'[u].dtos = [n \in DOMAIN copy[u] |-> heap[copy[u][n]]]
            BY <6>1
          <6>3. copy[u] = [n \in Expected |-> schema[n]]
            BY <4>1, <6>1 DEF WarmFor
          <6>4. answer'[u].dtos = [n \in Expected |-> Whole(n)]
            BY <4>1, <6>2, <6>3 DEF Warm
          <6> QED
            BY <4>2, <6>4 DEF Complete, Whole
        <5>2. CASE ~(Answer(t) /\ u = t)
          <6>1. answer'[u] = answer[u]
            BY <2>2, <5>2 DEF Handle, ReadMap, Lock, RegisterTypes, BuildHandler, BuildFails, Built, Clear,
               DescribeRoot, Put, DescribeField, PutField, EndOfFields, BeginCopy, EndCopy, Answer,
               RegistryInv, ThreadTypes
          <6> QED
            BY <4>1, <4>2, <6>1 DEF WarmFor, Complete, Whole
        <5> QED
          BY <5>1, <5>2
      <4> QED
        BY <4>2, <4>3, <4>4 DEF WarmFor
    <3> QED
      BY <3>1, <3>2 DEF WarmInv
  <2> QED
    BY <1>1, <2>1, <2>2
<1>2. CASE UNCHANGED docVars
  <2>1. Expected' = Expected
    BY <1>2, ExpectedStays DEF docVars
  <2>2. Warm' <=> Warm
    BY <1>2, <2>1 DEF docVars, Warm, Whole
  <2>3. ASSUME NEW u \in Threads PROVE WarmFor(u)' <=> WarmFor(u)
    BY <1>2, <2>1, <2>2 DEF docVars, WarmFor, Complete, Whole
  <2> QED
    BY <1>2, <2>3 DEF docVars, WarmInv
<1> QED
  BY <1>1, <1>2 DEF DocNext

(* Once every type is registered, with its fields, and no registration is   *)
(* under way, a request to the command documentation is answered with all   *)
(* of them, whatever other requests do meanwhile.                           *)
THEOREM WarmDocsKeepComplete == DocSpec => []WarmDocsAreComplete
<1>1. DocInit => WarmInv
  <2> SUFFICES ASSUME DocInit PROVE WarmInv
    OBVIOUS
  <2> QED
    BY DEF DocInit, WarmInv
<1>2. WarmInv => WarmDocsAreComplete
  BY DEF WarmInv, WarmFor, WarmDocsAreComplete, Answered
<1> QED
  BY <1>1, <1>2, WarmNext, RegistryInvariant, PTL DEF DocSpec

----------------------------------------------------------------------------
(* While a request that nobody overlaps fills the registry: the table and   *)
(* the list agree; a registered type has all its fields or is being         *)
(* registered by this request; the types of the fields it has are           *)
(* registered; so are the roots that were described.                        *)
Filled(t) ==
  /\ table = list
  /\ \A n \in table : heap[schema[n]] # Whole(n) =>
       \E k \in DOMAIN frames[t] : frames[t][k].obj = schema[n]
  /\ \A k \in DOMAIN frames[t] :
       frames[t][k].name \in table /\ schema[frames[t][k].name] = frames[t][k].obj
  /\ style # "flat" => \A n \in table : \A i \in 1..heap[schema[n]] :
       Fields[n][i] \in Names => Fields[n][i] \in table
  /\ \A k \in DOMAIN frames[t] :
       LET next == Fields[frames[t][k].name][heap[frames[t][k].obj] + 1]
       IN  frames[t][k].described /\ next \in Names => next \in table \cup {putting[t]}
  /\ \A n \in Range(Roots) : n \in table \/ n \in Range(todo[t]) \/ n = putting[t]
  /\ putting[t] \notin table

Copied(t) ==
  DOMAIN copy[t] = Expected /\ \A n \in Expected : heap[copy[t][n]] = Whole(n)

Alone(t) ==
  /\ \A u \in Threads : u # t => pc[u] = "idle"
  /\ racing[t] # "disturbed"
  /\ pc[t] = "fill" => Filled(t)
  /\ pc[t] \in {"copy", "answer"} => Copied(t)

LoneInv ==
  /\ overlapped \in [Threads -> BOOLEAN]
  /\ \A u \in Threads : racing[u] # "no" => putting[u] # None \/ pc[u] = "copy"
  /\ style # "kept" => \A t \in Threads :
       /\ pc[t] \notin {"map", "lock", "build"}
       /\ pc[t] # "idle" /\ ~overlapped[t] => Alone(t)
       /\ answer[t] # None /\ ~overlapped[t] => Complete(t)

LEMMA ClearFills ==
  ASSUME RegistryInv, NEW t \in Threads, Clear(t)
  PROVE  Filled(t)'
<1>1. /\ table' = {} /\ list' = {} /\ todo'[t] = Roots /\ frames'[t] = << >> /\ putting'[t] = None
  BY DEF Clear, RegistryInv, ThreadTypes
<1>2. DOMAIN frames'[t] = {}
  BY <1>1
<1> QED
  BY <1>1, <1>2 DEF Filled

LEMMA DescribeRootFills ==
  ASSUME RegistryInv, NEW t \in Threads, Filled(t), DescribeRoot(t)
  PROVE  Filled(t)'
<1> DEFINE root == Head(todo[t])
<1>1. /\ putting[t] = None /\ UNCHANGED <<style, table, list, schema, heap, frames>>
      /\ todo[t] \in Seq(Range(Roots)) /\ todo[t] # << >> /\ todo'[t] = Tail(todo[t])
  BY DEF DescribeRoot, Filling, historyVars, registryVars, RegistryInv, ThreadTypes
<1>2. root \in Range(Roots) /\ \A n \in Range(todo[t]) : n = root \/ n \in Range(Tail(todo[t]))
  <2>1. root \in Range(Roots)
    BY <1>1
  <2>2. ASSUME NEW i \in DOMAIN todo[t] PROVE todo[t][i] = root \/ todo[t][i] \in Range(Tail(todo[t]))
    <3> DEFINE s == todo[t]
    <3>1. /\ s \in Seq(Range(Roots)) /\ i \in 1..Len(s) /\ Len(s) \in Nat /\ Len(s) # 0
          /\ Len(Tail(s)) = Len(s) - 1 /\ \A j \in 1..(Len(s) - 1) : Tail(s)[j] = s[j + 1]
          /\ DOMAIN Tail(s) = 1..(Len(s) - 1)
      BY <1>1
    <3> HIDE DEF s
    <3>2. CASE i = 1
      BY <1>1, <3>2
    <3>3. CASE i # 1
      <4>1. i - 1 \in 1..(Len(s) - 1) /\ (i - 1) + 1 = i
        BY <3>1, <3>3
      <4>2. Tail(s)[i - 1] = s[i] /\ i - 1 \in DOMAIN Tail(s)
        BY <3>1, <4>1
      <4> QED
        BY <4>2 DEF Range, s
    <3> QED
      BY <3>2, <3>3
  <2> QED
    BY <2>1, <2>2 DEF Range
<1>3. Range(Roots) \subseteq Names /\ None \notin Names
  BY ExpectedNames, DocAssumption
<1>4. \/ root \in table /\ putting'[t] = None
      \/ root \notin table /\ putting'[t] = root
  BY <1>1, <1>2, <1>3 DEF DescribeRoot, Unknown, RegistryInv, ThreadTypes
<1> HIDE DEF root
<1>5. putting'[t] \notin table
  BY <1>1, <1>4 DEF Filled
<1>6. \A n \in Range(Roots) : n \in table \/ n \in Range(todo'[t]) \/ n = putting'[t]
  BY <1>1, <1>2, <1>3, <1>4 DEF Filled
<1> QED
  BY <1>1, <1>3, <1>5, <1>6 DEF Filled, Whole

LEMMA DescribeFieldFills ==
  ASSUME RegistryInv, NEW t \in Threads, Filled(t), DescribeField(t)
  PROVE  Filled(t)'
<1>1. /\ putting[t] = None /\ UNCHANGED <<style, table, list, schema, heap, todo>>
      /\ frames[t] # << >> /\ FieldsLeft(t) /\ NextField(t) \in Names \ table
      /\ putting'[t] = NextField(t)
      /\ frames' = [frames EXCEPT ![t][Len(frames[t])].described = TRUE]
  BY DEF DescribeField, Filling, Unknown, historyVars, registryVars, RegistryInv, ThreadTypes
<1> DEFINE top == Len(frames[t])
<1>2. /\ DOMAIN frames'[t] = DOMAIN frames[t]
      /\ \A k \in DOMAIN frames[t] : k # top => frames'[t][k] = frames[t][k]
      /\ \A k \in DOMAIN frames[t] :
           frames'[t][k].name = frames[t][k].name /\ frames'[t][k].obj = frames[t][k].obj
      /\ frames[t][top] = TopFrame(t)
  BY <1>1, FlagStep, NextFieldExpected
<1>3. None \notin Names
  BY DocAssumption
<1>4. ASSUME NEW k \in DOMAIN frames[t], frames'[t][k].described,
             Fields[frames[t][k].name][heap[frames[t][k].obj] + 1] \in Names
      PROVE  Fields[frames[t][k].name][heap[frames[t][k].obj] + 1] \in table \cup {putting'[t]}
  <2>1. CASE k = top
    BY <1>1, <1>2, <2>1 DEF NextField
  <2>2. CASE k # top
    BY <1>1, <1>2, <1>3, <1>4, <2>2 DEF Filled
  <2> QED
    BY <2>1, <2>2
<1>5. \A n \in Range(Roots) : n \in table \/ n \in Range(todo[t])
  BY <1>1, <1>3, ExpectedNames DEF Filled
<1>6. \A n \in table : heap[schema[n]] # Whole(n) =>
        \E k \in DOMAIN frames[t] : frames'[t][k].obj = schema[n]
  BY <1>2 DEF Filled
<1> HIDE DEF top
<1> QED
  BY <1>1, <1>2, <1>4, <1>5, <1>6 DEF Filled, Whole

LEMMA PutFills ==
  ASSUME RegistryInv, NEW t \in Threads, Filled(t), racing[t] # "disturbed", Put(t)
  PROVE  Filled(t)'
<1> DEFINE n == putting[t]
           obj == NewObject
           last == Frame(n, obj)
           next(f) == Fields[f.name][heap[f.obj] + 1]
<1>1. /\ n \in Names /\ n # None /\ obj \notin Live
      /\ UNCHANGED <<style, todo>>
      /\ heap'[obj] = Placeholder(n) /\ \A i \in Live : heap'[i] = heap[i]
      /\ table' = table \cup {n} /\ list' = list \cup {n}
      /\ Registered' = table' \cup list'
      /\ n \in Registered' => schema'[n] = obj
      /\ \A m \in Registered' : m # n => m \in Registered /\ schema'[m] = schema[m]
      /\ frames' = [frames EXCEPT ![t] = Append(frames[t], last)]
      /\ putting' = [putting EXCEPT ![t] = None]
  BY PutFacts
<1>2. last.name = n /\ last.obj = obj /\ last.described = FALSE
  BY DEF Frame
<1>3. n \notin table /\ table = list
  BY DEF Filled
<1>4. None \notin table' /\ putting'[t] = None
  BY <1>1, DocAssumption DEF RegistryInv, RegistryTypes, ThreadTypes
<1> HIDE DEF n, obj, last
<1>5. /\ schema'[n] = obj
      /\ \A m \in table : m # n /\ schema'[m] = schema[m] /\ schema[m] \in Live
  <2>1. \A m \in table : schema[m] \in Live
    BY LiveObjects DEF Refers, RegistryInv, RegistryTypes, Registered
  <2> QED
    BY <1>1, <1>3, <2>1
<1>6. \A k \in DOMAIN frames[t] : frames[t][k].obj \in Live
  BY LiveObjects DEF Refers
<1>7. /\ frames[t] \in Seq(FrameSet) /\ frames'[t] = Append(frames[t], last)
      /\ Len(frames[t]) + 1 \in DOMAIN frames'[t] /\ frames'[t][Len(frames[t]) + 1] = last
      /\ DOMAIN frames[t] \subseteq DOMAIN frames'[t]
      /\ \A k \in DOMAIN frames[t] : frames'[t][k] = frames[t][k]
      /\ \A k \in DOMAIN frames'[t] : k \in DOMAIN frames[t] \/ frames'[t][k] = last
  <2>1. frames[t] \in Seq(FrameSet) /\ frames'[t] = Append(frames[t], last)
    BY <1>1 DEF RegistryInv, ThreadTypes
  <2> QED
    BY <2>1
<1>8. ASSUME NEW m \in table', heap'[schema'[m]] # Whole(m)
      PROVE  \E k \in DOMAIN frames'[t] : frames'[t][k].obj = schema'[m]
  <2>1. CASE m = n
    BY <1>2, <1>5, <1>7, <2>1
  <2>2. CASE m # n
    <3>1. m \in table /\ schema'[m] = schema[m] /\ heap[schema[m]] # Whole(m)
      BY <1>1, <1>5, <1>8, <2>2
    <3>2. PICK k \in DOMAIN frames[t] : frames[t][k].obj = schema[m]
      BY <3>1 DEF Filled
    <3> QED
      BY <1>7, <3>1, <3>2
  <2> QED
    BY <2>1, <2>2
<1>9. ASSUME NEW k \in DOMAIN frames'[t]
      PROVE  frames'[t][k].name \in table' /\ schema'[frames'[t][k].name] = frames'[t][k].obj
  <2>1. CASE k \in DOMAIN frames[t]
    BY <1>1, <1>5, <1>7, <2>1 DEF Filled
  <2>2. CASE frames'[t][k] = last
    BY <1>1, <1>2, <1>5, <2>2
  <2> QED
    BY <1>7, <2>1, <2>2
<1>10. ASSUME style # "flat", NEW m \in table', NEW i \in 1..heap'[schema'[m]], Fields[m][i] \in Names
       PROVE  Fields[m][i] \in table'
  <2>1. CASE m = n
    BY <1>1, <1>5, <1>10, <2>1 DEF Placeholder
  <2>2. CASE m # n
    BY <1>1, <1>5, <1>10, <2>2 DEF Filled
  <2> QED
    BY <2>1, <2>2
<1>11. ASSUME NEW k \in DOMAIN frames'[t], frames'[t][k].described,
              Fields[frames'[t][k].name][heap'[frames'[t][k].obj] + 1] \in Names
       PROVE  Fields[frames'[t][k].name][heap'[frames'[t][k].obj] + 1] \in table'
  <2>1. k \in DOMAIN frames[t] /\ frames'[t][k] = frames[t][k]
    BY <1>2, <1>7, <1>11
  <2>2. heap'[frames[t][k].obj] = heap[frames[t][k].obj]
    BY <1>1, <1>6, <2>1
  <2> QED
    BY <1>1, <1>11, <2>1, <2>2 DEF Filled, n
<1>12. \A m \in Range(Roots) : m \in table' \/ m \in Range(todo'[t])
  BY <1>1 DEF Filled, n
<1> QED
  BY <1>1, <1>3, <1>4, <1>8, <1>9, <1>10, <1>11, <1>12 DEF Filled, Whole

LEMMA PutFieldFills ==
  ASSUME RegistryInv, NEW t \in Threads, Filled(t), PutField(t)
  PROVE  Filled(t)'
<1> DEFINE top == Len(frames[t])
           type == TopFrame(t).name
           obj == TopFrame(t).obj
<1>1. /\ UNCHANGED <<style, todo, putting, schema, table, list>> /\ putting[t] = None
      /\ frames[t] # << >> /\ FieldsLeft(t)
      /\ TopFrame(t).described \/ ~Unknown(NextField(t))
      /\ heap' = [heap EXCEPT ![obj] = heap[obj] + 1]
      /\ frames' = [frames EXCEPT ![t][Len(frames[t])].described = FALSE]
  BY DEF PutField, Filling, historyVars
<1>2. /\ top \in DOMAIN frames[t] /\ frames[t][top].name = type /\ frames[t][top].obj = obj
      /\ frames[t][top] = TopFrame(t)
      /\ obj \in DOMAIN heap /\ heap[obj] \in Nat /\ heap[obj] + 1 \in 1..Whole(type)
  BY <1>1, NextFieldExpected
<1>3. /\ DOMAIN frames'[t] = DOMAIN frames[t]
      /\ frames'[t][top].described = FALSE
      /\ \A k \in DOMAIN frames[t] : k # top => frames'[t][k] = frames[t][k]
      /\ \A k \in DOMAIN frames[t] :
           frames'[t][k].name = frames[t][k].name /\ frames'[t][k].obj = frames[t][k].obj
  BY <1>1, FlagStep
<1>4. None \notin Names
  BY DocAssumption
<1>5. NextField(t) = Fields[type][heap[obj] + 1] /\ (NextField(t) \in Names => NextField(t) \in table)
  <2>1. NextField(t) = Fields[type][heap[obj] + 1]
    BY DEF NextField
  <2>2. CASE TopFrame(t).described
    BY <1>1, <1>2, <1>4, <2>1, <2>2 DEF Filled
  <2>3. CASE ~Unknown(NextField(t))
    BY <2>1, <2>3 DEF Unknown
  <2> QED
    BY <1>1, <2>1, <2>2, <2>3
<1>6. type \in table /\ schema[type] = obj
  BY <1>2 DEF Filled
<1>7. \A m \in table : schema[m] = obj => m = type
  BY <1>2 DEF RegistryInv, Objects, RegistryTypes
<1>8. \A k \in DOMAIN frames[t] : frames[t][k].obj = obj => k = top
  BY <1>2 DEF RegistryInv, Objects
<1> HIDE DEF top, type, obj
<1>9. heap'[obj] = heap[obj] + 1 /\ \A i : i # obj => heap'[i] = heap[i]
  BY <1>1, <1>2
<1>10. ASSUME NEW m \in table, heap'[schema[m]] # Whole(m)
       PROVE  \E k \in DOMAIN frames'[t] : frames'[t][k].obj = schema[m]
  <2>1. CASE schema[m] = obj
    BY <1>2, <1>3, <2>1
  <2>2. CASE schema[m] # obj
    <3>1. PICK k \in DOMAIN frames[t] : frames[t][k].obj = schema[m]
      BY <1>9, <1>10, <2>2 DEF Filled
    <3> QED
      BY <1>3, <3>1
  <2> QED
    BY <2>1, <2>2
<1>11. ASSUME style # "flat", NEW m \in table, NEW i \in 1..heap'[schema[m]], Fields[m][i] \in Names
       PROVE  Fields[m][i] \in table
  <2>1. CASE schema[m] = obj
    <3>1. m = type /\ i \in 1..(heap[obj] + 1)
      BY <1>7, <1>9, <1>11, <2>1
    <3>2. CASE i = heap[obj] + 1
      BY <1>5, <1>11, <3>1, <3>2
    <3>3. CASE i # heap[obj] + 1
      <4>1. i \in 1..heap[schema[m]]
        BY <1>2, <2>1, <3>1, <3>3
      <4> QED
        BY <1>11, <4>1 DEF Filled
    <3> QED
      BY <3>2, <3>3
  <2>2. CASE schema[m] # obj
    BY <1>9, <1>11, <2>2 DEF Filled
  <2> QED
    BY <2>1, <2>2
<1>12. ASSUME NEW k \in DOMAIN frames[t], frames'[t][k].described,
              Fields[frames[t][k].name][heap'[frames[t][k].obj] + 1] \in Names
       PROVE  Fields[frames[t][k].name][heap'[frames[t][k].obj] + 1] \in table \cup {putting[t]}
  <2>1. k # top
    BY <1>3, <1>12
  <2>2. frames'[t][k] = frames[t][k] /\ heap'[frames[t][k].obj] = heap[frames[t][k].obj]
    BY <1>3, <1>8, <1>9, <2>1
  <2> QED
    BY <1>12, <2>2 DEF Filled
<1>13. \A k \in DOMAIN frames[t] :
         frames'[t][k].name \in table /\ schema[frames'[t][k].name] = frames'[t][k].obj
  BY <1>3 DEF Filled
<1>14. ASSUME NEW k \in DOMAIN frames'[t], frames'[t][k].described,
              Fields[frames'[t][k].name][heap'[frames'[t][k].obj] + 1] \in Names
       PROVE  Fields[frames'[t][k].name][heap'[frames'[t][k].obj] + 1] \in table \cup {putting[t]}
  <2>1. /\ k \in DOMAIN frames[t]
        /\ frames'[t][k].name = frames[t][k].name /\ frames'[t][k].obj = frames[t][k].obj
    BY <1>3
  <2> QED
    BY <1>12, <1>14, <2>1
<1>15. /\ table' = table /\ list' = table /\ schema' = schema /\ putting'[t] = putting[t]
       /\ todo'[t] = todo[t] /\ style' = style /\ putting[t] \notin table
       /\ \A n \in Range(Roots) : n \in table \/ n \in Range(todo[t]) \/ n = putting[t]
  BY <1>1 DEF Filled
<1> QED
  BY <1>3, <1>10, <1>11, <1>13, <1>14, <1>15 DEF Filled, Whole

LEMMA EndFills ==
  ASSUME RegistryInv, NEW t \in Threads, Filled(t), EndOfFields(t)
  PROVE  Filled(t)'
<1> DEFINE top == Len(frames[t])
<1>1. /\ UNCHANGED <<style, todo, putting, schema, table, list, heap>>
      /\ frames[t] # << >> /\ ~FieldsLeft(t) /\ frames[t] \in Seq(FrameSet)
      /\ frames'[t] = Front(frames[t])
  BY DEF EndOfFields, Filling, historyVars, registryVars, RegistryInv, ThreadTypes
<1>2. /\ top \in DOMAIN frames[t] /\ TopFrame(t) = frames[t][top]
      /\ DOMAIN frames'[t] = DOMAIN frames[t] \ {top}
      /\ \A k \in DOMAIN frames'[t] : frames'[t][k] = frames[t][k]
  BY <1>1 DEF Front, Last, TopFrame
<1>3. heap[frames[t][top].obj] = Whole(frames[t][top].name)
  <2>1. Sized(frames[t][top].obj, frames[t][top].name) /\ frames[t][top].name \in Names
    BY <1>2, ExpectedNames DEF RegistryInv, Objects
  <2>2. frames[t][top].obj \in DOMAIN heap
    BY <1>2, LiveObjects DEF Refers, RegistryInv, RegistryTypes
  <2>3. Whole(frames[t][top].name) \in Nat /\ heap[frames[t][top].obj] \in Nat
    BY <2>1, <2>2, DocAssumption DEF Whole, RegistryInv, RegistryTypes
  <2> QED
    BY <1>1, <1>2, <2>1, <2>3 DEF FieldsLeft, Sized
<1> HIDE DEF top
<1>4. ASSUME NEW m \in table, heap[schema[m]] # Whole(m)
      PROVE  \E k \in DOMAIN frames'[t] : frames'[t][k].obj = schema[m]
  <2>1. PICK k \in DOMAIN frames[t] : frames[t][k].obj = schema[m]
    BY <1>4 DEF Filled
  <2>2. m = frames[t][k].name
    BY <2>1 DEF RegistryInv, Objects, RegistryTypes
  <2>3. k # top
    BY <1>3, <1>4, <2>1, <2>2
  <2> QED
    BY <1>2, <2>1, <2>3
<1> QED
  BY <1>1, <1>2, <1>4 DEF Filled, Whole

(* With nothing left to describe, what is registered is what is expected.   *)
LEMMA BeginCopyCopies ==
  ASSUME RegistryInv, style # "kept", NEW t \in Threads, Filled(t), BeginCopy(t)
  PROVE  Copied(t)'
<1>1. /\ putting[t] = None /\ frames[t] = << >> /\ todo[t] = << >> /\ UNCHANGED <<style, heap>>
      /\ copy'[t] = [n \in list |-> schema[n]]
  BY DEF BeginCopy, Filling, historyVars, registryVars, RegistryInv, ThreadTypes
<1>2. DOMAIN frames[t] = {} /\ Range(todo[t]) = {}
  BY <1>1 DEF Range
<1>3. table = list /\ Registered = table /\ table \subseteq Names /\ table \subseteq Expected
  BY DEF Filled, RegistryInv, RegistryTypes, Objects
<1>4. \A n \in table : heap[schema[n]] = Whole(n)
  BY <1>2 DEF Filled
<1>5. Range(Roots) \subseteq table
  BY <1>1, <1>2, ExpectedNames, DocAssumption DEF Filled
<1>6. ASSUME NEW m \in table PROVE CustomFields(m) \subseteq table
  <2> SUFFICES ASSUME style # "flat", NEW f \in Range(Fields[m]) \cap Names PROVE f \in table
    BY DEF CustomFields
  <2>1. Fields[m] \in Seq(Names \cup {Simple})
    BY <1>3, DocAssumption
  <2>2. PICK i \in 1..Len(Fields[m]) : Fields[m][i] = f
    BY <2>1 DEF Range
  <2>3. heap[schema[m]] = Len(Fields[m])
    BY <1>4 DEF Whole
  <2> QED
    BY <2>2, <2>3 DEF Filled
<1>7. table = Expected
  BY <1>3, <1>5, <1>6, ExpectedLeast
<1>8. Expected' = Expected
  BY <1>1, ExpectedStays
<1> QED
  BY <1>1, <1>3, <1>4, <1>7, <1>8 DEF Copied, Whole

(* A put or a copy is under way only between its two steps.                 *)
LEMMA RacingNext ==
  ASSUME RegistryInv, LoneInv, NEW t \in Threads, Request(t) \/ Handle(t)
  PROVE  /\ \A u \in Threads : racing'[u] # "no" => putting'[u] # None \/ pc'[u] = "copy"
         /\ racing[t] # "disturbed" => racing'[t] # "disturbed"
<1>1. /\ racing \in [Threads -> {"no", "calm", "disturbed"}]
      /\ pc \in [Threads -> Phases] /\ putting \in [Threads -> Names \cup {None}]
      /\ None \notin Names
  BY DocAssumption DEF RegistryInv, ThreadTypes
<1>2. \A u \in Threads : racing[u] # "no" => putting[u] # None \/ pc[u] = "copy"
  BY DEF LoneInv
<1>3. \A u \in Threads : u # t => pc'[u] = pc[u] /\ putting'[u] = putting[u]
  BY <1>1 DEF Request, Handle, ReadMap, Lock, RegisterTypes, BuildHandler, BuildFails, Built, Clear, DescribeRoot,
     Put, DescribeField, PutField, EndOfFields, BeginCopy, EndCopy, Answer, Fail
<1>4. CASE Put(t) \/ Clear(t)
  <2>1. racing' = [u \in Threads |-> IF u = t THEN "no"
                                ELSE IF racing[u] = "calm" THEN "disturbed" ELSE racing[u]]
    BY <1>4 DEF Put, Clear, Disturbing
  <2> QED
    BY <1>2, <1>3, <2>1
<1>5. CASE DescribeRoot(t)
  <2>1. todo[t] \in Seq(Range(Roots)) /\ todo[t] # << >>
    BY <1>5 DEF DescribeRoot, Filling, RegistryInv, ThreadTypes
  <2>2. Head(todo[t]) # None
    BY <2>1, <1>1, ExpectedNames
  <2> QED
    BY <1>1, <1>2, <1>3, <1>5, <2>2 DEF DescribeRoot, Racing
<1>6. CASE DescribeField(t)
  BY <1>1, <1>2, <1>3, <1>6 DEF DescribeField, Racing, Unknown
<1>7. CASE BeginCopy(t)
  BY <1>1, <1>2, <1>3, <1>7 DEF BeginCopy, Racing
<1>8. CASE EndCopy(t)
  BY <1>1, <1>2, <1>3, <1>8 DEF EndCopy
<1>9. CASE \/ Request(t) \/ ReadMap(t) \/ Lock(t) \/ RegisterTypes(t) \/ BuildHandler(t) \/ BuildFails(t) \/ Built(t)
           \/ PutField(t) \/ EndOfFields(t) \/ Answer(t)
  <2>1. racing' = racing /\ putting' = putting /\ pc[t] # "copy"
    BY <1>9 DEF Request, ReadMap, Lock, RegisterTypes, BuildHandler, BuildFails, Built, PutField, EndOfFields,
       Answer, Active, Filling
  <2> QED
    BY <1>2, <1>3, <2>1
<1> QED
  BY <1>4, <1>5, <1>6, <1>7, <1>8, <1>9 DEF Handle

LEMMA LoneNext == GateInv /\ RegistryInv /\ LoneInv /\ [DocNext]_docVars => LoneInv'
<1> SUFFICES ASSUME GateInv, RegistryInv, LoneInv, [DocNext]_docVars PROVE LoneInv'
  OBVIOUS
<1>1. ASSUME NEW t \in Threads, Request(t) PROVE LoneInv'
  <2>1. /\ overlapped' = [u \in Threads |->
             IF u = t THEN \E w \in Threads : pc[w] # "idle" ELSE pc[u] # "idle"]
        /\ answer' = [u \in Threads |-> None] /\ UNCHANGED <<style, racing>> /\ pc[t] = "idle"
        /\ pc' = [pc EXCEPT ![t] = IF style = "kept" THEN "map" ELSE "clear"]
    BY <1>1 DEF Request, Active
  <2>2. \A u \in Threads : racing'[u] # "no" => putting'[u] # None \/ pc'[u] = "copy"
    BY <1>1, RacingNext
  <2>3. pc \in [Threads -> Phases] /\ putting[t] = None
    BY <2>1 DEF RegistryInv, ThreadTypes
  <2>4. racing[t] # "disturbed"
    BY <2>1, <2>3 DEF LoneInv
  <2>5. ASSUME style # "kept", NEW u \in Threads
        PROVE  /\ pc'[u] \notin {"map", "lock", "build"}
               /\ pc'[u] # "idle" /\ ~overlapped'[u] => Alone(u)'
               /\ answer'[u] = None
    <3>1. pc'[u] \notin {"map", "lock", "build"} /\ answer'[u] = None
      BY <2>1, <2>3, <2>5 DEF LoneInv
    <3>2. ASSUME pc'[u] # "idle", ~overlapped'[u] PROVE Alone(u)'
      <4>1. u = t /\ \A w \in Threads : pc[w] = "idle"
        BY <2>1, <2>3, <3>2
      <4>2. pc'[u] = "clear" /\ \A w \in Threads : w # u => pc'[w] = "idle"
        BY <2>1, <2>3, <2>5, <4>1
      <4> QED
        BY <2>1, <2>4, <4>1, <4>2 DEF Alone
    <3> QED
      BY <3>1, <3>2
  <2>6. overlapped' \in [Threads -> BOOLEAN]
    BY <2>1
  <2> QED
    BY <2>1, <2>2, <2>5, <2>6 DEF LoneInv
<1>2. ASSUME NEW t \in Threads, Handle(t) PROVE LoneInv'
  <2>1. UNCHANGED <<style, overlapped>> /\ pc[t] # "idle"
    BY <1>2 DEF Handle, ReadMap, Lock, RegisterTypes, BuildHandler, BuildFails, Built, Clear, DescribeRoot, Put,
       DescribeField, PutField, EndOfFields, BeginCopy, EndCopy, Answer, historyVars, Filling
  <2>2. /\ \A u \in Threads : racing'[u] # "no" => putting'[u] # None \/ pc'[u] = "copy"
        /\ racing[t] # "disturbed" => racing'[t] # "disturbed"
    BY <1>2, RacingNext
  <2>3. Expected' = Expected
    BY <2>1, ExpectedStays
  <2>4. pc \in [Threads -> Phases] /\ DOMAIN answer = Threads /\ DOMAIN copy = Threads
    BY DEF RegistryInv, ThreadTypes
  <2>5. ASSUME style # "kept"
        PROVE  /\ ~(ReadMap(t) \/ Lock(t) \/ RegisterTypes(t) \/ BuildHandler(t) \/ BuildFails(t) \/ Built(t))
               /\ pc[t] \in {"clear", "fill", "copy", "answer"}
    BY <2>1, <2>4, <2>5 DEF LoneInv, ReadMap, Lock, RegisterTypes, BuildHandler, BuildFails, Built, Phases
  <2>6. ASSUME style # "kept", NEW u \in Threads
        PROVE  /\ u # t => pc'[u] = pc[u] /\ answer'[u] = answer[u]
               /\ ~Answer(t) => answer'[u] = answer[u]
               /\ pc'[t] \in {"idle", "fill", "copy", "answer"}
    <3>1. CASE Clear(t) \/ BeginCopy(t) \/ EndCopy(t) \/ Answer(t)
      BY <2>4, <3>1 DEF Clear, BeginCopy, EndCopy, Answer, Fail
    <3>2. CASE DescribeRoot(t) \/ Put(t) \/ DescribeField(t) \/ PutField(t) \/ EndOfFields(t)
      BY <3>2 DEF DescribeRoot, Put, DescribeField, PutField, EndOfFields, Filling
    <3> QED
      BY <1>2, <2>5, <2>6, <3>1, <3>2 DEF Handle
  <2>7. ASSUME style # "kept", Alone(t) PROVE Alone(t)'
    <3>1. \A u \in Threads : u # t => pc'[u] = "idle"
      BY <2>6, <2>7 DEF Alone
    <3>2. racing'[t] # "disturbed" /\ racing[t] # "disturbed"
      BY <2>2, <2>7 DEF Alone
    <3>3. CASE DescribeRoot(t) \/ Put(t) \/ DescribeField(t) \/ PutField(t) \/ EndOfFields(t)
      <4>1. pc[t] = "fill" /\ pc' = pc
        BY <3>3 DEF DescribeRoot, Put, DescribeField, PutField, EndOfFields, Filling
      <4>2. Filled(t)
        BY <2>7, <4>1 DEF Alone
      <4>3. Filled(t)'
        BY <3>2, <3>3, <4>2, DescribeRootFills, PutFills, DescribeFieldFills, PutFieldFills, EndFills
      <4> QED
        BY <3>1, <3>2, <4>1, <4>3 DEF Alone
    <3>4. CASE Clear(t)
      <4>1. pc'[t] = "fill"
        BY <2>4, <3>4 DEF Clear
      <4> QED
        BY <3>1, <3>2, <3>4, <4>1, ClearFills DEF Alone
    <3>5. CASE BeginCopy(t)
      <4>1. pc[t] = "fill" /\ pc'[t] = "copy"
        BY <2>4, <3>5 DEF BeginCopy, Filling
      <4>2. Copied(t)'
        BY <2>7, <3>5, <4>1, BeginCopyCopies DEF Alone
      <4> QED
        BY <3>1, <3>2, <4>1, <4>2 DEF Alone
    <3>6. CASE EndCopy(t)
      <4>1. pc[t] = "copy" /\ pc'[t] = "answer" /\ UNCHANGED <<copy, heap>>
        BY <2>4, <3>2, <3>6 DEF EndCopy, registryVars
      <4>2. Copied(t)'
        BY <2>3, <2>7, <4>1 DEF Alone, Copied, Whole
      <4> QED
        BY <3>1, <3>2, <4>1, <4>2 DEF Alone
    <3>7. CASE Answer(t)
      <4>1. pc'[t] = "idle"
        BY <2>4, <3>7 DEF Answer
      <4> QED
        BY <3>1, <3>2, <4>1 DEF Alone
    <3> QED
      BY <1>2, <2>5, <2>7, <3>3, <3>4, <3>5, <3>6, <3>7 DEF Handle
  <2>8. ASSUME style # "kept", NEW u \in Threads, pc'[u] # "idle", ~overlapped[u]
        PROVE  Alone(u)'
    <3>1. CASE u = t
      BY <2>1, <2>7, <2>8, <3>1 DEF LoneInv
    <3>2. CASE u # t
      <4>1. pc[u] # "idle"
        BY <2>6, <2>8, <3>2
      <4>2. Alone(u)
        BY <2>8, <4>1 DEF LoneInv
      <4> QED
        BY <2>1, <3>2, <4>2 DEF Alone
    <3> QED
      BY <3>1, <3>2
  <2>9. ASSUME style # "kept", NEW u \in Threads, answer'[u] # None, ~overlapped[u]
        PROVE  Complete(u)'
    <3>1. CASE u = t /\ Answer(t)
      <4>1. /\ pc[t] = "answer"
            /\ answer'[t] = [dtos |-> [n \in DOMAIN copy[t] |-> heap[copy[t][n]]], flows |-> flows]
        BY <2>4, <3>1 DEF Answer
      <4>2. Copied(t)
        BY <2>9, <3>1, <4>1 DEF LoneInv, Alone
      <4>3. answer'[t].dtos = [n \in DOMAIN copy[t] |-> heap[copy[t][n]]]
        BY <4>1
      <4>4. answer'[t].dtos = [n \in Expected |-> Whole(n)]
        BY <4>2, <4>3 DEF Copied
      <4> QED
        BY <2>3, <3>1, <4>4 DEF Complete, Whole
    <3>2. CASE ~(u = t /\ Answer(t))
      <4>1. answer'[u] = answer[u]
        BY <2>6, <2>9, <3>2
      <4>2. Complete(u)
        BY <2>9, <4>1 DEF LoneInv
      <4> QED
        BY <2>3, <4>1, <4>2 DEF Complete, Whole
    <3> QED
      BY <3>1, <3>2
  <2>10. ASSUME style # "kept", NEW u \in Threads PROVE pc'[u] \notin {"map", "lock", "build"}
    BY <2>6, <2>10 DEF LoneInv
  <2> QED
    BY <2>1, <2>2, <2>8, <2>9, <2>10 DEF LoneInv
<1>3. CASE UNCHANGED docVars
  <2>1. Expected' = Expected
    BY <1>3, ExpectedStays DEF docVars
  <2>2. ASSUME NEW u \in Threads
        PROVE  (Complete(u)' <=> Complete(u)) /\ (Copied(u)' <=> Copied(u))
               /\ (Filled(u)' <=> Filled(u))
    BY <1>3, <2>1 DEF docVars, Complete, Copied, Filled, Whole
  <2>3. ASSUME NEW u \in Threads PROVE Alone(u)' <=> Alone(u)
    BY <1>3, <2>2 DEF docVars, Alone
  <2> QED
    BY <1>3, <2>2, <2>3 DEF docVars, LoneInv
<1> QED
  BY <1>1, <1>2, <1>3 DEF DocNext

(* A registry that is cleared by every request heals: a request that is     *)
(* alone from its first step to its answer documents every type its flows   *)
(* mention, with all fields, whatever overlapping requests, lost puts and   *)
(* failed copies did before.                                                *)
THEOREM LoneDocsHeal == DocSpec => []LoneDocsAreComplete
<1>1. DocInit => LoneInv
  <2> SUFFICES ASSUME DocInit PROVE LoneInv
    OBVIOUS
  <2> QED
    BY DEF DocInit, LoneInv
<1>2. LoneInv => LoneDocsAreComplete
  BY DEF LoneInv, LoneDocsAreComplete, Answered
<1> QED
  BY <1>1, <1>2, LoneNext, RegistryInvariant, PTL DEF DocSpec
============================================================================
