---------------------------- MODULE CallScanner ----------------------------
(* The method visitors of the bytecode scanners.  Each reads the            *)
(* instructions of a class in textual order and decides, at a call such as  *)
(* eventQueue.add(x), commandInvoker.invoke(x) or publisher.publish(x),     *)
(* which type is being passed.  No visitor simulates the operand stack: all *)
(* of them keep the type produced most recently (pendingType), and most of  *)
(* them a flag that says that a NEW is waiting for its constructor          *)
(* (newPending).                                                            *)
(*                                                                          *)
(* The model generates straight-line code instruction by instruction.       *)
(* `stack' and `slot' are the truth, what the running program would hold;   *)
(* `visitor' is what the scanner keeps.  A value is "in place" when it is   *)
(* the result of a constructor or of a builder chain, and "tame" when its   *)
(* arguments also avoid what the visitor cannot see.  The invariants        *)
(* compare what a scan found with what the code passes.                     *)
(*                                                                          *)
(* Branches (a conditional argument) are not generated, and one instruction *)
(* stands for the several that load a receiver or duplicate a reference.    *)
EXTENDS Naturals, Sequences

CONSTANTS Types,        \* the object types the code handles
          MethodNames,  \* names of the scanned methods of a class
          Scanners,     \* which of the four visitors are checked
          None,         \* no type: null, void and primitives
          MaxArguments, \* bound on the operands of a call, its receiver included
          MaxMethods,   \* bound on the methods of a class
          MaxSize       \* bound on its methods and the operand stack together

ASSUME ScannerAssumption ==
  /\ Scanners \subseteq {"event", "controller", "policy", "external"}
  /\ None \notin Types
  /\ {MaxArguments, MaxMethods, MaxSize} \subseteq Nat

VARIABLES scanner,   \* which visitor reads the class
          methods,   \* the names of its methods so far, in file order
          stack,     \* truth: the operand stack
          slot,      \* truth: the value in the local variable
          visitor,   \* the fields of the method visitor
          found,     \* per key, the types collected
          passed     \* per key, truth about the values passed to the sink
scanVars == <<scanner, methods, stack, slot, visitor, found, passed>>

----------------------------------------------------------------------------
(* The two scanners of invoke() keep one set per method name; the scanners  *)
(* of events and of publications keep one set per class.                    *)
KeyedByName == scanner \in {"policy", "controller"}
TracksNew   == scanner # "policy"
TracksSlots == scanner = "external"
ClassKey    == "class"
Keys        == MethodNames \cup {ClassKey}
Key         == IF KeyedByName THEN methods[Len(methods)] ELSE ClassKey

FreshVisitor == [pendingType |-> None, newPending |-> FALSE, local |-> None]
NothingPassed == [tame |-> {}, inPlace |-> {}, onlyTame |-> TRUE]

(* An operand.  "new" is a NEW whose constructor has not run, and tame as   *)
(* long as nothing in its arguments confuses the visitor.                   *)
Operand(kind, t, inPlace, tame) ==
  [kind |-> kind, type |-> t, inPlace |-> inPlace, tame |-> tame]
Plain(t) == Operand("value", t, FALSE, FALSE)
Receiver == Operand("receiver", None, FALSE, FALSE)
NoOperand == Plain(None)
Operands ==
  [kind : {"value", "new", "receiver"}, type : Types \cup {None},
   inPlace : BOOLEAN, tame : BOOLEAN]

----------------------------------------------------------------------------
(* Truth: what the instructions do to the operand stack.                    *)
Waiting == {i \in DOMAIN stack : stack[i].kind = "new"}
Top == stack[Len(stack)]
AllValues(from) == \A i \in from..Len(stack) : stack[i].kind = "value"

(* What the visitor mistakes for the value under construction when it comes *)
(* among the arguments: a nested NEW and a nested watched call in any case; *)
(* every call where there is no flag (policy); a load where locals are      *)
(* followed (external).                                                     *)
Confusing ==
  {"new", "sink"} \cup (IF TracksNew THEN {} ELSE {"call"})
                  \cup (IF TracksSlots THEN {"load"} ELSE {})

(* Everything still waiting for its constructor notes what happens.         *)
Noting(s, what) ==
  [i \in DOMAIN s |-> IF s[i].kind = "new" /\ what \in Confusing
                      THEN [s[i] EXCEPT !.tame = FALSE] ELSE s[i]]
Pushed(s, operand) == Append(s, operand)
Dropped(n) == SubSeq(stack, 1, Len(stack) - n)

----------------------------------------------------------------------------
(* visitTypeInsn: the pending type is the type of the NEW.                  *)
VisitNew(v, t) == [v EXCEPT !.pendingType = t, !.newPending = TracksNew]

Bug_FlagSurvivesInit(v) == v

(* <init>: the flag is cleared, the pending type stays.                     *)
VisitInit(v) == [v EXCEPT !.newPending = FALSE]

Bug_OverwriteInArguments(v, t) ==
  IF t # None THEN [v EXCEPT !.pendingType = t] ELSE v

(* Any other call: an object return type becomes the pending type, unless   *)
(* the call is taken for an argument of a constructor.                      *)
VisitCall(v, t) ==
  IF t # None /\ ~v.newPending THEN [v EXCEPT !.pendingType = t] ELSE v

(* The watched call consumes the pending type; publish() also when there is *)
(* none.                                                                    *)
VisitSink(v) ==
  IF v.pendingType # None \/ TracksSlots
  THEN [v EXCEPT !.pendingType = None, !.newPending = FALSE] ELSE v
Bug_CollectNothing(v) == {v.pendingType}
CollectedBy(v) == {v.pendingType} \ {None}

(* visitVarInsn, in the visitor of publications only.  A load also replaces *)
(* the pending type, with nothing when the slot is unknown.                 *)
VisitLoad(v) ==
  IF TracksSlots THEN [v EXCEPT !.pendingType = v.local, !.newPending = FALSE] ELSE v
VisitStore(v) ==
  IF TracksSlots /\ v.pendingType # None THEN [v EXCEPT !.local = v.pendingType] ELSE v

(* Loading `this' to read a field is a load of a slot that is never stored  *)
(* to: it leaves no pending type.                                           *)
VisitThis(v) ==
  IF TracksSlots THEN [v EXCEPT !.pendingType = None, !.newPending = FALSE] ELSE v

----------------------------------------------------------------------------
ScanInit ==
  /\ scanner \in Scanners
  /\ methods = << >>
  /\ stack = << >>
  /\ slot = NoOperand
  /\ visitor = FreshVisitor
  /\ found = [k \in Keys |-> {}]
  /\ passed = [k \in Keys |-> NothingPassed]

InMethod == methods # << >>
Room == Len(methods) + Len(stack) < MaxSize

(* visitMethod: a fresh visitor.  With one set per name, put() replaces the *)
(* set of an earlier method of that name.                                   *)
NextMethod(name) ==
  /\ Len(methods) < MaxMethods /\ stack = << >>
  /\ methods' = Append(methods, name)
  /\ visitor' = FreshVisitor
  /\ slot' = NoOperand
  /\ found' = IF KeyedByName THEN [found EXCEPT ![name] = {}] ELSE found
  /\ UNCHANGED <<scanner, stack, passed>>

New(t) ==
  /\ InMethod /\ Room
  /\ stack' = Pushed(Noting(stack, "new"), Operand("new", t, FALSE, TRUE))
  /\ visitor' = VisitNew(visitor, t)
  /\ UNCHANGED <<scanner, methods, slot, found, passed>>

(* The constructor of the innermost waiting NEW takes what is above it.     *)
Construct(b) ==
  /\ b \in Waiting /\ AllValues(b + 1)
  /\ stack' = Pushed(SubSeq(stack, 1, b - 1),
                     Operand("value", stack[b].type, TRUE, stack[b].tame))
  /\ visitor' = VisitInit(visitor)
  /\ UNCHANGED <<scanner, methods, slot, found, passed>>

(* A call that takes n operands and returns a value of type t.  Its result  *)
(* is tame unless a NEW is waiting beneath it.                              *)
Call(n, t) ==
  /\ InMethod /\ (n = 0 => Room)
  /\ n <= Len(stack) /\ AllValues(Len(stack) - n + 1)
  /\ stack' = Pushed(Noting(Dropped(n), "call"), Operand("value", t, TRUE, Waiting = {}))
  /\ visitor' = VisitCall(visitor, t)
  /\ UNCHANGED <<scanner, methods, slot, found, passed>>

(* A call that returns nothing, or the end of an expression statement.      *)
Statement ==
  /\ stack # << >> /\ AllValues(1)
  /\ stack' = << >>
  /\ visitor' = VisitCall(visitor, None)
  /\ UNCHANGED <<scanner, methods, slot, found, passed>>

(* A constant or a static field: no visitor sees the instruction.           *)
Constant(t) ==
  /\ InMethod /\ Room
  /\ stack' = Pushed(stack, Plain(t))
  /\ UNCHANGED <<scanner, methods, slot, visitor, found, passed>>

(* A field of `this': any value, or the receiver of the watched call (with  *)
(* room for its argument).                                                  *)
ReadField(operand) ==
  /\ InMethod /\ Room
  /\ operand = Receiver => Len(methods) + Len(stack) + 1 < MaxSize /\ (KeyedByName \/ stack = << >>)
  /\ stack' = Pushed(Noting(stack, "load"), operand)
  /\ visitor' = VisitThis(visitor)
  /\ UNCHANGED <<scanner, methods, slot, found, passed>>

(* The other visitors see neither of the next two instructions: a local is  *)
(* no different from a constant to them.                                    *)
Store ==
  /\ TracksSlots /\ Len(stack) = 1 /\ Top.kind = "value" /\ Top.type # None
  /\ slot' = Top
  /\ stack' = << >>
  /\ visitor' = VisitStore(visitor)
  /\ UNCHANGED <<scanner, methods, found, passed>>

Load ==
  /\ TracksSlots /\ Room /\ slot # NoOperand
  /\ stack' = Pushed(Noting(stack, "load"), slot)
  /\ visitor' = VisitLoad(visitor)
  /\ UNCHANGED <<scanner, methods, slot, found, passed>>

(* The watched call.  add() and publish() return nothing and are statements *)
(* of their own; the result of invoke() may be an argument of something     *)
(* else.                                                                    *)
Sink ==
  /\ Len(stack) >= 2 /\ Top.kind = "value" /\ Top.type # None
  /\ stack[Len(stack) - 1].kind = "receiver"
  /\ KeyedByName \/ Len(stack) = 2
  /\ stack' = IF Len(stack) = 2 THEN << >> ELSE Pushed(Noting(Dropped(2), "sink"), Plain(None))
  /\ found' = [found EXCEPT ![Key] = @ \cup CollectedBy(visitor)]
  /\ passed' = [passed EXCEPT ![Key] =
       [tame     |-> @.tame \cup (IF Top.tame THEN {Top.type} ELSE {}),
        inPlace  |-> @.inPlace \cup (IF Top.inPlace THEN {Top.type} ELSE {}),
        onlyTame |-> @.onlyTame /\ Top.tame]]
  /\ visitor' = VisitSink(visitor)
  /\ UNCHANGED <<scanner, methods, slot>>

ScanNext ==
  \/ \E name \in MethodNames : NextMethod(name)
  \/ \E t \in Types : New(t) \/ Constant(t) \/ ReadField(Plain(t))
  \/ \E n \in 0..MaxArguments, t \in Types \cup {None} : Call(n, t)
  \/ ReadField(Receiver)
  \/ \E b \in DOMAIN stack : Construct(b)
  \/ Statement \/ Store \/ Load \/ Sink

ScanSpec == ScanInit /\ [][ScanNext]_scanVars

----------------------------------------------------------------------------
(* Types of the variables.  A key never collects "no type", although a      *)
(* watched call may consume an empty pending type.                          *)
ScannerTypeOK ==
  /\ scanner \in Scanners
  /\ methods \in Seq(MethodNames) /\ Len(methods) <= MaxMethods
  /\ stack \in Seq(Operands)
  /\ slot \in Operands
  /\ visitor \in [pendingType : Types \cup {None}, newPending : BOOLEAN,
                  local : Types \cup {None}]
  /\ found \in [Keys -> SUBSET Types]
  /\ passed \in [Keys -> [tame : SUBSET Types, inPlace : SUBSET Types,
                          onlyTame : BOOLEAN]]

(* Two methods of one class with one name share a key, and the set of the   *)
(* later one replaces that of the earlier; nothing is said of such a key.   *)
OncePerClass(name) == ~\E i, j \in DOMAIN methods :
                          i # j /\ methods[i] = name /\ methods[j] = name
Unambiguous(k) == KeyedByName => OncePerClass(k)

(* Nothing tame is missed: a value that is constructed or built in the      *)
(* argument position of the watched call, with arguments that the visitor   *)
(* can see through, is collected, whatever the instructions before it left  *)
(* in the fields of the visitor.                                            *)
TameIsFound == \A k \in Keys : Unambiguous(k) => passed[k].tame \subseteq found[k]

(* Nothing is invented: where the code passes only tame values, the scan    *)
(* collects their types and no other, so an edge of the documentation that  *)
(* comes from such code is a real one.                                      *)
OnlyTameIsExact ==
  \A k \in Keys : Unambiguous(k) /\ passed[k].onlyTame => found[k] \subseteq passed[k].tame

(* What the comments of the scanners promise: a value that is constructed   *)
(* or built in the argument position is recognised.  PolicyCommandScanner   *)
(* does not keep it when the arguments of the constructor call anything     *)
(* that returns an object, ExternalEventScanner when they load anything.    *)
InPlaceIsFound == \A k \in Keys : Unambiguous(k) => passed[k].inPlace \subseteq found[k]
============================================================================
