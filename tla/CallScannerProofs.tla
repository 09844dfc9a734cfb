------------------------- MODULE CallScannerProofs --------------------------
(* For straight-line code of any size: the scanners collect every tame      *)
(* value and invent nothing.  The argument is that a visitor, although it   *)
(* keeps one type and one flag, mirrors the top of the operand stack        *)
(* whenever the top is tame (Mirror), and that a NEW is tame only while it  *)
(* is the innermost one and still the pending type.                         *)
EXTENDS CallScanner, TLAPS

(* What the fields of the visitor say about the operand stack.              *)
Unflagged == Waiting = {} => ~visitor.newPending
NewMirrored ==
  \A i \in Waiting : stack[i].tame =>
    /\ visitor.pendingType = stack[i].type
    /\ TracksNew => visitor.newPending
    /\ \A j \in Waiting : j <= i
TopMirrored ==
  stack # << >> =>
    (Top.kind = "value" /\ Top.tame /\ Top.type # None => visitor.pendingType = Top.type)
SlotMirrored ==
  TracksSlots /\ slot.tame /\ slot.type # None => visitor.local = slot.type
Mirror == Unflagged /\ NewMirrored /\ TopMirrored /\ SlotMirrored

(* A name that no method has yet has nothing under it.                      *)
Unused(k) == \A i \in DOMAIN methods : methods[i] # k
UnusedIsEmpty ==
  \A k \in Keys : KeyedByName /\ Unused(k) => passed[k] = NothingPassed /\ found[k] = {}

ScanInv ==
  /\ ScannerTypeOK
  /\ stack # << >> \/ slot # NoOperand => methods # << >>
  /\ slot.kind = "value"
  /\ Mirror
  /\ UnusedIsEmpty
  /\ TameIsFound
  /\ OnlyTameIsExact

Visitors == [pendingType : Types \cup {None}, newPending : BOOLEAN, local : Types \cup {None}]
Keep(m) == SubSeq(stack, 1, m)

----------------------------------------------------------------------------
(* The stack after m operands were kept, noting w, and one was pushed.      *)
LEMMA PushedShape ==
  ASSUME NEW m \in 0..Len(stack), NEW w, NEW o \in Operands, stack \in Seq(Operands)
  PROVE  LET s == Pushed(Noting(Keep(m), w), o)
         IN  /\ s \in Seq(Operands) /\ Len(s) = m + 1 /\ s[m + 1] = o
             /\ \A i \in 1..m :
                  /\ s[i].kind = stack[i].kind /\ s[i].type = stack[i].type
                  /\ s[i].tame => stack[i].tame
                  /\ s[i].tame /\ s[i].kind = "new" => w \notin Confusing
<1>1. /\ Keep(m) \in Seq(Operands) /\ Len(Keep(m)) = m
      /\ \A i \in 1..m : Keep(m)[i] = stack[i] /\ stack[i] \in Operands
  BY DEF Keep
<1>2. /\ Noting(Keep(m), w) \in Seq(Operands) /\ Len(Noting(Keep(m), w)) = m
      /\ \A i \in 1..m :
           /\ Noting(Keep(m), w)[i].kind = stack[i].kind
           /\ Noting(Keep(m), w)[i].type = stack[i].type
           /\ Noting(Keep(m), w)[i].tame => stack[i].tame
           /\ Noting(Keep(m), w)[i].tame /\ stack[i].kind = "new" => w \notin Confusing
  <2>1. DOMAIN Keep(m) = 1..m
    BY <1>1
  <2>2. \A i \in 1..m : [stack[i] EXCEPT !.tame = FALSE] \in Operands
    BY <1>1 DEF Operands
  <2>3. \A i \in 1..m : Noting(Keep(m), w)[i] =
          IF stack[i].kind = "new" /\ w \in Confusing
          THEN [stack[i] EXCEPT !.tame = FALSE] ELSE stack[i]
    BY <1>1, <2>1 DEF Noting
  <2>4. Noting(Keep(m), w) \in [1..m -> Operands]
    BY <1>1, <2>1, <2>2 DEF Noting
  <2>5. Noting(Keep(m), w) \in Seq(Operands) /\ Len(Noting(Keep(m), w)) = m
    <3>1. m \in Nat
      OBVIOUS
    <3>2. \A f \in [1..m -> Operands] : f \in Seq(Operands) /\ Len(f) = m
      BY <3>1
    <3> QED
      BY <2>4, <3>2
  <2>6. ASSUME NEW e \in Operands
        PROVE  /\ [e EXCEPT !.tame = FALSE].tame = FALSE
               /\ [e EXCEPT !.tame = FALSE].kind = e.kind
               /\ [e EXCEPT !.tame = FALSE].type = e.type
    BY <2>6 DEF Operands
  <2>7. ASSUME NEW i \in 1..m
        PROVE  /\ Noting(Keep(m), w)[i].kind = stack[i].kind
               /\ Noting(Keep(m), w)[i].type = stack[i].type
               /\ Noting(Keep(m), w)[i].tame => stack[i].tame
               /\ Noting(Keep(m), w)[i].tame /\ stack[i].kind = "new" => w \notin Confusing
    BY <1>1, <2>3, <2>6, <2>7
  <2> QED
    BY <2>5, <2>7
<1> QED
  BY <1>2 DEF Pushed

(* The same when nothing is noted.                                          *)
LEMMA PlainlyPushedShape ==
  ASSUME NEW m \in 0..Len(stack), NEW o \in Operands, stack \in Seq(Operands)
  PROVE  LET s == Pushed(Keep(m), o)
         IN  /\ s \in Seq(Operands) /\ Len(s) = m + 1 /\ s[m + 1] = o
             /\ \A i \in 1..m : s[i] = stack[i]
  BY DEF Pushed, Keep

LEMMA KeepAll == ASSUME stack \in Seq(Operands) PROVE Keep(Len(stack)) = stack
  BY DEF Keep

LEMMA ConfusingWords ==
  /\ "new" \in Confusing /\ "sink" \in Confusing
  /\ ~TracksNew => "call" \in Confusing
  /\ TracksSlots => "load" \in Confusing
  BY DEF Confusing

LEMMA VisitorTypes ==
  ASSUME NEW v \in Visitors, NEW t \in Types \cup {None}
  PROVE  /\ VisitNew(v, t) \in Visitors /\ VisitInit(v) \in Visitors
         /\ VisitCall(v, t) \in Visitors /\ VisitSink(v) \in Visitors
         /\ VisitLoad(v) \in Visitors /\ VisitStore(v) \in Visitors
         /\ VisitThis(v) \in Visitors
  BY DEF Visitors, VisitNew, VisitInit, VisitCall, VisitSink, VisitLoad, VisitStore, VisitThis,
         TracksNew

(* Which NEW waits after a push.                                            *)
LEMMA WaitingAfterPush ==
  ASSUME stack \in Seq(Operands), stack' \in Seq(Operands), NEW m \in 0..Len(stack),
         Len(stack') = m + 1, \A i \in 1..m : stack'[i].kind = stack[i].kind
  PROVE  /\ Waiting \subseteq 1..Len(stack) /\ Waiting' \subseteq 1..(m + 1)
         /\ \A i \in 1..m : i \in Waiting' <=> i \in Waiting
         /\ m + 1 \in Waiting' <=> stack'[m + 1].kind = "new"
         /\ Top' = stack'[m + 1] /\ stack' # << >>
  BY DEF Waiting, Top

(* An instruction that neither starts a method nor is a watched call.       *)
LEMMA QuietInv ==
  ASSUME ScanInv, UNCHANGED <<scanner, methods, found, passed>>,
         stack' \in Seq(Operands), slot' \in Operands, visitor' \in Visitors,
         stack' # << >> \/ slot' # NoOperand => methods # << >>,
         slot'.kind = "value", Mirror'
  PROVE  ScanInv'
<1>1. UnusedIsEmpty' /\ TameIsFound' /\ OnlyTameIsExact'
  BY DEF ScanInv, UnusedIsEmpty, Unused, KeyedByName, TameIsFound, OnlyTameIsExact,
         Unambiguous, OncePerClass
<1>2. ScannerTypeOK'
  BY DEF ScanInv, ScannerTypeOK, Visitors
<1> QED
  BY <1>1, <1>2 DEF ScanInv

LEMMA ScanInitInv == ScanInit => ScanInv
<1> SUFFICES ASSUME ScanInit PROVE ScanInv
  OBVIOUS
<1>1. /\ NoOperand \in Operands /\ NoOperand.kind = "value"
      /\ NoOperand.type = None /\ NoOperand.tame = FALSE
  BY DEF NoOperand, Plain, Operand, Operands
<1>2. ScannerTypeOK
  BY <1>1, ScannerAssumption
  DEF ScanInit, ScannerTypeOK, FreshVisitor, NothingPassed, Keys, ClassKey
<1>3. Mirror
  BY <1>1 DEF ScanInit, Mirror, Unflagged, NewMirrored, TopMirrored, SlotMirrored, Waiting,
              FreshVisitor
<1>4. UnusedIsEmpty /\ TameIsFound /\ OnlyTameIsExact
  BY DEF ScanInit, UnusedIsEmpty, TameIsFound, OnlyTameIsExact, NothingPassed
<1> QED
  BY <1>1, <1>2, <1>3, <1>4 DEF ScanInit, ScanInv

----------------------------------------------------------------------------
LEMMA NewInv ==
  ASSUME ScanInv, NEW t \in Types, New(t)
  PROVE  ScanInv'
<1>1. stack \in Seq(Operands) /\ visitor \in Visitors /\ slot \in Operands
  BY DEF ScanInv, ScannerTypeOK, Visitors
<1> DEFINE o == Operand("new", t, FALSE, TRUE)
           n == Len(stack)
<1>2. /\ o \in Operands /\ o.kind = "new" /\ o.type = t /\ o.tame
      /\ n \in 0..Len(stack)
  BY <1>1 DEF Operand, Operands
<1>3. stack' = Pushed(Noting(Keep(n), "new"), o)
  BY <1>1, KeepAll DEF New
<1> HIDE DEF o
<1>4. /\ stack' \in Seq(Operands) /\ Len(stack') = n + 1 /\ stack'[n + 1] = o
      /\ \A i \in 1..n : /\ stack'[i].kind = stack[i].kind
                         /\ ~(stack'[i].tame /\ stack'[i].kind = "new")
  BY <1>1, <1>2, <1>3, PushedShape, ConfusingWords
<1>5. /\ Waiting' \subseteq 1..(n + 1) /\ n + 1 \in Waiting'
      /\ \A i \in 1..n : i \in Waiting' <=> i \in Waiting
      /\ Top' = o /\ stack' # << >>
  BY <1>1, <1>2, <1>4, WaitingAfterPush
<1>6. /\ visitor' = VisitNew(visitor, t) /\ visitor'.pendingType = t
      /\ visitor'.newPending = TracksNew /\ visitor'.local = visitor.local
      /\ visitor' \in Visitors
  BY <1>1, VisitorTypes DEF New, VisitNew, Visitors
<1>7. UNCHANGED <<scanner, methods, found, passed, slot>> /\ methods # << >>
  BY DEF New, InMethod
<1>8. Mirror'
  <2>1. Unflagged' /\ TopMirrored'
    BY <1>2, <1>5 DEF Unflagged, TopMirrored
  <2>2. NewMirrored'
    <3>1. ASSUME NEW i \in Waiting', stack'[i].tame PROVE i = n + 1
      BY <1>1, <1>4, <1>5, <3>1 DEF Waiting
    <3>2. \A j \in Waiting' : j <= n + 1
      BY <1>1, <1>5
    <3> QED
      BY <1>2, <1>4, <1>6, <1>7, <3>1, <3>2 DEF NewMirrored, TracksNew
  <2>3. SlotMirrored'
    BY <1>6, <1>7 DEF SlotMirrored, TracksSlots, ScanInv, Mirror
  <2> QED
    BY <2>1, <2>2, <2>3 DEF Mirror
<1>9. slot'.kind = "value" /\ NoOperand' = NoOperand
  BY <1>7 DEF ScanInv
<1> QED
  BY <1>1, <1>4, <1>6, <1>7, <1>8, <1>9, QuietInv

(* Pushing a value or a receiver: what must be shown of the visitor.        *)
LEMMA PushInv ==
  ASSUME ScanInv, UNCHANGED <<scanner, methods, found, passed, slot>>, methods # << >>,
         NEW m \in 0..Len(stack), NEW w, NEW o \in Operands, o.kind # "new",
         \A i \in Waiting : i <= m,
         stack' = Pushed(Noting(Keep(m), w), o),
         visitor' \in Visitors, visitor'.local = visitor.local,
         Waiting = {} => ~visitor'.newPending,
         w \notin Confusing =>
           (visitor.newPending \/ ~TracksNew =>
              visitor'.pendingType = visitor.pendingType /\ visitor'.newPending = visitor.newPending),
         o.kind = "value" /\ o.tame /\ o.type # None => visitor'.pendingType = o.type
  PROVE  ScanInv'
<1>1. stack \in Seq(Operands) /\ slot \in Operands /\ slot.kind = "value"
  BY DEF ScanInv, ScannerTypeOK
<1>2. /\ stack' \in Seq(Operands) /\ Len(stack') = m + 1 /\ stack'[m + 1] = o
      /\ \A i \in 1..m : /\ stack'[i].kind = stack[i].kind
                         /\ stack'[i].type = stack[i].type
                         /\ stack'[i].tame => stack[i].tame
                         /\ stack'[i].tame /\ stack'[i].kind = "new" => w \notin Confusing
  BY <1>1, PushedShape
<1>3. /\ Waiting' = Waiting
      /\ Top' = o /\ stack' # << >>
  <2>1. /\ Waiting \subseteq 1..Len(stack) /\ Waiting' \subseteq 1..(m + 1)
        /\ \A i \in 1..m : i \in Waiting' <=> i \in Waiting
        /\ m + 1 \notin Waiting'
        /\ Top' = o /\ stack' # << >>
    BY <1>1, <1>2, WaitingAfterPush
  <2>2. m \in Nat /\ Len(stack) \in Nat
    BY <1>1
  <2>3. ASSUME NEW i \in Waiting PROVE i \in Waiting'
    <3>1. i \in 1..m
      BY <2>1, <2>2
    <3> QED
      BY <2>1, <3>1
  <2>4. ASSUME NEW i \in Waiting' PROVE i \in Waiting
    <3>1. i \in 1..m
      BY <2>1, <2>2
    <3> QED
      BY <2>1, <3>1
  <2> QED
    BY <2>1, <2>3, <2>4
<1>4. Unflagged' /\ TopMirrored' /\ SlotMirrored'
  BY <1>3 DEF Unflagged, TopMirrored, SlotMirrored, TracksSlots, ScanInv, Mirror
<1>5. NewMirrored'
  <2>1. ASSUME NEW i \in Waiting', stack'[i].tame
        PROVE  /\ visitor'.pendingType = stack'[i].type
               /\ TracksNew' => visitor'.newPending
               /\ \A j \in Waiting' : j <= i
    <3>1. i \in Waiting /\ i \in 1..m
      BY <1>1, <1>3, <2>1 DEF Waiting
    <3>2. /\ stack[i].tame /\ w \notin Confusing
          /\ stack'[i].type = stack[i].type
      BY <1>2, <2>1, <3>1 DEF Waiting
    <3>3. /\ visitor.pendingType = stack[i].type
          /\ TracksNew => visitor.newPending
          /\ \A j \in Waiting : j <= i
      BY <3>1, <3>2 DEF ScanInv, Mirror, NewMirrored
    <3> QED
      BY <1>3, <3>2, <3>3 DEF TracksNew
  <2> QED
    BY <2>1 DEF NewMirrored
<1> QED
  BY <1>1, <1>2, <1>4, <1>5, QuietInv DEF Mirror

LEMMA ConstructInv ==
  ASSUME ScanInv, NEW b \in DOMAIN stack, Construct(b)
  PROVE  ScanInv'
<1>1. stack \in Seq(Operands) /\ visitor \in Visitors /\ slot \in Operands
  BY DEF ScanInv, ScannerTypeOK, Visitors
<1> DEFINE o == Operand("value", stack[b].type, TRUE, stack[b].tame)
<1>2. /\ b \in 1..Len(stack) /\ stack[b] \in Operands /\ b \in Waiting
      /\ b - 1 \in 0..Len(stack) /\ (b - 1) + 1 = b
  BY <1>1 DEF Construct
<1>3. /\ o \in Operands /\ o.kind = "value" /\ o.type = stack[b].type
      /\ o.tame = stack[b].tame
  BY <1>2 DEF Operand, Operands
<1>4. stack' = Pushed(Keep(b - 1), o)
  BY DEF Construct, Keep
<1> HIDE DEF o
<1>5. /\ stack' \in Seq(Operands) /\ Len(stack') = b /\ stack'[b] = o
      /\ \A i \in 1..(b - 1) : stack'[i] = stack[i]
  BY <1>1, <1>2, <1>3, <1>4, PlainlyPushedShape
<1>6. /\ \A i \in Waiting' : i \in Waiting /\ i < b
      /\ Top' = o /\ stack' # << >>
  BY <1>1, <1>3, <1>5 DEF Waiting, Top
<1>7. /\ visitor' \in Visitors /\ ~visitor'.newPending
      /\ visitor'.pendingType = visitor.pendingType /\ visitor'.local = visitor.local
  BY <1>1, VisitorTypes DEF Construct, VisitInit, Visitors
<1>8. UNCHANGED <<scanner, methods, found, passed, slot>> /\ methods # << >>
  BY <1>1, <1>2 DEF Construct, ScanInv
<1>9. stack[b].tame => visitor.pendingType = stack[b].type
  BY <1>2 DEF ScanInv, Mirror, NewMirrored
<1>10. NewMirrored'
  <2>1. ASSUME NEW i \in Waiting' PROVE ~stack'[i].tame
    BY <1>1, <1>2, <1>5, <1>6 DEF ScanInv, Mirror, NewMirrored, Waiting
  <2> QED
    BY <2>1 DEF NewMirrored
<1>11. slot'.kind = "value"
  BY <1>8 DEF ScanInv
<1>12. Mirror'
  BY <1>3, <1>6, <1>7, <1>8, <1>9, <1>10
  DEF Mirror, Unflagged, TopMirrored, SlotMirrored, TracksSlots, ScanInv
<1> QED
  BY <1>1, <1>5, <1>7, <1>8, <1>11, <1>12, QuietInv

LEMMA CallInv ==
  ASSUME ScanInv, NEW n \in Nat, NEW t \in Types \cup {None}, Call(n, t)
  PROVE  ScanInv'
<1>1. stack \in Seq(Operands) /\ visitor \in Visitors
  BY DEF ScanInv, ScannerTypeOK, Visitors
<1> DEFINE m == Len(stack) - n
           o == Operand("value", t, TRUE, Waiting = {})
<1>2. /\ m \in 0..Len(stack)
      /\ \A i \in Waiting : i <= m
  BY <1>1 DEF Call, AllValues, Waiting
<1>3. /\ o \in Operands /\ o.kind = "value" /\ o.type = t
      /\ o.tame => Waiting = {}
  BY DEF Operand, Operands
<1>4. stack' = Pushed(Noting(Keep(m), "call"), o)
  BY DEF Call, Keep, Dropped
<1> HIDE DEF m, o
<1>5. /\ UNCHANGED <<scanner, methods, found, passed, slot>> /\ methods # << >>
      /\ visitor' = VisitCall(visitor, t) /\ visitor' \in Visitors
  BY <1>1, VisitorTypes DEF Call, InMethod
<1>6. /\ visitor'.local = visitor.local /\ visitor'.newPending = visitor.newPending
      /\ visitor.newPending => visitor' = visitor
      /\ t # None /\ ~visitor.newPending => visitor'.pendingType = t
  BY <1>1, <1>5 DEF VisitCall, Visitors
<1>7. "call" \notin Confusing => TracksNew
  BY ConfusingWords
<1>8. Waiting = {} => ~visitor.newPending
  BY DEF ScanInv, Mirror, Unflagged
<1>9. "call" \notin Confusing =>
        (visitor.newPending \/ ~TracksNew =>
           visitor'.pendingType = visitor.pendingType /\ visitor'.newPending = visitor.newPending)
  BY <1>6, <1>7
<1>10. o.kind = "value" /\ o.tame /\ o.type # None => visitor'.pendingType = o.type
  BY <1>3, <1>6, <1>8
<1>11. Waiting = {} => ~visitor'.newPending
  BY <1>6, <1>8
<1>12. o.kind # "new"
  BY <1>3
<1> QED
  BY <1>2, <1>3, <1>4, <1>5, <1>6, <1>9, <1>10, <1>11, <1>12, PushInv

LEMMA StatementInv == ScanInv /\ Statement => ScanInv'
<1> SUFFICES ASSUME ScanInv, Statement PROVE ScanInv'
  OBVIOUS
<1>1. /\ stack \in Seq(Operands) /\ visitor \in Visitors /\ slot \in Operands
      /\ Waiting = {}
  BY DEF ScanInv, ScannerTypeOK, Visitors, Statement, AllValues, Waiting
<1>2. /\ visitor' = visitor /\ stack' = << >> /\ Waiting' = {}
      /\ UNCHANGED <<scanner, methods, found, passed, slot>>
  BY DEF Statement, VisitCall, Waiting
<1>3. Mirror'
  BY <1>1, <1>2
  DEF Mirror, Unflagged, NewMirrored, TopMirrored, SlotMirrored, TracksSlots, ScanInv
<1>4. /\ slot'.kind = "value"
      /\ stack' # << >> \/ slot' # NoOperand => methods # << >>
  BY <1>2 DEF ScanInv
<1> QED
  BY <1>1, <1>2, <1>3, <1>4, QuietInv

LEMMA ConstantInv ==
  ASSUME ScanInv, NEW t \in Types, Constant(t)
  PROVE  ScanInv'
<1>1. stack \in Seq(Operands) /\ visitor \in Visitors
  BY DEF ScanInv, ScannerTypeOK, Visitors
<1> DEFINE o == Plain(t)
           m == Len(stack)
<1>2. /\ o \in Operands /\ o.kind = "value" /\ ~o.tame /\ m \in 0..Len(stack)
  BY <1>1 DEF Plain, Operand, Operands
<1>3. "constant" \notin Confusing
  BY DEF Confusing
<1>4. Noting(Keep(m), "constant") = stack
  BY <1>1, <1>3, KeepAll DEF Noting
<1>5. stack' = Pushed(Noting(Keep(m), "constant"), o)
  BY <1>4 DEF Constant
<1>6. \A i \in Waiting : i <= m
  BY <1>1 DEF Waiting
<1>7. /\ UNCHANGED <<scanner, methods, found, passed, slot>> /\ methods # << >>
      /\ visitor' = visitor /\ visitor' \in Visitors
  BY <1>1 DEF Constant, InMethod
<1> HIDE DEF m, o
<1>8. Waiting = {} => ~visitor'.newPending
  BY <1>7 DEF ScanInv, Mirror, Unflagged
<1>9. o.kind # "new"
  BY <1>2
<1> QED
  BY <1>2, <1>5, <1>6, <1>7, <1>8, <1>9, PushInv

(* A load, of a field or of the local variable.                             *)
LEMMA LoadingInv ==
  ASSUME ScanInv, UNCHANGED <<scanner, methods, found, passed, slot>>, methods # << >>,
         NEW o \in Operands, o.kind # "new",
         stack' = Pushed(Noting(stack, "load"), o),
         \/ visitor' = VisitThis(visitor)
         \/ TracksSlots /\ visitor' = VisitLoad(visitor),
         o.kind = "value" /\ o.tame /\ o.type # None => visitor'.pendingType = o.type
  PROVE  ScanInv'
<1>1. stack \in Seq(Operands) /\ visitor \in Visitors
  BY DEF ScanInv, ScannerTypeOK, Visitors
<1> DEFINE m == Len(stack)
<1>2. m \in 0..Len(stack) /\ \A i \in Waiting : i <= m
  BY <1>1 DEF Waiting
<1>3. stack' = Pushed(Noting(Keep(m), "load"), o)
  BY <1>1, KeepAll
<1> HIDE DEF m
<1>4. visitor' \in Visitors
  <2>1. None \in Types \cup {None}
    OBVIOUS
  <2> QED
    BY <1>1, <2>1, VisitorTypes
<1>5. /\ visitor'.local = visitor.local
      /\ ~TracksSlots => visitor' = visitor
      /\ TracksSlots => ~visitor'.newPending
  BY <1>1 DEF VisitThis, VisitLoad, Visitors
<1>6. "load" \notin Confusing => ~TracksSlots
  BY ConfusingWords
<1>7. Waiting = {} => ~visitor'.newPending
  BY <1>5 DEF ScanInv, Mirror, Unflagged
<1>8. "load" \notin Confusing =>
        (visitor.newPending \/ ~TracksNew =>
           visitor'.pendingType = visitor.pendingType /\ visitor'.newPending = visitor.newPending)
  BY <1>5, <1>6
<1> QED
  BY <1>2, <1>3, <1>4, <1>5, <1>7, <1>8, PushInv

LEMMA ReadFieldInv ==
  ASSUME ScanInv, NEW o, o = Receiver \/ \E t \in Types : o = Plain(t), ReadField(o)
  PROVE  ScanInv'
<1>1. o \in Operands /\ o.kind # "new" /\ ~o.tame
  <2>1. CASE o = Receiver
    BY <2>1 DEF Receiver, Operand, Operands
  <2>2. ASSUME NEW t \in Types, o = Plain(t)
        PROVE  o \in Operands /\ o.kind # "new" /\ ~o.tame
    BY <2>2 DEF Plain, Operand, Operands
  <2> QED
    BY <2>1, <2>2
<1>2. /\ UNCHANGED <<scanner, methods, found, passed, slot>> /\ methods # << >>
      /\ stack' = Pushed(Noting(stack, "load"), o) /\ visitor' = VisitThis(visitor)
  BY DEF ReadField, InMethod
<1>3. /\ \/ visitor' = VisitThis(visitor)
         \/ TracksSlots /\ visitor' = VisitLoad(visitor)
      /\ o.kind = "value" /\ o.tame /\ o.type # None => visitor'.pendingType = o.type
  BY <1>1, <1>2
<1> QED
  BY <1>1, <1>2, <1>3, LoadingInv

LEMMA LoadInv == ScanInv /\ Load => ScanInv'
<1> SUFFICES ASSUME ScanInv, Load PROVE ScanInv'
  OBVIOUS
<1>1. slot \in Operands /\ visitor \in Visitors
  BY DEF ScanInv, ScannerTypeOK, Visitors
<1>2. /\ UNCHANGED <<scanner, methods, found, passed, slot>> /\ TracksSlots
      /\ stack' = Pushed(Noting(stack, "load"), slot) /\ visitor' = VisitLoad(visitor)
  BY DEF Load
<1>3. methods # << >> /\ slot.kind # "new"
  BY DEF Load, ScanInv
<1>4. slot.tame /\ slot.type # None => visitor'.pendingType = slot.type
  BY <1>1, <1>2 DEF VisitLoad, Visitors, ScanInv, Mirror, SlotMirrored
<1>5. \/ visitor' = VisitThis(visitor)
      \/ TracksSlots /\ visitor' = VisitLoad(visitor)
  BY <1>2
<1> QED
  BY <1>1, <1>2, <1>3, <1>4, <1>5, LoadingInv

LEMMA StoreInv == ScanInv /\ Store => ScanInv'
<1> SUFFICES ASSUME ScanInv, Store PROVE ScanInv'
  OBVIOUS
<1>1. /\ stack \in Seq(Operands) /\ visitor \in Visitors
      /\ stack # << >> /\ Top \in Operands /\ Top.kind = "value" /\ Top.type # None
  <2>1. stack \in Seq(Operands) /\ visitor \in Visitors
    BY DEF ScanInv, ScannerTypeOK, Visitors
  <2>2. Len(stack) = 1 /\ Top = stack[1] /\ Top.kind = "value" /\ Top.type # None
    BY DEF Store, Top
  <2> QED
    BY <2>1, <2>2
<1>2. Waiting = {} /\ ~visitor.newPending
  <2>1. Len(stack) = 1 /\ stack[1].kind = "value"
    BY DEF Store, Top
  <2>2. Waiting = {}
    BY <1>1, <2>1 DEF Waiting
  <2> QED
    BY <2>2 DEF ScanInv, Mirror, Unflagged
<1>3. /\ UNCHANGED <<scanner, methods, found, passed>> /\ methods # << >>
      /\ stack' = << >> /\ slot' = Top /\ visitor' = VisitStore(visitor) /\ TracksSlots
  BY <1>1 DEF Store, ScanInv
<1>4. /\ visitor' \in Visitors /\ ~visitor'.newPending
      /\ visitor.pendingType # None => visitor'.local = visitor.pendingType
  <2>1. None \in Types \cup {None}
    OBVIOUS
  <2>2. visitor' \in Visitors
    BY <1>1, <1>3, <2>1, VisitorTypes
  <2> QED
    BY <1>1, <1>2, <1>3, <2>2 DEF VisitStore, Visitors
<1>5. Top.tame => visitor.pendingType = Top.type
  BY <1>1 DEF ScanInv, Mirror, TopMirrored
<1>6. Waiting' = {}
  BY <1>3 DEF Waiting
<1>7. Mirror'
  BY <1>1, <1>3, <1>4, <1>5, <1>6
  DEF Mirror, Unflagged, NewMirrored, TopMirrored, SlotMirrored
<1>8. /\ slot'.kind = "value" /\ slot' \in Operands /\ stack' \in Seq(Operands)
      /\ stack' # << >> \/ slot' # NoOperand => methods # << >>
  BY <1>1, <1>3
<1> QED
  BY <1>3, <1>4, <1>7, <1>8, QuietInv

(* What a watched call does to the keys.                                    *)
LEMMA SinkKeys ==
  ASSUME ScanInv, Sink
  PROVE  /\ found' \in [Keys -> SUBSET Types]
         /\ passed' \in [Keys -> [tame : SUBSET Types, inPlace : SUBSET Types, onlyTame : BOOLEAN]]
         /\ UnusedIsEmpty' /\ TameIsFound' /\ OnlyTameIsExact'
<1>1. /\ stack \in Seq(Operands) /\ visitor \in Visitors /\ stack # << >> /\ methods # << >>
      /\ methods \in Seq(MethodNames)
      /\ Top \in Operands /\ Top.kind = "value" /\ Top.type \in Types
      /\ found \in [Keys -> SUBSET Types]
      /\ passed \in [Keys -> [tame : SUBSET Types, inPlace : SUBSET Types, onlyTame : BOOLEAN]]
  <2>1. /\ stack \in Seq(Operands) /\ visitor \in Visitors /\ methods \in Seq(MethodNames)
        /\ found \in [Keys -> SUBSET Types]
        /\ passed \in [Keys -> [tame : SUBSET Types, inPlace : SUBSET Types, onlyTame : BOOLEAN]]
    BY DEF ScanInv, ScannerTypeOK, Visitors
  <2>2. Len(stack) >= 2 /\ Top.kind = "value" /\ Top.type # None
    BY DEF Sink
  <2>3. stack # << >> /\ Top \in Operands
    BY <2>1, <2>2 DEF Top
  <2>4. methods # << >> /\ Top.type \in Types
    BY <2>2, <2>3 DEF ScanInv, Operands
  <2> QED
    BY <2>1, <2>2, <2>3, <2>4
<1>2. Key \in Keys /\ (KeyedByName => ~Unused(Key))
  BY <1>1 DEF Key, Keys, Unused
<1>3. CollectedBy(visitor) \subseteq Types /\ (Top.tame => CollectedBy(visitor) = {Top.type})
  <2>1. Top.tame => visitor.pendingType = Top.type
    BY <1>1, ScannerAssumption DEF ScanInv, Mirror, TopMirrored
  <2> QED
    BY <1>1, <2>1, ScannerAssumption DEF CollectedBy, Visitors
<1>4. /\ found' = [found EXCEPT ![Key] = @ \cup CollectedBy(visitor)]
      /\ passed' = [passed EXCEPT ![Key] =
           [tame     |-> @.tame \cup (IF Top.tame THEN {Top.type} ELSE {}),
            inPlace  |-> @.inPlace \cup (IF Top.inPlace THEN {Top.type} ELSE {}),
            onlyTame |-> @.onlyTame /\ Top.tame]]
      /\ UNCHANGED <<scanner, methods>>
  BY DEF Sink
<1>5. /\ found' \in [Keys -> SUBSET Types]
      /\ found'[Key] = found[Key] \cup CollectedBy(visitor)
      /\ \A k \in Keys : k # Key => found'[k] = found[k]
  BY <1>1, <1>2, <1>3, <1>4
<1>6. Top.tame \in BOOLEAN /\ Top.inPlace \in BOOLEAN
  BY <1>1 DEF Operands
<1>7. /\ passed' \in [Keys -> [tame : SUBSET Types, inPlace : SUBSET Types, onlyTame : BOOLEAN]]
      /\ passed'[Key].tame = passed[Key].tame \cup (IF Top.tame THEN {Top.type} ELSE {})
      /\ passed'[Key].onlyTame = (passed[Key].onlyTame /\ Top.tame)
      /\ \A k \in Keys : k # Key => passed'[k] = passed[k]
  BY <1>1, <1>2, <1>4, <1>6
<1>8. /\ \A k \in Keys : Unambiguous(k)' <=> Unambiguous(k)
      /\ \A k \in Keys : Unused(k)' <=> Unused(k)
      /\ KeyedByName' = KeyedByName
  BY <1>4 DEF Unambiguous, OncePerClass, Unused, KeyedByName
<1>9. UnusedIsEmpty'
  BY <1>2, <1>5, <1>7, <1>8 DEF UnusedIsEmpty, ScanInv
<1>10. TameIsFound'
  BY <1>3, <1>5, <1>7, <1>8 DEF TameIsFound, ScanInv
<1>11. OnlyTameIsExact'
  BY <1>3, <1>5, <1>7, <1>8 DEF OnlyTameIsExact, ScanInv
<1> QED
  BY <1>5, <1>7, <1>9, <1>10, <1>11

LEMMA SinkInv == ScanInv /\ Sink => ScanInv'
<1> SUFFICES ASSUME ScanInv, Sink PROVE ScanInv'
  OBVIOUS
<1>1. /\ stack \in Seq(Operands) /\ visitor \in Visitors /\ Len(stack) >= 2
      /\ methods # << >>
  BY DEF ScanInv, ScannerTypeOK, Visitors, Sink
<1>2. /\ UNCHANGED <<scanner, methods, slot>>
      /\ visitor' = VisitSink(visitor) /\ visitor' \in Visitors
      /\ visitor'.local = visitor.local
      /\ ~visitor.newPending => ~visitor'.newPending
  <2>1. None \in Types \cup {None}
    OBVIOUS
  <2>2. UNCHANGED <<scanner, methods, slot>> /\ visitor' = VisitSink(visitor)
    BY DEF Sink
  <2>3. visitor' \in Visitors
    BY <1>1, <2>1, <2>2, VisitorTypes
  <2> QED
    BY <1>1, <2>2, <2>3 DEF VisitSink, Visitors
<1>3. /\ stack' \in Seq(Operands)
      /\ \A i \in Waiting' : ~stack'[i].tame
      /\ Waiting' = {} => Waiting = {}
      /\ stack' # << >> => ~Top'.tame
  <2>1. CASE Len(stack) = 2
    <3>1. stack' = << >>
      BY <2>1 DEF Sink
    <3>2. Waiting = {}
      BY <1>1, <2>1 DEF Sink, Waiting, Top
    <3> QED
      BY <3>1, <3>2 DEF Waiting
  <2>2. CASE Len(stack) # 2
    <3> DEFINE m == Len(stack) - 2
               o == Plain(None)
    <3>1. m \in 0..Len(stack) /\ stack' = Pushed(Noting(Keep(m), "sink"), o)
      BY <1>1, <2>2 DEF Sink, Dropped, Keep
    <3>2. o \in Operands /\ o.kind = "value" /\ ~o.tame
      BY DEF Plain, Operand, Operands
    <3> HIDE DEF o
    <3>3. \A i \in Waiting : i \in 1..m
      BY <1>1 DEF Waiting, Sink, Top
    <3> HIDE DEF m
    <3>4. /\ stack' \in Seq(Operands) /\ Len(stack') = m + 1 /\ stack'[m + 1] = o
          /\ \A i \in 1..m : /\ stack'[i].kind = stack[i].kind
                             /\ ~(stack'[i].tame /\ stack'[i].kind = "new")
      <4>1. /\ stack' \in Seq(Operands) /\ Len(stack') = m + 1 /\ stack'[m + 1] = o
            /\ \A i \in 1..m :
                 /\ stack'[i].kind = stack[i].kind
                 /\ stack'[i].tame /\ stack'[i].kind = "new" => "sink" \notin Confusing
        BY <1>1, <3>1, <3>2, PushedShape
      <4> QED
        BY <4>1, ConfusingWords
    <3>5. /\ Waiting' \subseteq 1..(m + 1)
          /\ \A i \in 1..m : i \in Waiting' <=> i \in Waiting
          /\ Top' = o /\ m + 1 \notin Waiting'
      BY <1>1, <3>1, <3>2, <3>4, WaitingAfterPush
    <3>6. ASSUME NEW i \in Waiting' PROVE ~stack'[i].tame
      <4>1. i \in 1..m
        BY <1>1, <3>1, <3>5
      <4> QED
        BY <3>4, <4>1, <3>6 DEF Waiting
    <3> QED
      BY <3>2, <3>3, <3>4, <3>5, <3>6
  <2> QED
    BY <2>1, <2>2
<1>4. Mirror'
  BY <1>2, <1>3
  DEF Mirror, Unflagged, NewMirrored, TopMirrored, SlotMirrored, TracksSlots, ScanInv
<1>5. ScannerTypeOK'
  BY <1>2, <1>3, SinkKeys DEF ScanInv, ScannerTypeOK, Visitors
<1> QED
  BY <1>1, <1>2, <1>4, <1>5, SinkKeys DEF ScanInv

LEMMA NextMethodInv ==
  ASSUME ScanInv, NEW name \in MethodNames, NextMethod(name)
  PROVE  ScanInv'
<1>1. /\ methods \in Seq(MethodNames) /\ Len(methods) < MaxMethods
      /\ found \in [Keys -> SUBSET Types]
      /\ UNCHANGED <<scanner, stack, passed>> /\ stack = << >>
      /\ methods' = Append(methods, name) /\ visitor' = FreshVisitor /\ slot' = NoOperand
      /\ found' = IF KeyedByName THEN [found EXCEPT ![name] = {}] ELSE found
  BY DEF NextMethod, ScanInv, ScannerTypeOK
<1>2. /\ NoOperand \in Operands /\ NoOperand.kind = "value"
      /\ NoOperand.type = None /\ NoOperand.tame = FALSE
      /\ FreshVisitor \in Visitors /\ FreshVisitor.newPending = FALSE
  BY DEF NoOperand, Plain, Operand, Operands, FreshVisitor, Visitors
<1>3. /\ methods' \in Seq(MethodNames) /\ Len(methods') = Len(methods) + 1
      /\ methods'[Len(methods) + 1] = name /\ methods' # << >>
      /\ \A i \in DOMAIN methods : i \in DOMAIN methods' /\ methods'[i] = methods[i]
      /\ Len(methods) + 1 \in DOMAIN methods' /\ Len(methods) + 1 \notin DOMAIN methods
  BY <1>1
<1>4. /\ found' \in [Keys -> SUBSET Types] /\ KeyedByName' = KeyedByName
      /\ \A k \in Keys : found'[k] = IF KeyedByName /\ k = name THEN {} ELSE found[k]
  BY <1>1 DEF Keys, KeyedByName
<1>5. Mirror'
  <2>1. Waiting' = {}
    BY <1>1 DEF Waiting
  <2> QED
    BY <1>1, <1>2, <2>1 DEF Mirror, Unflagged, NewMirrored, TopMirrored, SlotMirrored
<1>6. ScannerTypeOK'
  <2>1. Len(methods') <= MaxMethods
    BY <1>1, <1>3, ScannerAssumption
  <2> QED
    BY <1>1, <1>2, <1>3, <1>4, <2>1 DEF ScanInv, ScannerTypeOK, Visitors
<1>7. \A k \in Keys : Unused(k)' => Unused(k) /\ k # name
  BY <1>3 DEF Unused
<1>8. UnusedIsEmpty'
  BY <1>1, <1>4, <1>7 DEF UnusedIsEmpty, ScanInv
<1>9. \A k \in Keys : Unambiguous(k)' => Unambiguous(k) /\ (KeyedByName /\ k = name => Unused(k))
  <2>1. ASSUME NEW k \in Keys, OncePerClass(k)' PROVE OncePerClass(k) /\ (k = name => Unused(k))
    BY <1>3, <2>1 DEF OncePerClass, Unused
  <2> QED
    BY <1>4, <2>1 DEF Unambiguous
<1>10. TameIsFound' /\ OnlyTameIsExact'
  <2>1. ASSUME NEW k \in Keys, Unambiguous(k)'
        PROVE  /\ passed'[k].tame \subseteq found'[k]
               /\ passed'[k].onlyTame => found'[k] \subseteq passed'[k].tame
    <3>1. CASE KeyedByName /\ k = name
      BY <1>1, <1>4, <1>9, <2>1, <3>1 DEF ScanInv, UnusedIsEmpty, NothingPassed
    <3>2. CASE ~(KeyedByName /\ k = name)
      BY <1>1, <1>4, <1>9, <2>1, <3>2 DEF ScanInv, TameIsFound, OnlyTameIsExact
    <3> QED
      BY <3>1, <3>2
  <2> QED
    BY <2>1 DEF TameIsFound, OnlyTameIsExact
<1> QED
  BY <1>1, <1>2, <1>3, <1>5, <1>6, <1>8, <1>10 DEF ScanInv

LEMMA ScanNextInv == ScanInv /\ [ScanNext]_scanVars => ScanInv'
<1> SUFFICES ASSUME ScanInv, [ScanNext]_scanVars PROVE ScanInv'
  OBVIOUS
<1>1. ASSUME NEW n \in 0..MaxArguments, NEW t \in Types \cup {None}, Call(n, t) PROVE ScanInv'
  <2>1. n \in Nat
    BY ScannerAssumption
  <2> QED
    BY <1>1, <2>1, CallInv
<1>2. ASSUME NEW t \in Types, ReadField(Plain(t)) PROVE ScanInv'
  BY <1>2, ReadFieldInv
<1>3. CASE ReadField(Receiver)
  BY <1>3, ReadFieldInv
<1>4. CASE ScanNext
  BY <1>1, <1>2, <1>3, <1>4, NextMethodInv, NewInv, ConstructInv, StatementInv, ConstantInv,
     StoreInv, LoadInv, SinkInv
  DEF ScanNext
<1>5. CASE UNCHANGED scanVars
  <2>1. UNCHANGED <<scanner, methods, stack, slot, visitor, found, passed>>
    BY <1>5 DEF scanVars
  <2>2. Waiting' = Waiting /\ Top' = Top /\ Mirror'
    BY <2>1 DEF Waiting, Top, ScanInv, Mirror, Unflagged, NewMirrored, TopMirrored,
                SlotMirrored, TracksNew, TracksSlots
  <2> QED
    BY <2>1, <2>2, QuietInv DEF ScanInv, ScannerTypeOK, Visitors
<1> QED
  BY <1>4, <1>5

----------------------------------------------------------------------------
(* The variables keep their types, and no key ever collects "no type".      *)
THEOREM ScannerTypeCorrect == ScanSpec => []ScannerTypeOK
<1>1. ScanInv => ScannerTypeOK
  BY DEF ScanInv
<1> QED
  BY <1>1, ScanInitInv, ScanNextInv, PTL DEF ScanSpec

(* In straight-line code of any length, whatever the number of types,       *)
(* methods and operands, each of the four visitors collects every tame      *)
(* value that is passed to the call it watches.                             *)
THEOREM TameValuesAreFound == ScanSpec => []TameIsFound
<1>1. ScanInv => TameIsFound
  BY DEF ScanInv
<1> QED
  BY <1>1, ScanInitInv, ScanNextInv, PTL DEF ScanSpec

(* ... and where only tame values are passed it collects nothing else.      *)
THEOREM TameScansAreExact == ScanSpec => []OnlyTameIsExact
<1>1. ScanInv => OnlyTameIsExact
  BY DEF ScanInv
<1> QED
  BY <1>1, ScanInitInv, ScanNextInv, PTL DEF ScanSpec
============================================================================
