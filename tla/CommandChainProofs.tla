------------------------- MODULE CommandChainProofs -------------------------
(***************************************************************************)
(* The chain of a thread: which frame may stand on which (Shape), which    *)
(* invocation owns the transaction (Txn), whose request MDC holds (Mdc),   *)
(* and to which request an event belongs wherever it waits (Emitted).      *)
(***************************************************************************)
EXTENDS CommandInvokerProofs

\* The step of a frame while the frame above it runs: a publication waits with the
\* next event to come, an invocation for its handler, for what dispatch publishes
\* or for a callback.
Rests(f, g) ==
    \/ g.kind = "policy" /\ f.kind = "publish" /\ f.step = "wrapper"
    \/ g.kind = "publish" /\ g.mode = "now" /\ f.kind = "invoke" /\ f.step = "register"
    \/ g.kind = "publish" /\ g.mode = "afterCommit" /\ f.kind = "invoke" /\ f.step = "afterCommit"
    \/ /\ g.kind = "invoke" \/ (g.kind = "publish" /\ g.mode = "external")
       /\ f.kind = "policy" \/ (f.kind = "invoke" /\ f.step = "handle")

Bottom(f) == f.kind = "invoke" \/ (f.kind = "publish" /\ f.mode = "external")

\* Where an exception may arrive.
Throws(f) ==
    /\ f.kind = "invoke" => f.step \in {"handle", "register", "stamp"}
    /\ f.kind = "publish" => f.step = "wrapper"

Adjacent == \A i \in 1..(Len(stack) - 1) : Rests(stack[i], stack[i + 1])
Shape ==
    /\ Adjacent
    /\ Running => Bottom(stack[1])
    /\ exc => Throws(stack[Len(stack)])

-----------------------------------------------------------------------------
\* The last frame moves on.
LEMMA ShapeMoves ==
  ASSUME Adjacent, Running => Bottom(stack[1]), Running, Len(stack) \in Nat, Len(stack) >= 1,
         Len(stack') = Len(stack),
         \A i \in 1..Len(stack) : i # Len(stack) => stack'[i] = stack[i],
         stack'[Len(stack)].kind = stack[Len(stack)].kind,
         stack[Len(stack)].kind = "publish" => stack'[Len(stack)].mode = stack[Len(stack)].mode,
         exc' => Throws(stack'[Len(stack)])
  PROVE  Shape'
<1>1. Adjacent'
  <2> SUFFICES ASSUME NEW i \in 1..(Len(stack') - 1)
               PROVE  Rests(stack'[i], stack'[i + 1])
    BY DEF Adjacent
  <2>1. i \in 1..(Len(stack) - 1) /\ i \in 1..Len(stack) /\ i # Len(stack) /\ i + 1 \in 1..Len(stack)
    OBVIOUS
  <2>2. Rests(stack[i], stack[i + 1]) /\ stack'[i] = stack[i]
    BY <2>1 DEF Adjacent
  <2>3. CASE i + 1 # Len(stack)
    BY <2>1, <2>2, <2>3
  <2>4. CASE i + 1 = Len(stack)
    BY <2>1, <2>2, <2>4 DEF Rests
  <2> QED
    BY <2>3, <2>4
<1>2. Bottom(stack'[1])
  <2>1. CASE Len(stack) = 1
    BY <2>1 DEF Bottom
  <2>2. CASE Len(stack) # 1
    <3>1. 1 \in 1..Len(stack)
      OBVIOUS
    <3> QED
      BY <2>2, <3>1
  <2> QED
    BY <2>1, <2>2
<1> QED
  BY <1>1, <1>2, Zenon DEF Shape

\* A frame is pushed; the frame below it may move as it does so.
LEMMA ShapeGrows ==
  ASSUME NEW n \in Nat, Len(stack) = n, Running <=> n # 0,
         Adjacent, Running => Bottom(stack[1]),
         Len(stack') = n + 1, \A i \in 1..(n - 1) : stack'[i] = stack[i],
         Running => /\ stack'[n].kind = stack[n].kind
                    /\ stack[n].kind = "publish" => stack'[n].mode = stack[n].mode
                    /\ Rests(stack'[n], stack'[n + 1]),
         ~Running => Bottom(stack'[1]),
         exc' => Throws(stack'[Len(stack')])
  PROVE  Shape'
<1>1. Adjacent'
  <2> SUFFICES ASSUME NEW i \in 1..n
               PROVE  Rests(stack'[i], stack'[i + 1])
    BY DEF Adjacent
  <2>1. CASE i = n
    BY <2>1
  <2>2. CASE i # n
    <3>1. i \in 1..(n - 1) /\ i + 1 \in 1..n
      BY <2>2
    <3>2. Rests(stack[i], stack[i + 1]) /\ stack'[i] = stack[i]
      BY <3>1 DEF Adjacent
    <3>3. CASE i + 1 # n
      <4>1. i + 1 \in 1..(n - 1)
        BY <3>1, <3>3
      <4> QED
        BY <4>1, <3>2
    <3>4. CASE i + 1 = n
      BY <3>1, <3>2, <3>4 DEF Rests
    <3> QED
      BY <3>3, <3>4
  <2> QED
    BY <2>1, <2>2
<1>2. Bottom(stack'[1])
  <2>1. CASE n = 1
    BY <2>1 DEF Bottom
  <2>2. CASE n > 1
    <3>1. 1 \in 1..(n - 1)
      BY <2>2
    <3> QED
      BY <2>2, <3>1
  <2>3. CASE n = 0
    BY <2>3
  <2> QED
    BY <2>1, <2>2, <2>3
<1> QED
  BY <1>1, <1>2, Zenon DEF Shape

\* The last frame is popped.
LEMMA ShapeShrinks ==
  ASSUME Adjacent, Running => Bottom(stack[1]), Running, Len(stack) \in Nat, Len(stack) >= 1,
         Len(stack') = Len(stack) - 1, Running' => Len(stack') >= 1,
         \A i \in 1..(Len(stack) - 1) : stack'[i] = stack[i],
         exc' => Len(stack) > 1 /\ Throws(stack[Len(stack) - 1])
  PROVE  Shape'
<1>1. Adjacent'
  <2> SUFFICES ASSUME NEW i \in 1..(Len(stack') - 1)
               PROVE  Rests(stack'[i], stack'[i + 1])
    BY DEF Adjacent
  <2>1. /\ i \in 1..(Len(stack) - 1) /\ i + 1 \in 1..(Len(stack) - 1)
    OBVIOUS
  <2> QED
    BY <2>1 DEF Adjacent
<1>2. Running' => Bottom(stack'[1])
  <2> HAVE Running'
  <2>1. 1 \in 1..(Len(stack) - 1)
    OBVIOUS
  <2> QED
    BY <2>1
<1>3. Len(stack) > 1 => stack'[Len(stack')] = stack[Len(stack) - 1]
  OBVIOUS
<1>4. exc' => Throws(stack'[Len(stack')])
  BY <1>3
<1> QED
  BY <1>1, <1>2, <1>4, Zenon DEF Shape
-----------------------------------------------------------------------------
\* An invocation moves on.
LEMMA GotoShape ==
  ASSUME TypeInv, Shape, Running, Top.kind = "invoke", NEW s \in InvokeSteps, Goto(s),
         exc' => s \in {"handle", "register", "stamp"}
  PROVE  Shape'
<1>1. stack \in Seq(FrameType) /\ Adjacent /\ (Running => Bottom(stack[1]))
  BY DEF TypeInv, StackOK, Shape
<1>2. Len(stack) \in Nat /\ Len(stack) >= 1 /\ stack[Len(stack)].kind = "invoke"
  BY <1>1, TopFrame
<1>3. /\ Len(stack') = Len(stack)
      /\ \A i \in 1..Len(stack) : i # Len(stack) => stack'[i] = stack[i]
      /\ stack'[Len(stack)].step = s /\ stack'[Len(stack)].kind = "invoke"
  BY <1>1, GotoStack
<1>4. exc' => Throws(stack'[Len(stack)])
  BY <1>3 DEF Throws
<1> QED
  BY <1>1, <1>2, <1>3, <1>4, ShapeMoves

\* A frame is pushed onto one that may wait for it.
LEMMA PushShape ==
  ASSUME TypeInv, Shape, NEW f \in FrameType, Push(f), exc' \in BOOLEAN, ~exc',
         Running => Rests(Top, f), ~Running => Bottom(f)
  PROVE  Shape'
<1>1. stack \in Seq(FrameType) /\ Adjacent /\ (Running => Bottom(stack[1]))
  BY DEF TypeInv, StackOK, Shape
<1>2. PICK n \in Nat : n = Len(stack)
  BY <1>1
<1>3. Running <=> n # 0
  BY <1>1, <1>2 DEF Running
<1>4. /\ Len(stack') = n + 1 /\ \A i \in 1..n : stack'[i] = stack[i]
      /\ stack'[n + 1] = f
  BY <1>1, <1>2, PushStack
<1>5. Running => n \in 1..n /\ Top = stack[n]
  BY <1>2, <1>3 DEF Top, Last
<1>6. /\ \A i \in 1..(n - 1) : stack'[i] = stack[i]
      /\ Running => stack'[n] = stack[n] /\ Rests(stack'[n], stack'[n + 1])
      /\ ~Running => Bottom(stack'[1])
  BY <1>3, <1>4, <1>5
<1> QED
  BY <1>1, <1>2, <1>3, <1>4, <1>6, ShapeGrows

\* A frame leaves, and an exception reaches a frame that takes it.
LEMMA LeaveShape ==
  ASSUME TypeInv, Shape, Running, NEW throws \in BOOLEAN, Leave(throws),
         throws => Top.kind # "publish" \/ Top.mode # "afterCommit"
  PROVE  Shape'
<1>1. stack \in Seq(FrameType) /\ Adjacent /\ (Running => Bottom(stack[1]))
  BY DEF TypeInv, StackOK, Shape
<1>2. Len(stack) \in Nat /\ Len(stack) >= 1 /\ Top = stack[Len(stack)]
  BY <1>1, TopFrame
<1>3. /\ stack' \in Seq(FrameType) /\ Len(stack') = Len(stack) - 1
      /\ \A i \in 1..(Len(stack) - 1) : stack'[i] = stack[i]
  BY <1>1, LeaveStack
<1>4. Running' => Len(stack') >= 1
  BY <1>3 DEF Running
<1>5. exc' => throws /\ Len(stack) > 1
  BY Zenon DEF Leave
<1>6. Len(stack) > 1 => Rests(stack[Len(stack) - 1], Top)
  <2> HAVE Len(stack) > 1
  <2>1. Len(stack) - 1 \in 1..(Len(stack) - 1) /\ (Len(stack) - 1) + 1 = Len(stack)
    BY <1>2
  <2> QED
    BY <1>1, <1>2, <2>1 DEF Adjacent
<1>7. throws /\ Len(stack) > 1 => Throws(stack[Len(stack) - 1])
  BY <1>6 DEF Rests, Throws
<1>8. exc' => Len(stack) > 1 /\ Throws(stack[Len(stack) - 1])
  BY <1>5, <1>7, Zenon
<1> QED
  BY <1>1, <1>2, <1>3, <1>4, <1>8, ShapeShrinks

\* The frames stay; an exception is caught or raised.
LEMMA StillShape ==
  ASSUME Shape, UNCHANGED stack, exc' => exc \/ Throws(stack[Len(stack)])
  PROVE  Shape'
<1>1. Adjacent' /\ (Running' => Bottom(stack'[1]))
  BY DEF Shape, Adjacent, Running
<1>2. exc' => Throws(stack'[Len(stack')])
  BY Zenon DEF Shape
<1> QED
  BY <1>1, <1>2, Zenon DEF Shape

\* invoke is called by a handler, by a policy or from outside.
LEMMA InvokeShape ==
  ASSUME TypeInv, Shape, NEW saved \in BOOLEAN, Invoke(saved)
  PROVE  Shape'
<1> DEFINE f == [kind |-> "invoke", inv |-> Len(invs) + 1, step |-> "handle",
                 deferred |-> <<>>]
<1>1. MayCall /\ Push(f) /\ UNCHANGED exc
  BY DEF Invoke
<1>2. exc' \in BOOLEAN /\ ~exc'
  BY <1>1 DEF MayCall, TypeInv, StackOK
<1>3. f.kind = "invoke" /\ f \in FrameType
  <2>1. <<>> \in Seq(Nat) /\ Len(invs) \in Nat
    BY DEF TypeInv, HistoryOK
  <2> QED
    BY <2>1 DEF FrameType, InvokeFrame, InvokeSteps
<1> HIDE DEF f
<1>4. Running => Rests(Top, f)
  BY <1>1, <1>3 DEF MayCall, At, Rests
<1>5. Bottom(f)
  BY <1>3 DEF Bottom
<1> QED
  BY <1>1, <1>2, <1>3, <1>4, <1>5, PushShape

\* So is the external publisher.
LEMMA PublishExternalShape ==
  ASSUME TypeInv, Shape, NEW timing \in Publishes, PublishExternal(timing)
  PROVE  Shape'
<1> DEFINE opened == mdc = 0
           req    == IF opened THEN ids + 1 ELSE mdc
           f == [kind |-> "publish", step |-> "wrapper", mode |-> "external",
                 todo |-> <<Len(events) + 1>>, req |-> req, opened |-> opened]
<1>1. MayCall /\ Push(f) /\ UNCHANGED exc
  BY DEF PublishExternal
<1>2. exc' \in BOOLEAN /\ ~exc'
  BY <1>1 DEF MayCall, TypeInv, StackOK
<1>3. f.kind = "publish" /\ f.mode = "external"
  OBVIOUS
<1>4. stack \in Seq(FrameType) /\ Adjacent /\ (Running => Bottom(stack[1]))
  BY DEF TypeInv, StackOK, Shape
<1>5. PICK n \in Nat : n = Len(stack)
  BY <1>4
<1>6. Running <=> n # 0
  BY <1>4, <1>5 DEF Running
<1> HIDE DEF f
<1>7. /\ Len(stack') = n + 1 /\ \A i \in 1..n : stack'[i] = stack[i]
      /\ stack'[n + 1] = f
  BY <1>1, <1>4, <1>5, AppendProperties DEF Push
<1>8. Running => Rests(Top, f) /\ Top = stack[n] /\ n \in 1..n
  BY <1>1, <1>3, <1>5, <1>6 DEF MayCall, At, Rests, Top, Last
<1>9. Bottom(f)
  BY <1>3 DEF Bottom
<1>10. exc' => Throws(stack'[Len(stack')])
  BY <1>2, Zenon
<1>11. /\ \A i \in 1..(n - 1) : stack'[i] = stack[i]
       /\ Running => stack'[n] = stack[n] /\ Rests(stack'[n], stack'[n + 1])
       /\ ~Running => Bottom(stack'[1])
  BY <1>6, <1>7, <1>8, <1>9
<1> QED
  BY <1>4, <1>5, <1>6, <1>7, <1>10, <1>11, ShapeGrows

\* Dispatching and delivering push a frame above one that moves.
LEMMA DispatchShape ==
  ASSUME TypeInv, Shape, NEW nNow \in 0..MaxEvents, NEW nLater \in 0..MaxEvents,
         HandlerReturns(nNow, nLater) \/ PublishRaw
  PROVE  Shape'
<1>1. stack \in Seq(FrameType) /\ Adjacent /\ (Running => Bottom(stack[1]))
  BY DEF TypeInv, StackOK, Shape
<1>2. PICK n \in Nat : n = Len(stack)
  BY <1>1
<1>3. /\ Running /\ (Top.kind = "invoke" \/ Top.kind = "publish")
      /\ Top = stack[n] /\ n # 0
  BY <1>1, <1>2 DEF HandlerReturns, PublishRaw, At, Top, Last, Running
<1>4. exc' \in BOOLEAN /\ ~exc'
  BY DEF HandlerReturns, PublishRaw, At, TypeInv, StackOK
<1>5. /\ Len(stack') = n + 1 /\ \A i \in 1..(n - 1) : stack'[i] = stack[i]
      /\ stack'[n].kind = stack[n].kind
      /\ stack[n].kind = "publish" => stack'[n].mode = stack[n].mode
      /\ Rests(stack'[n], stack'[n + 1])
  <2>1. CASE HandlerReturns(nNow, nLater)
    <3>1. DispatchFrames(nNow, nLater) /\ Top.kind = "invoke"
      BY <2>1, HandlerReturnsEffect DEF HandlerReturns, At
    <3> QED
      BY <1>2, <1>3, <3>1 DEF DispatchFrames, Rests
  <2>2. CASE PublishRaw
    <3>1. ListenFrames /\ Top.kind = "publish"
      BY <2>2, PublishRawEffect DEF PublishRaw, At
    <3> QED
      BY <1>2, <1>3, <3>1 DEF ListenFrames, Rests
  <2> QED
    BY <2>1, <2>2
<1>6. exc' => Throws(stack'[Len(stack')])
  BY <1>4, Zenon
<1> QED
  BY <1>1, <1>2, <1>3, <1>5, <1>6, ShapeGrows

\* Every step keeps the shape of the stack.
LEMMA ShapeStep ==
  ASSUME TypeInv, Shape, [Next]_vars
  PROVE  Shape'
<1>1. ASSUME Running, Top.kind = "invoke", UNCHANGED exc, ~exc,
             \E s \in InvokeSteps : Goto(s)
      PROVE  Shape'
  <2>1. exc' => FALSE
    BY <1>1, Zenon
  <2>2. PICK s \in InvokeSteps : Goto(s)
    BY <1>1
  <2> QED
    BY <1>1, <2>1, <2>2, GotoShape
<1>2. CASE Proceed
  <2>1. CASE \E nNow, nLater \in 0..MaxEvents : HandlerReturns(nNow, nLater)
    BY <2>1, DispatchShape
  <2>2. CASE HandlerThrows
    <3>1. Running /\ Top.kind = "invoke" /\ Goto("register") /\ "register" \in InvokeSteps
      BY <2>2 DEF HandlerThrows, At, InvokeSteps
    <3> QED
      BY <3>1, GotoShape
  <2>3. CASE \/ RegisterDeferred \/ StampSuccess \/ Commits \/ CommitThrows
             \/ UnexpectedRollback \/ CallbacksDone \/ Completed \/ StampFailure
             \/ MarkEventsFailed \/ FailureStampThrows
    <3>1. Running /\ Top.kind = "invoke" /\ UNCHANGED exc /\ ~exc
      BY <2>3, Zenon DEF RegisterDeferred, StampSuccess, Commits, CommitThrows,
            UnexpectedRollback, CallbacksDone, Completed, StampFailure, MarkEventsFailed,
            FailureStampThrows, At
    <3>2. \E s \in InvokeSteps : Goto(s)
      BY <2>3 DEF RegisterDeferred, StampSuccess, Commits, CommitThrows,
            UnexpectedRollback, CallbacksDone, Completed, StampFailure, MarkEventsFailed,
            FailureStampThrows, InvokeSteps
    <3> QED
      BY <1>1, <3>1, <3>2
  <2>4. CASE StampSuccessThrows
    <3>1. Running /\ Top.kind = "invoke" /\ Top.step = "stamp" /\ UNCHANGED stack
      BY <2>4 DEF StampSuccessThrows, At
    <3>2. Throws(stack[Len(stack)])
      BY <3>1 DEF Throws, Top, Last
    <3> QED
      BY <3>1, <3>2, StillShape
  <2>5. CASE RunCallback
    <3> DEFINE f == [kind |-> "publish", step |-> "wrapper", mode |-> "afterCommit",
                     todo |-> NextCallback.events, req |-> NextCallback.req, opened |-> FALSE]
    <3>1. Running /\ Push(f) /\ Top.kind = "invoke" /\ Top.step = "afterCommit"
      BY <2>5 DEF RunCallback, At
    <3>2. exc' \in BOOLEAN /\ ~exc'
      BY <2>5 DEF RunCallback, At, TypeInv, StackOK
    <3>3. f \in FrameType
      <4>1. /\ tx.callbacks \in Seq(CallbackType) /\ tx.callbacks # <<>>
        <5>1. tx.callbacks \in Seq(CallbackType) /\ tx.due \in Nat /\ tx.due <= Len(tx.callbacks)
          BY DEF TypeInv, TxOK, TxType
        <5> QED
          BY <2>5, <5>1 DEF RunCallback
      <4>2. NextCallback \in CallbackType
        BY <4>1 DEF NextCallback
      <4> QED
        BY <4>2 DEF CallbackType, FrameType, PublishFrame
    <3>4. f.kind = "publish" /\ f.mode = "afterCommit"
      OBVIOUS
    <3> HIDE DEF f
    <3>5. Running => Rests(Top, f)
      BY <3>1, <3>4 DEF Rests
    <3> QED
      BY <3>1, <3>2, <3>3, <3>5, PushShape
  <2>6. CASE \E saved \in BOOLEAN : LogDeferred(saved)
    BY <2>6, StillShape DEF LogDeferred
  <2>7. CASE Abort
    <3>1. Running /\ Top.kind = "invoke" /\ exc' = FALSE /\ Goto("stampFailure")
          /\ "stampFailure" \in InvokeSteps
      BY <2>7 DEF Abort, InvokeSteps
    <3>2. exc' => FALSE
      BY <3>1
    <3> QED
      BY <3>1, <3>2, GotoShape
  <2>8. CASE \E s \in {"return", "throw"} : Finish(s)
    <3>1. PICK s \in {"return", "throw"} : Finish(s)
      BY <2>8
    <3>2. Running /\ Top.kind = "invoke" /\ Leave(s = "throw")
      BY <3>1 DEF Finish, At
    <3>3. (s = "throw") \in BOOLEAN
      OBVIOUS
    <3> QED
      BY <3>2, <3>3, LeaveShape
  <2>9. CASE \E saved \in BOOLEAN : PublishWrapper(saved)
    <3>1. PICK saved \in BOOLEAN : PublishWrapper(saved)
      BY <2>9
    <3>2. WrapperFrames /\ Running /\ Top.kind = "publish"
      BY <3>1, PublishWrapperEffect DEF PublishWrapper, At
    <3>3. exc' => FALSE
      BY <3>1, Zenon DEF PublishWrapper, At
    <3>4. /\ stack \in Seq(FrameType) /\ Adjacent /\ (Running => Bottom(stack[1]))
          /\ Len(stack) \in Nat /\ Len(stack) >= 1 /\ Top = stack[Len(stack)]
      BY <3>2, TopFrame DEF TypeInv, StackOK, Shape
    <3> QED
      BY <3>2, <3>3, <3>4, ShapeMoves DEF WrapperFrames
  <2>10. CASE PublishRaw
    <3>1. 0 \in 0..MaxEvents
      BY BoundsAssumption
    <3> QED
      BY <2>10, <3>1, DispatchShape
  <2>11. CASE PublishDone \/ PolicyReturns
    <3>1. Running /\ Leave(FALSE) /\ FALSE \in BOOLEAN
      BY <2>11 DEF PublishDone, PolicyReturns, At
    <3> QED
      BY <3>1, LeaveShape
  <2>12. CASE PolicyThrows
    <3>1. Running /\ Leave(TRUE) /\ TRUE \in BOOLEAN /\ Top.kind # "publish"
      BY <2>12 DEF PolicyThrows
    <3> QED
      BY <3>1, LeaveShape
  <2>13. CASE PublishThrows
    <3>1. CASE Top.mode = "afterCommit"
      <4>1. UNCHANGED stack /\ (exc' => FALSE)
        BY <2>13, <3>1 DEF PublishThrows
      <4> QED
        BY <4>1, StillShape
    <3>2. CASE Top.mode # "afterCommit"
      <4>1. Running /\ Leave(TRUE) /\ TRUE \in BOOLEAN
        BY <2>13, <3>2 DEF PublishThrows
      <4> QED
        BY <3>2, <4>1, LeaveShape
    <3> QED
      BY <3>1, <3>2
  <2>14. CASE PolicyCatches \/ HandlerCatches
    <3>1. UNCHANGED stack /\ (exc' => FALSE)
      BY <2>14 DEF PolicyCatches, HandlerCatches
    <3> QED
      BY <3>1, StillShape
  <2> QED
    BY <1>2, <2>1, <2>2, <2>3, <2>4, <2>5, <2>6, <2>7, <2>8, <2>9, <2>10, <2>11, <2>12, <2>13,
       <2>14 DEF Proceed
<1>3. CASE Call
  <2>1. CASE ParticipantFails
    BY <2>1, StillShape DEF ParticipantFails
  <2> QED
    BY <1>3, <2>1, InvokeShape, PublishExternalShape DEF Call
<1>4. CASE Crash
  <2>1. stack' = <<>> /\ (exc' => FALSE)
    BY <1>4 DEF Crash
  <2>2. Len(stack') = 0 /\ ~Running'
    BY <2>1 DEF Running
  <2>3. Adjacent'
    BY <2>2 DEF Adjacent
  <2> QED
    BY <2>1, <2>2, <2>3, Zenon DEF Shape
<1>5. CASE UNCHANGED vars
  BY <1>5, StillShape DEF vars
<1> QED
  BY <1>2, <1>3, <1>4, <1>5 DEF Next

-----------------------------------------------------------------------------
(***************************************************************************)
(* What a step does to the invocations on the stack.                       *)
(***************************************************************************)
SameInvocations ==
    /\ Invoking' = Invoking
    /\ \A i \in Invoking : stack'[i].inv = stack[i].inv /\ stack'[i].step = stack[i].step

\* The last frame is an invocation, which moves on to s.
MoveInvocation(s) ==
    /\ Len(stack) \in Invoking /\ Invoking' = Invoking
    /\ \A i \in Invoking : /\ stack'[i].inv = stack[i].inv
                           /\ stack'[i].step = IF i = Len(stack) THEN s ELSE stack[i].step

NewInvocation ==
    /\ Invoking' = Invoking \cup {Len(stack) + 1}
    /\ \A i \in Invoking : stack'[i].inv = stack[i].inv /\ stack'[i].step = stack[i].step
    /\ stack'[Len(stack) + 1].inv = Len(invs) + 1
    /\ stack'[Len(stack) + 1].step = "handle"

EndInvocation ==
    /\ Len(stack) \in Invoking /\ Invoking' = Invoking \ {Len(stack)}
    /\ \A i \in Invoking' : stack'[i].inv = stack[i].inv /\ stack'[i].step = stack[i].step

\* What is left of each kind of frame when the last one leaves.
LEMMA LeaveFrames ==
  ASSUME TypeInv, Running, NEW throws, Leave(throws)
  PROVE  /\ Invoking' = Invoking \ {Len(stack)} /\ Publishing' = Publishing \ {Len(stack)}
         /\ Listening' = Listening \ {Len(stack)}
         /\ \A i \in Invoking' \cup Publishing' \cup Listening' : stack'[i] = stack[i]
<1>1. PICK n \in Nat : n = Len(stack)
  BY DEF TypeInv, StackOK
<1>2. /\ Len(stack') = n - 1 /\ n >= 1 /\ \A i \in 1..(n - 1) : stack'[i] = stack[i]
  BY <1>1, LeaveStack, TopFrame DEF TypeInv, StackOK
<1> QED
  BY <1>1, <1>2 DEF Invoking, Publishing, Listening

\* The frames after a push.
LEMMA PushFrames ==
  ASSUME TypeInv, NEW f, Push(f)
  PROVE  /\ Len(stack') = Len(stack) + 1 /\ stack'[Len(stack) + 1] = f
         /\ \A i \in 1..Len(stack) : stack'[i] = stack[i]
<1>1. stack \in Seq(FrameType)
  BY DEF TypeInv, StackOK
<1> QED
  BY <1>1, AppendProperties DEF Push

\* A publication that is pushed is no invocation and no listener.
LEMMA PushPublication ==
  ASSUME TypeInv, NEW f, Push(f), f.kind = "publish"
  PROVE  /\ SameInvocations /\ Publishing' = Publishing \cup {Len(stack) + 1}
         /\ Listening' = Listening
<1>1. PICK n \in Nat : n = Len(stack)
  BY DEF TypeInv, StackOK
<1>2. Len(stack') = n + 1 /\ stack'[n + 1] = f /\ \A i \in 1..n : stack'[i] = stack[i]
  BY <1>1, PushFrames
<1>3. Publishing' = Publishing \cup {n + 1} /\ Invoking' = Invoking /\ Listening' = Listening
  BY <1>1, <1>2 DEF Publishing, Invoking, Listening
<1>4. \A i \in Invoking : stack'[i] = stack[i]
  BY <1>1, <1>2 DEF Invoking
<1> QED
  BY <1>1, <1>3, <1>4 DEF SameInvocations

\* The steps that only publish leave the invocations as they are.
LEMMA KeepsInvocations ==
  ASSUME TypeInv, \/ UNCHANGED stack \/ RunCallback \/ PublishRaw \/ PublishDone
                  \/ PublishThrows \/ PolicyReturns \/ PolicyThrows
                  \/ \E saved \in BOOLEAN : PublishWrapper(saved)
                  \/ \E timing \in Publishes : PublishExternal(timing)
  PROVE  SameInvocations
<1>1. PICK n \in Nat : n = Len(stack)
  BY DEF TypeInv, StackOK
<1>2. CASE UNCHANGED stack
  BY <1>2 DEF SameInvocations, Invoking
<1>3. CASE RunCallback
  <2>1. \E f : Push(f) /\ f.kind = "publish"
    BY <1>3 DEF RunCallback
  <2> QED
    BY <2>1, PushPublication
<1>4. CASE \E timing \in Publishes : PublishExternal(timing)
  <2>1. \E f : Push(f) /\ f.kind = "publish"
    BY <1>4 DEF PublishExternal
  <2> QED
    BY <2>1, PushPublication
<1>5. ASSUME Running, Top.kind # "invoke", NEW throws, Leave(throws)
      PROVE  SameInvocations
  <2>1. n \notin Invoking
    BY <1>1, <1>5, TopFrame DEF TypeInv, StackOK, Invoking
  <2> QED
    BY <1>1, <1>5, <2>1, LeaveFrames DEF SameInvocations
<1>6. CASE PublishDone \/ PublishThrows \/ PolicyReturns \/ PolicyThrows
  BY <1>2, <1>5, <1>6 DEF PublishDone, PublishThrows, PolicyReturns, PolicyThrows, At
<1>7. CASE PublishRaw
  <2>1. ListenFrames /\ Running /\ Top.kind = "publish" /\ Top = stack[n]
    BY <1>1, <1>7, PublishRawEffect DEF PublishRaw, At, Top, Last
  <2>2. /\ Len(stack') = n + 1 /\ \A i \in 1..(n - 1) : stack'[i] = stack[i]
        /\ stack'[n].kind = "publish" /\ stack'[n + 1].kind = "policy"
    BY <1>1, <2>1 DEF ListenFrames
  <2>3. Invoking' = Invoking /\ \A i \in Invoking : stack'[i] = stack[i]
    BY <1>1, <2>1, <2>2 DEF Invoking
  <2> QED
    BY <2>3 DEF SameInvocations
<1>8. ASSUME NEW saved \in BOOLEAN, PublishWrapper(saved)
      PROVE  SameInvocations
  <2>1. WrapperFrames /\ Running /\ Top.kind = "publish" /\ Top = stack[n]
    BY <1>1, <1>8, PublishWrapperEffect DEF PublishWrapper, At, Top, Last
  <2>2. /\ Len(stack') = n /\ \A i \in 1..n : i # n => stack'[i] = stack[i]
        /\ stack'[n].kind = "publish"
    BY <1>1, <2>1 DEF WrapperFrames
  <2>3. Invoking' = Invoking /\ \A i \in Invoking : stack'[i] = stack[i]
    BY <1>1, <2>1, <2>2 DEF Invoking
  <2> QED
    BY <2>3 DEF SameInvocations
<1> QED
  BY <1>2, <1>3, <1>4, <1>6, <1>7, <1>8

\* A step of the last invocation is of the form above.
LEMMA MovesInvocation ==
  ASSUME TypeInv, Running, Top.kind = "invoke", NEW s \in InvokeSteps, Goto(s)
  PROVE  MoveInvocation(s)
<1>1. PICK n \in Nat : n = Len(stack)
  BY DEF TypeInv, StackOK
<1>2. n \in Invoking /\ Top = stack[n]
  BY <1>1, TopFrame DEF TypeInv, StackOK
<1>3. /\ Len(stack') = n /\ \A i \in 1..n : i # n => stack'[i] = stack[i]
      /\ stack'[n].step = s /\ stack'[n].kind = "invoke" /\ stack'[n].inv = Top.inv
  BY <1>1, GotoStack DEF TypeInv, StackOK
<1>4. Invoking' = Invoking
  BY <1>1, <1>2, <1>3 DEF Invoking
<1>5. \A i \in Invoking : i # n => stack'[i] = stack[i]
  BY <1>1, <1>3 DEF Invoking
<1> QED
  BY <1>1, <1>2, <1>3, <1>4, <1>5 DEF MoveInvocation

\* So is a handler that returns, below the frame it pushes.
LEMMA DispatchMoves ==
  ASSUME TypeInv, NEW nNow \in 0..MaxEvents, NEW nLater \in 0..MaxEvents,
         HandlerReturns(nNow, nLater)
  PROVE  MoveInvocation("register")
<1>1. PICK n \in Nat : n = Len(stack)
  BY DEF TypeInv, StackOK
<1>2. /\ DispatchFrames(nNow, nLater) /\ Running /\ Top.kind = "invoke"
      /\ n \in Invoking /\ Top = stack[n]
  BY <1>1, HandlerReturnsEffect, TopFrame DEF HandlerReturns, At, TypeInv, StackOK
<1>3. /\ Len(stack') = n + 1 /\ \A i \in 1..(n - 1) : stack'[i] = stack[i]
      /\ stack'[n].step = "register" /\ stack'[n].kind = "invoke" /\ stack'[n].inv = Top.inv
      /\ stack'[n + 1].kind = "publish"
  BY <1>1, <1>2 DEF DispatchFrames
<1>4. Invoking' = Invoking
  BY <1>1, <1>2, <1>3 DEF Invoking
<1>5. \A i \in Invoking : i # n => stack'[i] = stack[i]
  BY <1>1, <1>3 DEF Invoking
<1> QED
  BY <1>1, <1>2, <1>3, <1>4, <1>5 DEF MoveInvocation

\* invoke adds an invocation.
LEMMA InvokeInvocation ==
  ASSUME TypeInv, NEW saved \in BOOLEAN, Invoke(saved)
  PROVE  NewInvocation
<1>1. PICK n \in Nat : n = Len(stack)
  BY DEF TypeInv, StackOK
<1>2. PICK f : Push(f) /\ f.kind = "invoke" /\ f.inv = Len(invs) + 1 /\ f.step = "handle"
  BY DEF Invoke
<1>3. Len(stack') = n + 1 /\ stack'[n + 1] = f /\ \A i \in 1..n : stack'[i] = stack[i]
  BY <1>1, <1>2, PushFrames
<1>4. Invoking' = Invoking \cup {n + 1}
  BY <1>1, <1>2, <1>3 DEF Invoking
<1>5. \A i \in Invoking : stack'[i] = stack[i]
  BY <1>1, <1>3 DEF Invoking
<1> QED
  BY <1>1, <1>2, <1>3, <1>4, <1>5 DEF NewInvocation

\* Its end removes it.
LEMMA FinishInvocation ==
  ASSUME TypeInv, NEW s \in {"return", "throw"}, Finish(s)
  PROVE  EndInvocation
<1>1. Running /\ Top.kind = "invoke" /\ Leave(s = "throw")
  BY DEF Finish, At
<1> QED
  BY <1>1, LeaveFrames, TopFrame DEF TypeInv, StackOK, EndInvocation

-----------------------------------------------------------------------------
\* An invocation with a frame above it runs its handler, dispatches or runs callbacks.
LEMMA WaitingInvocation ==
  ASSUME TypeInv, Shape, NEW i \in Invoking, i # Len(stack)
  PROVE  stack[i].step \in {"handle", "register", "afterCommit"}
<1>1. i \in 1..(Len(stack) - 1) /\ stack[i].kind = "invoke"
  BY DEF Invoking, TypeInv, StackOK
<1>2. Rests(stack[i], stack[i + 1])
  BY <1>1 DEF Shape, Adjacent
<1> QED
  BY <1>1, <1>2 DEF Rests

\* Where a command may be run, every invocation on the stack waits.
LEMMA CallableInvocation ==
  ASSUME TypeInv, Shape, MayCall, NEW i \in Invoking
  PROVE  stack[i].step \in {"handle", "register", "afterCommit"}
<1>1. CASE i # Len(stack)
  BY <1>1, WaitingInvocation
<1>2. CASE i = Len(stack)
  <2>1. stack[i].kind = "invoke" /\ Top = stack[i]
    BY <1>2 DEF Invoking, Top, Last
  <2>2. Running
    BY <1>2 DEF Invoking, Running, TypeInv, StackOK
  <2> QED
    BY <2>1, <2>2 DEF MayCall, At
<1> QED
  BY <1>1, <1>2

\* What the operations of SpringTransaction do, field by field.
LEMMA TxFields ==
  ASSUME TxOK
  PROVE  /\ Begin => tx'.phase = "active" /\ tx'.callbacks = <<>> /\ tx'.listeners = <<>>
                     /\ tx'.rollbackOnly = FALSE
         /\ End => tx'.phase = "none" /\ tx'.callbacks = <<>> /\ tx'.listeners = <<>>
                   /\ tx'.rollbackOnly = FALSE
         /\ SetRollbackOnly => tx'.phase = tx.phase /\ tx'.callbacks = tx.callbacks
                               /\ tx'.listeners = tx.listeners
         /\ \A c : RegisterCallback(c) =>
               /\ tx'.phase = tx.phase /\ tx'.callbacks = Append(tx.callbacks, c)
               /\ tx'.listeners = tx.listeners /\ tx'.rollbackOnly = tx.rollbackOnly
         /\ \A e : DeferListener(e) =>
               /\ tx'.phase = tx.phase /\ tx'.callbacks = tx.callbacks
               /\ tx'.listeners = Append(tx.listeners, e) /\ tx'.rollbackOnly = tx.rollbackOnly
         /\ EnterAfterCommit => tx'.phase = "afterCommit" /\ tx'.callbacks = tx.callbacks
                                /\ tx'.listeners = tx.listeners
                                /\ tx'.rollbackOnly = tx.rollbackOnly
         /\ CallbackTaken => tx'.phase = tx.phase /\ tx'.callbacks = Tail(tx.callbacks)
                             /\ tx'.listeners = tx.listeners
                             /\ tx'.rollbackOnly = tx.rollbackOnly
         /\ EnterAfterCompletion => tx'.phase = "afterCompletion" /\ tx'.callbacks = <<>>
                                    /\ tx'.listeners = tx.listeners
                                    /\ tx'.rollbackOnly = tx.rollbackOnly
         /\ ListenerTaken => tx'.phase = tx.phase /\ tx'.callbacks = tx.callbacks
                             /\ tx'.listeners = Tail(tx.listeners)
                             /\ tx'.rollbackOnly = tx.rollbackOnly
<1>3. Begin => tx'.phase = "active" /\ tx'.callbacks = <<>> /\ tx'.listeners = <<>>
               /\ tx'.rollbackOnly = FALSE
  BY DEF Begin, NoTx
<1>4. End => tx'.phase = "none" /\ tx'.callbacks = <<>> /\ tx'.listeners = <<>>
             /\ tx'.rollbackOnly = FALSE
  BY DEF End, NoTx
<1>5. SetRollbackOnly => tx'.phase = tx.phase /\ tx'.callbacks = tx.callbacks
                         /\ tx'.listeners = tx.listeners
  BY DEF SetRollbackOnly, TxOK, TxType
<1>6. ASSUME NEW c, RegisterCallback(c)
      PROVE  /\ tx'.phase = tx.phase /\ tx'.callbacks = Append(tx.callbacks, c)
             /\ tx'.listeners = tx.listeners /\ tx'.rollbackOnly = tx.rollbackOnly
  BY <1>6 DEF RegisterCallback, TxOK, TxType
<1>7. ASSUME NEW e, DeferListener(e)
      PROVE  /\ tx'.phase = tx.phase /\ tx'.callbacks = tx.callbacks
             /\ tx'.listeners = Append(tx.listeners, e) /\ tx'.rollbackOnly = tx.rollbackOnly
  BY <1>7 DEF DeferListener, TxOK, TxType
<1>8. EnterAfterCommit => tx'.phase = "afterCommit" /\ tx'.callbacks = tx.callbacks
                          /\ tx'.listeners = tx.listeners /\ tx'.rollbackOnly = tx.rollbackOnly
  BY DEF EnterAfterCommit, TxOK, TxType
<1>9. CallbackTaken => tx'.phase = tx.phase /\ tx'.callbacks = Tail(tx.callbacks)
                       /\ tx'.listeners = tx.listeners /\ tx'.rollbackOnly = tx.rollbackOnly
  BY DEF CallbackTaken, TxOK, TxType
<1>10. EnterAfterCompletion => tx'.phase = "afterCompletion" /\ tx'.callbacks = <<>>
                               /\ tx'.listeners = tx.listeners
                               /\ tx'.rollbackOnly = tx.rollbackOnly
  BY DEF EnterAfterCompletion, TxOK, TxType
<1>11. ListenerTaken => tx'.phase = tx.phase /\ tx'.callbacks = tx.callbacks
                        /\ tx'.listeners = Tail(tx.listeners) /\ tx'.rollbackOnly = tx.rollbackOnly
  BY DEF ListenerTaken, TxOK, TxType
<1> QED
  BY <1>3, <1>4, <1>5, <1>6, <1>7, <1>8, <1>9, <1>10, <1>11

-----------------------------------------------------------------------------
(***************************************************************************)
(* The transaction and the invocations.  At most one invocation on the     *)
(* stack has opened the transaction, the lowest one, and how far it has    *)
(* got says in which phase the transaction is.                             *)
(***************************************************************************)
PhaseAt(s) == IF s \in {"handle", "register", "stamp", "commit"} THEN "active"
              ELSE IF s \in {"afterCommit", "afterCompletion"} THEN s ELSE "none"

Phased(i) ==
    IF Of(i).opens
    THEN tx.phase = PhaseAt(stack[i].step)
    ELSE /\ tx.phase \in {"active", "afterCommit"}
         /\ stack[i].step \notin {"commit", "afterCommit", "afterCompletion"}

Txn ==
    /\ \A i \in Invoking : Phased(i)
    /\ tx.phase # "none" => \E i \in Invoking : Of(i).opens
    /\ \A i, j \in Invoking : i < j => ~Of(j).opens

\* What is known of an invocation that exists does not change.
KnownInvs ==
    /\ Len(invs') \in Nat /\ Len(invs') >= Len(invs)
    /\ \A n \in 1..Len(invs) :
          /\ invs'[n].req = invs[n].req /\ invs'[n].nested = invs[n].nested
          /\ invs'[n].joins = invs[n].joins /\ invs'[n].opens = invs[n].opens
          /\ invs'[n].cause = invs[n].cause /\ invs'[n].row = invs[n].row

\* Every step keeps what is known of the invocations.
LEMMA KnownInvsStep ==
  ASSUME TypeInv, Next
  PROVE  KnownInvs
<1>1. invs \in Seq(InvType) /\ Len(invs) \in Nat
  BY DEF TypeInv, HistoryOK
<1>2. CASE SameInvs
  BY <1>1, <1>2 DEF SameInvs, KnownInvs
<1>3. ASSUME NEW saved \in BOOLEAN, Invoke(saved)
      PROVE  KnownInvs
  <2>1. \E r : invs' = Append(invs, r)
    BY <1>3 DEF Invoke
  <2> QED
    BY <1>1, <2>1 DEF KnownInvs
<1> QED
  BY <1>2, <1>3, InvsStep

\* The invocation of a frame keeps its identity.
LEMMA KnownOf ==
  ASSUME TypeInv, KnownInvs, NEW i \in Invoking, stack'[i].inv = stack[i].inv
  PROVE  /\ Of(i)'.req = Of(i).req /\ Of(i)'.nested = Of(i).nested
         /\ Of(i)'.opens = Of(i).opens /\ Of(i)'.joins = Of(i).joins
         /\ Of(i)'.row = Of(i).row
<1>1. stack[i].inv \in 1..Len(invs)
  BY DEF TypeInv, StackOK
<1> QED
  BY <1>1 DEF KnownInvs, Of

\* Neither the invocations nor the phase of the transaction changes.
LEMMA TxnKept ==
  ASSUME TypeInv, Txn, KnownInvs, SameInvocations, tx'.phase = tx.phase
  PROVE  Txn'
<1>1. \A i \in Invoking : Of(i)'.opens = Of(i).opens
  BY KnownOf DEF SameInvocations
<1>2. \A i \in Invoking' : Phased(i)'
  BY <1>1 DEF SameInvocations, Txn, Phased
<1>3. tx'.phase # "none" => \E i \in Invoking' : Of(i)'.opens
  BY <1>1 DEF SameInvocations, Txn
<1>4. \A i, j \in Invoking' : i < j => ~Of(j)'.opens
  BY <1>1 DEF SameInvocations, Txn
<1> QED
  BY <1>2, <1>3, <1>4 DEF Txn

\* Only the last frame's invocation moves; if it opened the transaction, there is no
\* other.
LEMMA TxnMoves ==
  ASSUME TypeInv, Txn, KnownInvs, NEW s \in InvokeSteps, MoveInvocation(s),
         IF Inv.opens THEN tx'.phase = PhaseAt(s)
         ELSE tx'.phase = tx.phase /\ s \notin {"commit", "afterCommit", "afterCompletion"}
  PROVE  Txn'
<1>1. PICK n \in Nat : n = Len(stack)
  BY DEF TypeInv, StackOK
<1>2. /\ n \in Invoking /\ Invoking' = Invoking /\ Inv = Of(n)
      /\ \A i \in Invoking : i \in 1..n
      /\ \A i \in Invoking : stack'[i].inv = stack[i].inv
      /\ \A i \in Invoking : i # n => stack'[i].step = stack[i].step
      /\ stack'[n].step = s
  BY <1>1 DEF MoveInvocation, Invoking, Inv, Of, Top, Last
<1>7. \A i \in Invoking : i # n => i < n
  BY <1>1 DEF Invoking
<1>3. \A i \in Invoking : Of(i)'.opens = Of(i).opens
  BY <1>2, KnownOf
<1>4. \A i, j \in Invoking' : i < j => ~Of(j)'.opens
  BY <1>2, <1>3 DEF Txn
<1>5. CASE Inv.opens
  <2>1. \A i \in Invoking : i = n
    <3> TAKE i \in Invoking
    <3>1. i # n => i < n
      BY <1>7
    <3> QED
      BY <1>2, <1>5, <3>1 DEF Txn
  <2>2. Phased(n)' /\ Of(n)'.opens
    BY <1>2, <1>3, <1>5 DEF Phased
  <2>3. \A i \in Invoking' : Phased(i)'
    BY <1>2, <2>1, <2>2
  <2>4. \E i \in Invoking' : Of(i)'.opens
    BY <1>2, <2>2
  <2> QED
    BY <1>4, <2>3, <2>4 DEF Txn
<1>6. CASE ~Inv.opens
  <2>1. tx'.phase = tx.phase /\ s \notin {"commit", "afterCommit", "afterCompletion"}
    BY <1>6
  <2>2. \A i \in Invoking' : Phased(i)'
    <3> TAKE i \in Invoking'
    <3>1. Phased(i) /\ Of(i)'.opens = Of(i).opens
      BY <1>2, <1>3 DEF Txn
    <3>2. CASE i = n
      BY <1>2, <1>6, <2>1, <3>1, <3>2 DEF Phased
    <3>3. CASE i # n
      BY <1>2, <2>1, <3>1, <3>3 DEF Phased
    <3> QED
      BY <3>2, <3>3
  <2>3. tx'.phase # "none" => \E i \in Invoking' : Of(i)'.opens
    BY <1>2, <1>3, <2>1 DEF Txn
  <2> QED
    BY <1>4, <2>2, <2>3 DEF Txn
<1> QED
  BY <1>5, <1>6

\* Where a command may be run, either there is no transaction and no invocation on
\* the stack, or the transaction has somebody's synchronization active.
LEMMA CallablePhase ==
  ASSUME TypeInv, Shape, Txn, MayCall
  PROVE  /\ tx.phase = "none" => Invoking = {}
         /\ tx.phase # "none" => SynchronizationActive /\ Invoking # {}
<1>1. \A i \in Invoking : Phased(i) /\ stack[i].step \in {"handle", "register", "afterCommit"}
  BY CallableInvocation DEF Txn
<1>2. \A i \in Invoking : tx.phase \in {"active", "afterCommit"}
  BY <1>1 DEF Phased, PhaseAt
<1>3. tx.phase # "none" => \E i \in Invoking : Of(i).opens
  BY DEF Txn
<1> QED
  BY <1>2, <1>3 DEF SynchronizationActive

\* invoke opens a transaction only where there is none, and no invocation either.
LEMMA InvokeTxn ==
  ASSUME TypeInv, Shape, Txn, NEW saved \in BOOLEAN, Invoke(saved)
  PROVE  Txn'
<1>1. PICK n \in Nat : n = Len(stack)
  BY DEF TypeInv, StackOK
<1>2. /\ MayCall /\ KnownInvs /\ NewInvocation
      /\ Len(invs') = Len(invs) + 1 /\ invs'[Len(invs) + 1].opens = ~InTransaction
      /\ IF ~InTransaction THEN Begin ELSE UNCHANGED tx
  <2>1. \E r : invs' = Append(invs, r) /\ r.opens = ~InTransaction
    BY DEF Invoke
  <2>2. Len(invs') = Len(invs) + 1 /\ invs'[Len(invs) + 1].opens = ~InTransaction
    BY <2>1 DEF TypeInv, HistoryOK
  <2>3. KnownInvs
    BY KnownInvsStep DEF Next, Call
  <2> QED
    BY <2>2, <2>3, InvokeInvocation DEF Invoke
<1>3. /\ Invoking' = Invoking \cup {n + 1}
      /\ \A i \in Invoking : stack'[i].inv = stack[i].inv /\ stack'[i].step = stack[i].step
      /\ stack'[n + 1].inv = Len(invs) + 1 /\ stack'[n + 1].step = "handle"
      /\ \A i \in Invoking : i \in 1..n
  BY <1>1, <1>2 DEF NewInvocation, Invoking
<1>4. \A i \in Invoking : Of(i)'.opens = Of(i).opens
  BY <1>2, <1>3, KnownOf
<1>5. Of(n + 1)'.opens = ~InTransaction
  BY <1>2, <1>3 DEF Of
<1>6. CASE ~InTransaction
  <2>1. Invoking = {} /\ Begin
    BY <1>2, <1>6, CallablePhase DEF InTransaction
  <2>2. tx'.phase = "active"
    BY <2>1, TxFields DEF TypeInv
  <2>3. Invoking' = {n + 1} /\ Of(n + 1)'.opens
    BY <1>3, <1>5, <1>6, <2>1
  <2>4. Phased(n + 1)'
    BY <1>3, <2>2, <2>3 DEF Phased, PhaseAt
  <2> QED
    BY <2>3, <2>4 DEF Txn
<1>7. CASE InTransaction
  <2>1. SynchronizationActive /\ UNCHANGED tx
    BY <1>2, <1>7, CallablePhase DEF InTransaction
  <2>2. ~Of(n + 1)'.opens
    BY <1>5, <1>7
  <2>3. Phased(n + 1)'
    BY <1>3, <2>1, <2>2 DEF Phased, SynchronizationActive
  <2>4. \A i \in Invoking : Phased(i)'
    BY <1>3, <1>4, <2>1 DEF Txn, Phased
  <2>5. \A i \in Invoking' : Phased(i)'
    BY <1>3, <2>3, <2>4
  <2>6. \E i \in Invoking' : Of(i)'.opens
    BY <1>3, <1>4, <1>7 DEF Txn, InTransaction
  <2>7. \A i, j \in Invoking' : i < j => ~Of(j)'.opens
    BY <1>3, <1>4, <2>2 DEF Txn
  <2> QED
    BY <2>5, <2>6, <2>7 DEF Txn
<1> QED
  BY <1>6, <1>7

\* An invocation that ends has no transaction of its own left.
LEMMA FinishTxn ==
  ASSUME TypeInv, Txn, NEW s \in {"return", "throw"}, Finish(s)
  PROVE  Txn'
<1>1. PICK n \in Nat : n = Len(stack)
  BY DEF TypeInv, StackOK
<1>2. EndInvocation /\ KnownInvs /\ UNCHANGED tx /\ Top.step = s
  <2>1. KnownInvs
    BY KnownInvsStep DEF Next, Proceed
  <2> QED
    BY <2>1, FinishInvocation DEF Finish, At
<1>3. /\ n \in Invoking /\ Invoking' = Invoking \ {n} /\ stack[n].step = s
      /\ \A i \in Invoking' : stack'[i].inv = stack[i].inv /\ stack'[i].step = stack[i].step
      /\ \A i \in Invoking' : i \in 1..n /\ i < n
  BY <1>1, <1>2 DEF EndInvocation, Invoking, Top, Last
<1>4. \A i \in Invoking' : i \in Invoking /\ Of(i)'.opens = Of(i).opens
  BY <1>2, <1>3, KnownOf
<1>5. \A i \in Invoking' : Phased(i)'
  BY <1>2, <1>3, <1>4 DEF Txn, Phased
<1>6. tx'.phase # "none" => \E i \in Invoking' : Of(i)'.opens
  <2>1. Of(n).opens => tx.phase = "none"
    BY <1>3 DEF Txn, Phased, PhaseAt
  <2> QED
    BY <1>2, <1>3, <1>4, <2>1 DEF Txn
<1>7. \A i, j \in Invoking' : i < j => ~Of(j)'.opens
  BY <1>4 DEF Txn
<1> QED
  BY <1>5, <1>6, <1>7 DEF Txn

\* Every step keeps transaction and invocations in agreement.
LEMMA TxnStep ==
  ASSUME TypeInv, Shape, Txn, [Next]_vars
  PROVE  Txn'
<1>0. CASE UNCHANGED vars
  <2>1. UNCHANGED <<tx, stack, invs>>
    BY <1>0 DEF vars
  <2>2. KnownInvs
    BY <2>1 DEF KnownInvs, TypeInv, HistoryOK
  <2>3. SameInvocations
    BY <2>1, KeepsInvocations
  <2> QED
    BY <2>1, <2>2, <2>3, TxnKept
<1> SUFFICES ASSUME Next PROVE Txn'
  BY <1>0
<1>1. KnownInvs /\ TxOK
  BY KnownInvsStep DEF TypeInv
<1>2. ASSUME Running, Top.kind = "invoke"
      PROVE  IF Inv.opens THEN tx.phase = PhaseAt(Top.step)
             ELSE Top.step \notin {"commit", "afterCommit", "afterCompletion"}
  <2>1. Len(stack) \in Invoking /\ Inv = Of(Len(stack)) /\ Top = stack[Len(stack)]
    BY <1>2, TopInvocation
  <2>2. Phased(Len(stack))
    BY <2>1 DEF Txn
  <2> QED
    BY <2>1, <2>2 DEF Phased
<1>3. ASSUME Running, Top.kind = "invoke", NEW s \in InvokeSteps, Goto(s),
             IF Inv.opens THEN tx'.phase = PhaseAt(s)
             ELSE tx'.phase = tx.phase /\ s \notin {"commit", "afterCommit", "afterCompletion"}
      PROVE  Txn'
  BY <1>1, <1>3, MovesInvocation, TxnMoves
<1>4. CASE Proceed
  <2>1. CASE \E nNow, nLater \in 0..MaxEvents : HandlerReturns(nNow, nLater)
    <3>1. MoveInvocation("register") /\ "register" \in InvokeSteps
      BY <2>1, DispatchMoves DEF InvokeSteps
    <3>2. Running /\ Top.kind = "invoke" /\ Top.step = "handle" /\ UNCHANGED tx
      BY <2>1 DEF HandlerReturns, At
    <3> QED
      BY <1>1, <1>2, <3>1, <3>2, TxnMoves DEF PhaseAt
  <2>2. CASE HandlerThrows
    <3>1. /\ Running /\ Top.kind = "invoke" /\ Top.step = "handle" /\ UNCHANGED tx
          /\ Goto("register") /\ "register" \in InvokeSteps
      BY <2>2 DEF HandlerThrows, At, InvokeSteps
    <3> QED
      BY <1>2, <1>3, <3>1 DEF PhaseAt
  <2>3. CASE RegisterDeferred
    <3>1. /\ Running /\ Top.kind = "invoke" /\ Top.step = "register"
          /\ Goto("stamp") /\ "stamp" \in InvokeSteps
      BY <2>3 DEF RegisterDeferred, At, InvokeSteps
    <3>2. tx'.phase = tx.phase
      BY <1>1, <2>3, TxFields DEF RegisterDeferred
    <3> QED
      BY <1>2, <1>3, <3>1, <3>2 DEF PhaseAt
  <2>4. CASE StampSuccess
    <3>1. /\ Running /\ Top.kind = "invoke" /\ Top.step = "stamp" /\ UNCHANGED tx
          /\ Goto(IF Inv.opens THEN "commit" ELSE "return")
      BY <2>4 DEF StampSuccess, At
    <3>2. "commit" \in InvokeSteps /\ "return" \in InvokeSteps
      BY DEF InvokeSteps
    <3> QED
      BY <1>2, <1>3, <3>1, <3>2 DEF PhaseAt
  <2>5. CASE Commits
    <3>1. /\ Running /\ Top.kind = "invoke" /\ Top.step = "commit" /\ EnterAfterCommit
          /\ Goto("afterCommit") /\ "afterCommit" \in InvokeSteps
      BY <2>5 DEF Commits, At, InvokeSteps
    <3>2. tx'.phase = "afterCommit"
      BY <1>1, <3>1, TxFields
    <3> QED
      BY <1>2, <1>3, <3>1, <3>2 DEF PhaseAt
  <2>6. CASE CommitThrows
    <3>1. /\ Running /\ Top.kind = "invoke" /\ Top.step = "commit" /\ End
          /\ Goto("stampFailure") /\ "stampFailure" \in InvokeSteps
      BY <2>6 DEF CommitThrows, At, InvokeSteps
    <3>2. tx'.phase = "none"
      BY <1>1, <3>1, TxFields
    <3> QED
      BY <1>2, <1>3, <3>1, <3>2 DEF PhaseAt
  <2>7. CASE UnexpectedRollback \/ Completed
    <3>1. /\ Running /\ Top.kind = "invoke" /\ Top.step \in {"commit", "afterCompletion"}
          /\ End /\ Goto("return") /\ "return" \in InvokeSteps
      BY <2>7 DEF UnexpectedRollback, Completed, At, InvokeSteps
    <3>2. tx'.phase = "none"
      BY <1>1, <3>1, TxFields
    <3> QED
      BY <1>2, <1>3, <3>1, <3>2 DEF PhaseAt
  <2>8. CASE CallbacksDone
    <3>1. /\ Running /\ Top.kind = "invoke" /\ Top.step = "afterCommit"
          /\ EnterAfterCompletion /\ Goto("afterCompletion") /\ "afterCompletion" \in InvokeSteps
      BY <2>8 DEF CallbacksDone, At, InvokeSteps
    <3>2. tx'.phase = "afterCompletion"
      BY <1>1, <3>1, TxFields
    <3> QED
      BY <1>2, <1>3, <3>1, <3>2 DEF PhaseAt
  <2>9. CASE Abort
    <3>1. /\ Running /\ Top.kind = "invoke" /\ Goto("stampFailure")
          /\ "stampFailure" \in InvokeSteps /\ (Inv.opens => End) /\ (~Inv.opens => UNCHANGED tx)
      BY <2>9 DEF Abort, InvokeSteps
    <3>2. Inv.opens => tx'.phase = "none"
      BY <1>1, <3>1, TxFields
    <3> QED
      BY <1>3, <3>1, <3>2 DEF PhaseAt
  <2>10. CASE StampFailure \/ MarkEventsFailed \/ FailureStampThrows
    <3>1. /\ Running /\ Top.kind = "invoke" /\ Top.step \in {"stampFailure", "markFailed"}
          /\ UNCHANGED tx
      BY <2>10 DEF StampFailure, MarkEventsFailed, FailureStampThrows, At
    <3>2. \E s \in {"markFailed", "throw"} : Goto(s)
      BY <2>10 DEF StampFailure, MarkEventsFailed, FailureStampThrows
    <3>3. {"markFailed", "throw"} \subseteq InvokeSteps
      BY DEF InvokeSteps
    <3> QED
      BY <1>2, <1>3, <3>1, <3>2, <3>3 DEF PhaseAt
  <2>11. CASE \E s \in {"return", "throw"} : Finish(s)
    BY <2>11, FinishTxn
  <2>12. CASE \/ StampSuccessThrows \/ PublishRaw \/ PublishDone \/ PublishThrows
              \/ PolicyReturns \/ PolicyThrows \/ PolicyCatches \/ HandlerCatches
    <3>1. SameInvocations /\ UNCHANGED tx
      BY <2>12, KeepsInvocations DEF StampSuccessThrows, PublishRaw, PublishDone, PublishThrows,
            PolicyReturns, PolicyThrows, PolicyCatches, HandlerCatches
    <3> QED
      BY <1>1, <3>1, TxnKept
  <2>13. CASE RunCallback
    <3>1. SameInvocations /\ CallbackTaken
      BY <2>13, KeepsInvocations DEF RunCallback
    <3> QED
      BY <1>1, <3>1, TxFields, TxnKept
  <2>14. CASE \E saved \in BOOLEAN : LogDeferred(saved)
    <3>1. SameInvocations /\ ListenerTaken
      BY <2>14, KeepsInvocations DEF LogDeferred
    <3> QED
      BY <1>1, <3>1, TxFields, TxnKept
  <2>15. CASE \E saved \in BOOLEAN : PublishWrapper(saved)
    <3>1. SameInvocations
      BY <2>15, KeepsInvocations
    <3>2. UNCHANGED tx \/ \E e : DeferListener(e)
      BY <2>15 DEF PublishWrapper
    <3>3. tx'.phase = tx.phase
      BY <1>1, <3>2, TxFields
    <3> QED
      BY <1>1, <3>1, <3>3, TxnKept
  <2> QED
    BY <1>4, <2>1, <2>2, <2>3, <2>4, <2>5, <2>6, <2>7, <2>8, <2>9, <2>10, <2>11, <2>12, <2>13,
       <2>14, <2>15 DEF Proceed
<1>5. CASE Call
  <2>1. CASE \E saved \in BOOLEAN : Invoke(saved)
    BY <2>1, InvokeTxn
  <2>2. CASE \E timing \in Publishes : PublishExternal(timing)
    <3>1. SameInvocations /\ UNCHANGED tx
      BY <2>2, KeepsInvocations DEF PublishExternal
    <3> QED
      BY <1>1, <3>1, TxnKept
  <2>3. CASE ParticipantFails
    <3>1. SameInvocations /\ SetRollbackOnly
      BY <2>3, KeepsInvocations DEF ParticipantFails
    <3> QED
      BY <1>1, <3>1, TxFields, TxnKept
  <2> QED
    BY <1>5, <2>1, <2>2, <2>3 DEF Call
<1>6. CASE Crash
  <2>1. stack' = <<>> /\ End
    BY <1>6 DEF Crash
  <2>2. Invoking' = {} /\ tx'.phase = "none"
    BY <1>1, <2>1, TxFields DEF Invoking
  <2> QED
    BY <2>2 DEF Txn
<1> QED
  BY <1>4, <1>5, <1>6 DEF Next

-----------------------------------------------------------------------------
(***************************************************************************)
(* The request id in MDC.  All invocations on the stack belong to one      *)
(* request, and MDC holds its id except while the one that opened the      *)
(* transaction is past its commit; whatever is still to be run for the     *)
(* transaction carries that id along.  A publication that opened a request *)
(* has no invocation below it.                                             *)
(***************************************************************************)
TxReqs(r) ==
    /\ \A c \in 1..Len(tx.callbacks) : tx.callbacks[c].req = r
    /\ \A k \in 1..Len(tx.listeners) : tx.listeners[k].req = r

OneRequest ==
    \A i \in Invoking :
        /\ mdc \in {0, Of(i).req}
        /\ TxReqs(Of(i).req)
        /\ \A j \in Invoking : Of(i).req = Of(j).req /\ (i < j => Of(j).nested)

MdcCleared ==
    mdc = 0 /\ Running =>
        \/ Invoking = {}
        \/ /\ Top.kind = "invoke" /\ Inv.opens
           /\ Top.step \in {"afterCommit", "afterCompletion", "return"}

PublishedFor ==
    \A i \in Publishing, j \in Invoking :
        /\ j < i => stack[i].req = Of(j).req
        /\ stack[i].opened => i < j

BottomFrame ==
    /\ Running => \/ 1 \in Invoking /\ ~Of(1).nested
                  \/ 1 \in Publishing /\ stack[1].opened
    /\ ~Running => mdc = 0

Mdc == OneRequest /\ MdcCleared /\ PublishedFor /\ BottomFrame

\* No frame but perhaps a listener is new.
KeptFrames ==
    /\ Invoking' \subseteq Invoking /\ Publishing' \subseteq Publishing
    /\ \A i \in Invoking' : stack'[i].inv = stack[i].inv
    /\ \A i \in Publishing' : /\ stack'[i].req = stack[i].req
                              /\ stack'[i].opened = stack[i].opened
                              /\ stack'[i].mode = stack[i].mode
    /\ Running' => /\ Running
                   /\ 1 \in Invoking => 1 \in Invoking'
                   /\ 1 \in Publishing => 1 \in Publishing'

\* The steps that push no invocation and no publication keep the frames.
LEMMA KeepsFrames ==
  ASSUME TypeInv, \/ UNCHANGED stack
                  \/ Running /\ \E throws \in BOOLEAN : Leave(throws)
                  \/ Running /\ Top.kind = "invoke" /\ \E s \in InvokeSteps : Goto(s)
                  \/ \E saved \in BOOLEAN : PublishWrapper(saved)
                  \/ PublishRaw
                  \/ stack' = <<>>
  PROVE  KeptFrames
<1>1. PICK n \in Nat : n = Len(stack)
  BY DEF TypeInv, StackOK
<1>2. stack \in Seq(FrameType) /\ (Running <=> n # 0)
  BY <1>1 DEF TypeInv, StackOK, Running
<1>3. CASE UNCHANGED stack
  BY <1>3 DEF KeptFrames, Invoking, Publishing, Running
<1>4. ASSUME Running, NEW throws \in BOOLEAN, Leave(throws)
      PROVE  KeptFrames
  <2>1. /\ stack' \in Seq(FrameType) /\ Len(stack') = n - 1
        /\ \A i \in 1..(n - 1) : stack'[i] = stack[i]
    BY <1>1, <1>2, <1>4, LeaveStack
  <2>2. /\ \A i \in Invoking' : i \in Invoking /\ stack'[i] = stack[i]
        /\ \A i \in Publishing' : i \in Publishing /\ stack'[i] = stack[i]
    BY <1>1, <2>1 DEF Invoking, Publishing
  <2>3. Running' => 1 \in 1..(n - 1)
    BY <1>1, <1>2, <1>4, <2>1 DEF Running
  <2>4. Running' => /\ 1 \in Invoking => 1 \in Invoking'
                    /\ 1 \in Publishing => 1 \in Publishing'
    BY <2>1, <2>3 DEF Invoking, Publishing
  <2> QED
    BY <1>4, <2>2, <2>4 DEF KeptFrames
<1>5. ASSUME Running, n # 0, Len(stack') = n, stack' \in Seq(FrameType),
             \A i \in 1..n : i # n => stack'[i] = stack[i],
             stack'[n].kind = stack[n].kind,
             stack[n].kind = "invoke" => stack'[n].inv = stack[n].inv,
             stack[n].kind = "publish" => /\ stack'[n].req = stack[n].req
                                          /\ stack'[n].opened = stack[n].opened
                                          /\ stack'[n].mode = stack[n].mode
      PROVE  KeptFrames
  <2>1. /\ \A i \in Invoking' : i \in Invoking /\ stack'[i].inv = stack[i].inv
        /\ \A i \in Publishing' : i \in Publishing /\ stack'[i].req = stack[i].req
              /\ stack'[i].opened = stack[i].opened /\ stack'[i].mode = stack[i].mode
    BY <1>1, <1>5 DEF Invoking, Publishing
  <2>2. 1 \in 1..n
    BY <1>5
  <2>3. /\ 1 \in Invoking => 1 \in Invoking'
        /\ 1 \in Publishing => 1 \in Publishing'
    BY <1>1, <1>5, <2>2 DEF Invoking, Publishing
  <2> QED
    BY <1>5, <2>1, <2>3 DEF KeptFrames
<1>6. ASSUME Running, Top.kind = "invoke", NEW s \in InvokeSteps, Goto(s)
      PROVE  KeptFrames
  <2>1. Top = stack[n] /\ n # 0
    BY <1>1, <1>2, <1>6, TopFrame
  <2> QED
    BY <1>1, <1>2, <1>5, <1>6, <2>1, GotoStack
<1>7. ASSUME NEW saved \in BOOLEAN, PublishWrapper(saved)
      PROVE  KeptFrames
  <2>1. WrapperFrames /\ Running /\ Top.kind = "publish" /\ Top = stack[n] /\ n # 0
    BY <1>1, <1>2, <1>7, PublishWrapperEffect DEF PublishWrapper, At, Top, Last
  <2> QED
    BY <1>1, <1>5, <2>1 DEF WrapperFrames
<1>8. CASE PublishRaw
  <2>1. ListenFrames /\ Running /\ Top.kind = "publish" /\ Top = stack[n] /\ n # 0
    BY <1>1, <1>2, <1>8, PublishRawEffect DEF PublishRaw, At, Top, Last
  <2>2. /\ Len(stack') = n + 1 /\ \A i \in 1..(n - 1) : stack'[i] = stack[i]
        /\ stack'[n].kind = "publish" /\ stack'[n].mode = Top.mode
        /\ stack'[n].req = Top.req /\ stack'[n].opened = Top.opened
        /\ stack'[n + 1].kind = "policy"
    BY <1>1, <2>1 DEF ListenFrames
  <2>3. /\ \A i \in Invoking' : i \in Invoking /\ stack'[i] = stack[i]
        /\ \A i \in Publishing' : i \in Publishing /\ stack'[i].req = stack[i].req
              /\ stack'[i].opened = stack[i].opened /\ stack'[i].mode = stack[i].mode
    BY <1>1, <2>1, <2>2 DEF Invoking, Publishing
  <2>4. 1 \in 1..n
    BY <2>1
  <2>5. /\ 1 \in Invoking => 1 \in Invoking'
        /\ 1 \in Publishing => 1 \in Publishing'
    BY <1>1, <2>1, <2>2, <2>4 DEF Invoking, Publishing
  <2> QED
    BY <2>1, <2>3, <2>5 DEF KeptFrames
<1>9. CASE stack' = <<>>
  <2>1. Len(stack') = 0 /\ ~Running'
    BY <1>9 DEF Running
  <2>2. Invoking' = {} /\ Publishing' = {}
    BY <2>1 DEF Invoking, Publishing
  <2> QED
    BY <2>1, <2>2 DEF KeptFrames
<1> QED
  BY <1>3, <1>4, <1>6, <1>7, <1>8, <1>9

\* Whatever is deferred to the end of the transaction belongs to its request.
LEMMA TxReqsStep ==
  ASSUME TxOK, NEW r, TxReqs(r),
         \/ UNCHANGED tx \/ SetRollbackOnly \/ EnterAfterCommit \/ EnterAfterCompletion \/ End
         \/ \E c \in CallbackType : c.req = r /\ RegisterCallback(c)
         \/ \E d \in ListenerType : d.req = r /\ DeferListener(d)
         \/ tx.due > 0 /\ CallbackTaken
         \/ tx.listeners # <<>> /\ ListenerTaken
  PROVE  TxReqs(r)'
<1>1. /\ tx.callbacks \in Seq(CallbackType) /\ tx.listeners \in Seq(ListenerType)
      /\ tx.due \in Nat /\ tx.due <= Len(tx.callbacks)
  BY DEF TxOK, TxType
<1>2. Len(<<>>) = 0
  OBVIOUS
<1>3. CASE tx'.callbacks = tx.callbacks /\ tx'.listeners = tx.listeners
  BY <1>3 DEF TxReqs
<1>4. CASE tx'.callbacks = <<>> /\ (tx'.listeners = tx.listeners \/ tx'.listeners = <<>>)
  BY <1>2, <1>4 DEF TxReqs
<1>5. ASSUME NEW c \in CallbackType, c.req = r, RegisterCallback(c)
      PROVE  TxReqs(r)'
  <2>1. tx'.callbacks = Append(tx.callbacks, c) /\ tx'.listeners = tx.listeners
    BY <1>5, TxFields
  <2> QED
    BY <1>1, <1>5, <2>1 DEF TxReqs
<1>6. ASSUME NEW d \in ListenerType, d.req = r, DeferListener(d)
      PROVE  TxReqs(r)'
  <2>1. tx'.listeners = Append(tx.listeners, d) /\ tx'.callbacks = tx.callbacks
    BY <1>6, TxFields
  <2> QED
    BY <1>1, <1>6, <2>1 DEF TxReqs
<1>7. CASE tx.due > 0 /\ CallbackTaken
  <2>1. tx'.callbacks = Tail(tx.callbacks) /\ tx'.listeners = tx.listeners
    BY <1>7, TxFields
  <2>2. tx.callbacks # <<>>
    BY <1>1, <1>2, <1>7
  <2> QED
    BY <1>1, <2>1, <2>2 DEF TxReqs
<1>8. CASE tx.listeners # <<>> /\ ListenerTaken
  <2>1. tx'.listeners = Tail(tx.listeners) /\ tx'.callbacks = tx.callbacks
    BY <1>8, TxFields
  <2> QED
    BY <1>1, <1>8, <2>1 DEF TxReqs
<1>9. UNCHANGED tx \/ SetRollbackOnly \/ EnterAfterCommit =>
         tx'.callbacks = tx.callbacks /\ tx'.listeners = tx.listeners
  BY TxFields
<1>10. EnterAfterCompletion \/ End =>
         tx'.callbacks = <<>> /\ (tx'.listeners = tx.listeners \/ tx'.listeners = <<>>)
  BY TxFields
<1> QED
  BY <1>3, <1>4, <1>5, <1>6, <1>7, <1>8, <1>9, <1>10

-----------------------------------------------------------------------------
\* Fewer invocations, and MDC still holds their id or nothing.
LEMMA OneRequestKept ==
  ASSUME TypeInv, OneRequest, KnownInvs, Invoking' \subseteq Invoking,
         \A i \in Invoking' : stack'[i].inv = stack[i].inv,
         \A i \in Invoking' : mdc' \in {0, mdc, Of(i).req},
         \A i \in Invoking : \A r \in {Of(i).req} : TxReqs(r) => TxReqs(r)'
  PROVE  OneRequest'
<1>1. \A i \in Invoking' : /\ i \in Invoking /\ Of(i)'.req = Of(i).req
                           /\ Of(i)'.nested = Of(i).nested
  BY KnownOf
<1>2. ASSUME NEW i \in Invoking'
      PROVE  /\ mdc' \in {0, Of(i)'.req} /\ TxReqs(Of(i).req)'
             /\ \A j \in Invoking' : Of(i)'.req = Of(j)'.req /\ (i < j => Of(j)'.nested)
  <2>1. i \in Invoking /\ mdc \in {0, Of(i).req} /\ TxReqs(Of(i).req) /\ Of(i)'.req = Of(i).req
    BY <1>1 DEF OneRequest
  <2>2. mdc' \in {0, Of(i)'.req}
    BY <2>1
  <2>3. TxReqs(Of(i).req)'
    <3>1. PICK r : r = Of(i).req
      OBVIOUS
    <3>2. TxReqs(r)'
      BY <2>1, <3>1
    <3> QED
      BY <2>1, <3>1, <3>2 DEF TxReqs
  <2>4. \A j \in Invoking' : Of(i)'.req = Of(j)'.req /\ (i < j => Of(j)'.nested)
    BY <1>1, <2>1 DEF OneRequest
  <2> QED
    BY <2>2, <2>3, <2>4
<1> QED
  BY <1>2 DEF OneRequest

\* No new publication.
LEMMA PublishedForKept ==
  ASSUME TypeInv, PublishedFor, KnownInvs, KeptFrames
  PROVE  PublishedFor'
<1>1. \A i \in Invoking' : i \in Invoking /\ Of(i)'.req = Of(i).req
  BY KnownOf DEF KeptFrames
<1> QED
  BY <1>1 DEF KeptFrames, PublishedFor

\* The frame at the bottom stays until the stack is empty.
LEMMA BottomFrameKept ==
  ASSUME TypeInv, BottomFrame, KnownInvs, KeptFrames, ~Running' => mdc' = 0
  PROVE  BottomFrame'
<1>1. \A i \in Invoking' : i \in Invoking /\ Of(i)'.nested = Of(i).nested
  BY KnownOf DEF KeptFrames
<1>2. Running' => Running /\ (1 \in Invoking => 1 \in Invoking')
                  /\ (1 \in Publishing => 1 \in Publishing' /\ stack'[1].opened = stack[1].opened)
  BY DEF KeptFrames
<1>3. Running' => \/ 1 \in Invoking' /\ ~Of(1)'.nested
                  \/ 1 \in Publishing' /\ stack'[1].opened
  <2> HAVE Running'
  <2>1. CASE 1 \in Invoking /\ ~Of(1).nested
    BY <1>1, <1>2, <2>1
  <2>2. CASE 1 \in Publishing /\ stack[1].opened
    BY <1>2, <2>2
  <2> QED
    BY <1>2, <2>1, <2>2 DEF BottomFrame
<1> QED
  BY <1>3 DEF BottomFrame

\* The invocation that opened the transaction, as the last frame, is the only one.
LEMMA OnlyOpener ==
  ASSUME TypeInv, Txn, Running, Top.kind = "invoke", Inv.opens
  PROVE  Invoking = {Len(stack)}
<1>1. PICK n \in Nat : n = Len(stack)
  BY DEF TypeInv, StackOK
<1>2. n \in Invoking /\ Inv = Of(n) /\ \A i \in Invoking : i \in 1..n
  BY <1>1, TopInvocation DEF Invoking
<1>3. \A i \in Invoking : i # n => i < n
  BY <1>1, <1>2
<1>4. \A i \in Invoking : ~(i < n)
  BY <1>2 DEF Txn
<1> QED
  BY <1>1, <1>2, <1>3, <1>4

\* With an invocation on the stack that is not past its commit as the last frame,
\* MDC holds the request of all of them.
LEMMA MdcSet ==
  ASSUME TypeInv, OneRequest, MdcCleared, Running, NEW i \in Invoking,
         Top.kind = "invoke" =>
            Top.step \notin {"afterCommit", "afterCompletion", "return"} \/ ~Inv.opens
  PROVE  mdc # 0 /\ mdc = Of(i).req
<1>1. mdc # 0
  BY DEF MdcCleared
<1> QED
  BY <1>1 DEF OneRequest

\* MDC stays as it is while no invocation is the last frame.
LEMMA ClearedKept ==
  ASSUME MdcCleared, mdc' = mdc, KeptFrames, Running => Top.kind # "invoke"
  PROVE  MdcCleared'
<1>1. mdc' = 0 /\ Running' => Invoking' = {}
  BY DEF KeptFrames, MdcCleared
<1> QED
  BY <1>1 DEF MdcCleared

\* A step of the last frame's invocation from one place to another.
LEMMA GotoMdc ==
  ASSUME TypeInv, Txn, Mdc, KnownInvs, Running, Top.kind = "invoke", NEW s \in InvokeSteps, Goto(s),
         Inv.opens /\ Top.step \in {"afterCommit", "afterCompletion", "return"} =>
            s \in {"afterCommit", "afterCompletion", "return"},
         mdc' = mdc,
         \/ UNCHANGED tx \/ EnterAfterCommit \/ EnterAfterCompletion \/ End
         \/ \E c \in CallbackType : c.req = Inv.req /\ RegisterCallback(c)
  PROVE  Mdc'
<1>1. KeptFrames
  BY KeepsFrames
<1>2. PICK n \in Nat : n = Len(stack)
  BY DEF TypeInv, StackOK
<1>3. n \in Invoking /\ Inv = Of(n) /\ stack \in Seq(FrameType) /\ Top = stack[n]
  BY <1>2, TopInvocation DEF TypeInv, StackOK
<1>4. /\ Len(stack') = n /\ stack'[n].kind = "invoke" /\ stack'[n].step = s
      /\ stack'[n].inv = stack[n].inv
  BY <1>2, <1>3, GotoStack
<1>5. /\ Running' /\ Top'.kind = "invoke" /\ Top'.step = s /\ Inv' = Of(n)'
  <2>1. Len(<<>>) = 0 /\ n # 0
    BY <1>2, <1>3 DEF Invoking
  <2> QED
    BY <1>4, <2>1 DEF Running, Top, Last, Inv, Of
<1>6. Of(n)'.opens = Of(n).opens
  BY <1>3, <1>4, KnownOf
<1>7. \A i \in Invoking : \A r \in {Of(i).req} : TxReqs(r) => TxReqs(r)'
  <2> TAKE i \in Invoking
  <2> TAKE r \in {Of(i).req}
  <2>1. r = Inv.req
    BY <1>3 DEF Mdc, OneRequest
  <2> QED
    BY <2>1, TxReqsStep DEF TypeInv
<1>8. OneRequest'
  BY <1>1, <1>7, OneRequestKept DEF Mdc, KeptFrames
<1>9. MdcCleared'
  <2>1. mdc' = 0 => Inv'.opens /\ s \in {"afterCommit", "afterCompletion", "return"}
    BY <1>3, <1>5, <1>6 DEF Mdc, MdcCleared
  <2> QED
    BY <1>5, <2>1 DEF MdcCleared
<1>10. PublishedFor' /\ BottomFrame'
  BY <1>1, <1>5, PublishedForKept, BottomFrameKept DEF Mdc
<1> QED
  BY <1>8, <1>9, <1>10 DEF Mdc

\* A step that leaves the frames and MDC as they are.
LEMMA StillMdc ==
  ASSUME TypeInv, Mdc, KnownInvs, UNCHANGED <<stack, mdc>>,
         \/ UNCHANGED tx \/ SetRollbackOnly
         \/ tx.listeners # <<>> /\ ListenerTaken
  PROVE  Mdc'
<1>1. KeptFrames
  BY KeepsFrames
<1>2. \A i \in Invoking : \A r \in {Of(i).req} : TxReqs(r) => TxReqs(r)'
  BY TxReqsStep DEF TypeInv
<1>3. OneRequest'
  BY <1>1, <1>2, OneRequestKept DEF Mdc, KeptFrames
<1>4. MdcCleared'
  <2>1. CASE mdc = 0 /\ Running /\ Invoking # {}
    <3>1. Top.kind = "invoke" /\ Inv.opens
      BY <2>1 DEF Mdc, MdcCleared
    <3>2. Len(stack) \in Invoking /\ Inv = Of(Len(stack)) /\ Top = stack[Len(stack)]
      BY <2>1, <3>1, TopInvocation
    <3>3. Of(Len(stack))'.opens = Of(Len(stack)).opens
      BY <3>2, KnownOf
    <3>4. Inv' = Of(Len(stack))'
      BY <3>2 DEF Inv, Of, Top, Last
    <3> QED
      BY <3>1, <3>2, <3>3, <3>4 DEF Mdc, MdcCleared, Running, Top, Last
  <2>2. CASE ~(mdc = 0 /\ Running /\ Invoking # {})
    BY <2>2 DEF MdcCleared, Running, Invoking
  <2> QED
    BY <2>1, <2>2
<1>5. ~Running' => mdc' = 0
  BY DEF Mdc, BottomFrame, Running
<1> QED
  BY <1>1, <1>3, <1>4, <1>5, PublishedForKept, BottomFrameKept DEF Mdc

\* A handler returns: its events are published for its own request.
LEMMA DispatchMdc ==
  ASSUME TypeInv, Txn, Mdc, KnownInvs,
         NEW nNow \in 0..MaxEvents, NEW nLater \in 0..MaxEvents, HandlerReturns(nNow, nLater)
  PROVE  Mdc'
<1>1. PICK n \in Nat : n = Len(stack)
  BY DEF TypeInv, StackOK
<1>2. /\ MoveInvocation("register") /\ DispatchFrames(nNow, nLater)
      /\ Running /\ Top.kind = "invoke" /\ Top.step = "handle" /\ UNCHANGED <<tx, mdc>>
  BY DispatchMoves, HandlerReturnsEffect DEF HandlerReturns, At
<1>3. n \in Invoking /\ Inv = Of(n) /\ Top = stack[n] /\ n # 0
  BY <1>1, <1>2, TopInvocation DEF Invoking
<1>4. /\ Len(stack') = n + 1 /\ \A i \in 1..(n - 1) : stack'[i] = stack[i]
      /\ stack'[n].kind = "invoke" /\ stack'[n + 1].kind = "publish"
      /\ stack'[n + 1].req = Inv.req /\ stack'[n + 1].opened = FALSE
  BY <1>1, <1>2 DEF DispatchFrames
<1>5. Invoking' = Invoking /\ \A i \in Invoking : stack'[i].inv = stack[i].inv /\ i \in 1..n
  BY <1>1, <1>2 DEF MoveInvocation, Invoking
<1>6. \A i \in Invoking : /\ Of(i)'.req = Of(i).req /\ Of(i)'.nested = Of(i).nested
  BY <1>5, KnownOf
<1>7. OneRequest'
  <2>1. \A r : TxReqs(r) => TxReqs(r)'
    BY <1>2 DEF TxReqs
  <2> QED
    BY <1>2, <1>5, <2>1, OneRequestKept DEF Mdc
<1>8. MdcCleared'
  <2>1. mdc # 0
    BY <1>2, <1>3, MdcSet DEF Mdc
  <2> QED
    BY <1>2, <2>1 DEF MdcCleared
<1>9. PublishedFor'
  <2> SUFFICES ASSUME NEW i \in Publishing', NEW j \in Invoking'
               PROVE  /\ j < i => stack'[i].req = Of(j)'.req
                      /\ stack'[i].opened => i < j
    BY DEF PublishedFor
  <2>1. j \in Invoking /\ Of(j)'.req = Of(j).req
    BY <1>5, <1>6
  <2>2. CASE i = n + 1
    <3>1. Of(j).req = Inv.req
      BY <1>3, <2>1 DEF Mdc, OneRequest
    <3> QED
      BY <1>4, <2>1, <2>2, <3>1
  <2>3. CASE i # n + 1
    <3>1. i \in 1..(n + 1) /\ i # n
      BY <1>4 DEF Publishing
    <3>2. i \in Publishing /\ stack'[i] = stack[i]
      BY <1>1, <1>4, <2>3, <3>1 DEF Publishing
    <3> QED
      BY <2>1, <3>2 DEF Mdc, PublishedFor
  <2> QED
    BY <2>2, <2>3
<1>10. BottomFrame'
  <2>1. Running'
    BY <1>4, <1>3 DEF Running
  <2>2. CASE n = 1
    <3>1. 1 \in Invoking /\ 1 \notin Publishing
      BY <1>3, <2>2 DEF Invoking, Publishing
    <3> QED
      BY <1>2, <1>5, <1>6, <2>1, <3>1 DEF Mdc, BottomFrame
  <2>3. CASE n # 1
    <3>1. 1 \in 1..(n - 1)
      BY <1>3, <2>3
    <3>2. stack'[1] = stack[1]
      BY <1>4, <3>1
    <3>3. 1 \in Publishing => 1 \in Publishing'
      BY <1>1, <1>4, <3>1, <3>2 DEF Publishing
    <3> QED
      BY <1>2, <1>5, <1>6, <2>1, <3>2, <3>3 DEF Mdc, BottomFrame
  <2> QED
    BY <2>2, <2>3
<1> QED
  BY <1>7, <1>8, <1>9, <1>10 DEF Mdc

\* A publication is pushed, with a request id in MDC that suits it.
LEMMA PushMdc ==
  ASSUME TypeInv, Mdc, KnownInvs, NEW f, Push(f), f.kind = "publish", f.opened \in BOOLEAN,
         mdc' # 0, mdc' = f.req,
         \A i \in Invoking : f.req = Of(i).req, f.opened => Invoking = {},
         ~Running => f.opened,
         \A i \in Invoking : \A r \in {Of(i).req} : TxReqs(r) => TxReqs(r)'
  PROVE  Mdc'
<1>1. PICK n \in Nat : n = Len(stack)
  BY DEF TypeInv, StackOK
<1>2. Running <=> n # 0
  BY <1>1 DEF Running, TypeInv, StackOK
<1>3. /\ SameInvocations /\ Publishing' = Publishing \cup {n + 1}
      /\ Len(stack') = n + 1 /\ stack'[n + 1] = f /\ \A i \in 1..n : stack'[i] = stack[i]
  BY <1>1, PushPublication, PushFrames
<1>4. \A i \in Invoking : /\ Of(i)'.req = Of(i).req /\ Of(i)'.nested = Of(i).nested
  BY <1>3, KnownOf DEF SameInvocations
<1>5. OneRequest'
  BY <1>3, OneRequestKept DEF Mdc, SameInvocations
<1>6. MdcCleared'
  BY DEF MdcCleared
<1>7. PublishedFor'
  <2> SUFFICES ASSUME NEW i \in Publishing', NEW j \in Invoking'
               PROVE  /\ j < i => stack'[i].req = Of(j)'.req
                      /\ stack'[i].opened => i < j
    BY DEF PublishedFor
  <2>1. j \in Invoking /\ Of(j)'.req = Of(j).req
    BY <1>3, <1>4 DEF SameInvocations
  <2>2. CASE i = n + 1
    BY <1>3, <2>1, <2>2
  <2>3. CASE i # n + 1
    <3>1. i \in Publishing /\ stack'[i] = stack[i]
      BY <1>1, <1>3, <2>3 DEF Publishing
    <3> QED
      BY <2>1, <3>1 DEF Mdc, PublishedFor
  <2> QED
    BY <2>2, <2>3
<1>8. BottomFrame'
  <2>1. Running'
    BY <1>3 DEF Running
  <2>2. CASE Running
    <3>1. 1 \in 1..n
      BY <1>2, <2>2
    <3>2. stack'[1] = stack[1] /\ Invoking' = Invoking
      BY <1>3, <3>1 DEF SameInvocations
    <3>3. \/ 1 \in Invoking /\ ~Of(1).nested
          \/ 1 \in Publishing /\ stack[1].opened
      BY <2>2 DEF Mdc, BottomFrame
    <3> QED
      BY <1>3, <1>4, <2>1, <3>2, <3>3 DEF BottomFrame
  <2>3. CASE ~Running
    <3>1. 1 \in Publishing' /\ stack'[1].opened
      BY <1>2, <1>3, <2>3
    <3> QED
      BY <2>1, <3>1 DEF BottomFrame
  <2> QED
    BY <2>2, <2>3
<1> QED
  BY <1>5, <1>6, <1>7, <1>8 DEF Mdc

\* Where a command may be run, MDC is empty only if no invocation is on the stack.
LEMMA CallableMdc ==
  ASSUME TypeInv, Mdc, MayCall
  PROVE  /\ mdc = 0 => Invoking = {}
         /\ \A i \in Invoking : mdc = Of(i).req
         /\ ~Running => mdc = 0
<1>1. mdc = 0 => Invoking = {}
  <2>1. CASE Running
    BY <2>1 DEF MayCall, At, Mdc, MdcCleared
  <2>2. CASE ~Running
    BY <2>2 DEF Running, Invoking, TypeInv, StackOK
  <2> QED
    BY <2>1, <2>2
<1> QED
  BY <1>1 DEF Mdc, OneRequest, BottomFrame

\* The external publisher takes the request from MDC or opens one.
LEMMA PublishExternalMdc ==
  ASSUME TypeInv, Mdc, KnownInvs, NEW timing \in Publishes, PublishExternal(timing)
  PROVE  Mdc'
<1> DEFINE opened == mdc = 0
           req    == IF opened THEN ids + 1 ELSE mdc
           f == [kind |-> "publish", step |-> "wrapper", mode |-> "external",
                 todo |-> <<Len(events) + 1>>, req |-> req, opened |-> opened]
<1>1. MayCall /\ Push(f) /\ mdc' = req /\ UNCHANGED tx
  BY DEF PublishExternal
<1>2. /\ f.kind = "publish" /\ f.opened = opened /\ opened \in BOOLEAN /\ f.req = req
  OBVIOUS
<1>3. req # 0
  BY DEF TypeInv, HistoryOK
<1>4. \A i \in Invoking : req = Of(i).req
  BY <1>1, CallableMdc
<1>5. (opened => Invoking = {}) /\ (~Running => opened)
  BY <1>1, CallableMdc
<1>6. \A r : TxReqs(r) => TxReqs(r)'
  BY <1>1 DEF TxReqs
<1> HIDE DEF f, req, opened
<1> QED
  BY <1>1, <1>2, <1>3, <1>4, <1>5, <1>6, PushMdc

\* A callback restores the id that the dispatcher captured.
LEMMA RunCallbackMdc ==
  ASSUME TypeInv, Mdc, KnownInvs, RunCallback
  PROVE  Mdc'
<1> DEFINE f == [kind |-> "publish", step |-> "wrapper", mode |-> "afterCommit",
                 todo |-> NextCallback.events, req |-> NextCallback.req, opened |-> FALSE]
<1>1. /\ Running /\ Top.kind = "invoke" /\ Push(f) /\ mdc' = NextCallback.req
      /\ tx.due > 0 /\ CallbackTaken
  BY DEF RunCallback, At
<1>2. f.kind = "publish" /\ f.opened = FALSE /\ f.req = NextCallback.req
  OBVIOUS
<1>3. 1 \in 1..Len(tx.callbacks) /\ tx.callbacks \in Seq(CallbackType)
  BY <1>1 DEF TypeInv, TxOK, TxType
<1>4. NextCallback = tx.callbacks[1] /\ NextCallback \in CallbackType
  BY <1>3 DEF NextCallback
<1>5. NextCallback.req \in RequestIds /\ NextCallback.req # 0
  BY <1>4, RequestIdsAssumption DEF CallbackType
<1>6. \A i \in Invoking : NextCallback.req = Of(i).req
  BY <1>3, <1>4 DEF Mdc, OneRequest, TxReqs
<1>7. \A r : TxReqs(r) => TxReqs(r)'
  BY <1>1, TxReqsStep DEF TypeInv
<1> HIDE DEF f
<1> QED
  BY <1>1, <1>2, <1>5, <1>6, <1>7, PushMdc

\* invoke takes the request from MDC, or opens one as the only invocation.
LEMMA InvokeMdc ==
  ASSUME TypeInv, Shape, Txn, Mdc, NEW saved \in BOOLEAN, Invoke(saved)
  PROVE  Mdc'
<1> DEFINE nested == mdc # 0
           req    == IF nested THEN mdc ELSE ids + 1
<1>1. PICK n \in Nat : n = Len(stack)
  BY DEF TypeInv, StackOK
<1>2. Running <=> n # 0
  BY <1>1 DEF Running, TypeInv, StackOK
<1>3. /\ MayCall /\ KnownInvs /\ NewInvocation /\ mdc' = req
      /\ Len(invs') = Len(invs) + 1
      /\ invs'[Len(invs) + 1].req = req /\ invs'[Len(invs) + 1].nested = nested
      /\ IF ~InTransaction THEN Begin ELSE UNCHANGED tx
  <2>1. \E r : invs' = Append(invs, r) /\ r.req = req /\ r.nested = nested
    BY DEF Invoke
  <2>2. /\ Len(invs') = Len(invs) + 1
        /\ invs'[Len(invs) + 1].req = req /\ invs'[Len(invs) + 1].nested = nested
    BY <2>1 DEF TypeInv, HistoryOK
  <2>3. KnownInvs
    BY KnownInvsStep DEF Next, Call
  <2> QED
    BY <2>2, <2>3, InvokeInvocation DEF Invoke
<1>15. PICK r : r = req
  OBVIOUS
<1>4. r # 0 /\ \A i \in Invoking : nested /\ r = Of(i).req
  <2>1. r # 0
    BY <1>15 DEF TypeInv, HistoryOK
  <2> QED
    BY <1>3, <1>15, <2>1, CallableMdc
<1>5. ~Running => ~nested
  BY <1>3, CallableMdc
<1>16. mdc' = r /\ invs'[Len(invs) + 1].req = r
  BY <1>3, <1>15
<1> HIDE DEF nested, req
<1>6. /\ Invoking' = Invoking \cup {n + 1}
      /\ \A i \in Invoking : stack'[i].inv = stack[i].inv /\ i \in 1..n
      /\ stack'[n + 1].inv = Len(invs) + 1
  BY <1>1, <1>3 DEF NewInvocation, Invoking
<1>7. /\ \A i \in Invoking : Of(i)'.req = Of(i).req /\ Of(i)'.nested = Of(i).nested
      /\ Of(n + 1)'.req = r /\ Of(n + 1)'.nested = nested
  BY <1>3, <1>6, <1>16, KnownOf DEF Of
<1>8. \A i \in Invoking' : Of(i)'.req = r
  BY <1>4, <1>6, <1>7
<1>9. TxReqs(r)'
  <2>1. CASE ~InTransaction
    <3>1. tx'.callbacks = <<>> /\ tx'.listeners = <<>>
      BY <1>3, <2>1, TxFields DEF TypeInv
    <3>2. Len(<<>>) = 0
      OBVIOUS
    <3> QED
      BY <3>1, <3>2 DEF TxReqs
  <2>2. CASE InTransaction
    <3>1. UNCHANGED tx /\ Invoking # {}
      BY <1>3, <2>2, CallablePhase DEF InTransaction
    <3>2. TxReqs(r)
      BY <1>4, <3>1 DEF Mdc, OneRequest
    <3> QED
      BY <3>1, <3>2 DEF TxReqs
  <2> QED
    BY <2>1, <2>2
<1>10. OneRequest'
  <2> SUFFICES ASSUME NEW i \in Invoking'
               PROVE  /\ mdc' \in {0, Of(i)'.req} /\ TxReqs(Of(i).req)'
                      /\ \A j \in Invoking' : Of(i)'.req = Of(j)'.req /\ (i < j => Of(j)'.nested)
    BY DEF OneRequest
  <2>1. mdc' = Of(i)'.req
    BY <1>8, <1>16
  <2>2. TxReqs(Of(i).req)'
    BY <1>8, <1>9 DEF TxReqs
  <2>3. ASSUME NEW j \in Invoking', i < j
        PROVE  Of(j)'.nested
    <3>1. CASE j = n + 1
      <4>1. i \in Invoking
        BY <1>6, <2>3, <3>1
      <4> QED
        BY <1>4, <1>7, <3>1, <4>1
    <3>2. CASE j # n + 1
      <4>1. j \in Invoking /\ i \in Invoking
        BY <1>6, <2>3, <3>2
      <4> QED
        BY <1>7, <2>3, <4>1 DEF Mdc, OneRequest
    <3> QED
      BY <3>1, <3>2
  <2> QED
    BY <1>8, <2>1, <2>2, <2>3
<1>11. MdcCleared'
  BY <1>4, <1>16 DEF MdcCleared
<1>12. Publishing' = Publishing /\ \A i \in Publishing : i \in 1..n /\ stack'[i] = stack[i]
  <2>1. PICK f : Push(f) /\ f.kind = "invoke"
    BY DEF Invoke
  <2>2. Len(stack') = n + 1 /\ stack'[n + 1] = f /\ \A i \in 1..n : stack'[i] = stack[i]
    BY <1>1, <2>1, PushFrames
  <2> QED
    BY <1>1, <2>1, <2>2 DEF Publishing
<1>13. PublishedFor'
  <2> SUFFICES ASSUME NEW i \in Publishing, NEW j \in Invoking'
               PROVE  /\ j < i => stack'[i].req = Of(j)'.req
                      /\ stack'[i].opened => i < j
    BY <1>12 DEF PublishedFor
  <2>1. CASE j = n + 1
    BY <1>12, <2>1
  <2>2. CASE j # n + 1
    <3>1. j \in Invoking
      BY <1>6, <2>2
    <3> QED
      BY <1>7, <1>12, <3>1 DEF Mdc, PublishedFor
  <2> QED
    BY <2>1, <2>2
<1>14. BottomFrame'
  <2>1. Running'
    <3>1. Len(<<>>) = 0 /\ n + 1 \in 1..Len(stack')
      BY <1>6 DEF Invoking
    <3> QED
      BY <3>1 DEF Running
  <2>2. CASE Running
    <3>1. \/ 1 \in Invoking /\ ~Of(1).nested
          \/ 1 \in Publishing /\ stack[1].opened
      BY <2>2 DEF Mdc, BottomFrame
    <3> QED
      BY <1>6, <1>7, <1>12, <2>1, <3>1 DEF BottomFrame
  <2>3. CASE ~Running
    <3>1. 1 \in Invoking' /\ ~Of(1)'.nested
      BY <1>2, <1>5, <1>6, <1>7, <2>3
    <3> QED
      BY <2>1, <3>1 DEF BottomFrame
  <2> QED
    BY <2>2, <2>3
<1> QED
  BY <1>10, <1>11, <1>13, <1>14 DEF Mdc

\* A frame leaves.  MDC is set to 0 or kept; then no invocation is left, or the last
\* frame is one in its callbacks.
LEMMA LeaveMdc ==
  ASSUME TypeInv, Mdc, KnownInvs, Running, NEW throws \in BOOLEAN, Leave(throws), UNCHANGED tx,
         mdc' \in {0, mdc}, Len(stack) = 1 => mdc' = 0,
         mdc' = 0 => \/ Invoking \subseteq {Len(stack)}
                     \/ /\ Len(stack) - 1 \in Invoking /\ Of(Len(stack) - 1).opens
                        /\ stack[Len(stack) - 1].step = "afterCommit"
  PROVE  Mdc'
<1>1. KeptFrames
  BY KeepsFrames
<1>2. PICK n \in Nat : n = Len(stack)
  BY DEF TypeInv, StackOK
<1>3. /\ n >= 1 /\ Len(stack') = n - 1 /\ \A i \in 1..(n - 1) : stack'[i] = stack[i]
      /\ stack' \in Seq(FrameType)
  BY <1>2, LeaveStack, TopFrame DEF TypeInv, StackOK
<1>4. \A r : TxReqs(r) => TxReqs(r)'
  BY DEF TxReqs
<1>5. OneRequest'
  BY <1>1, <1>4, OneRequestKept DEF Mdc, KeptFrames
<1>6. ~Running' => mdc' = 0
  <2>1. ~Running' => n = 1
    BY <1>3 DEF Running
  <2> QED
    BY <1>2, <2>1
<1>7. MdcCleared'
  <2>1. Invoking' = Invoking \ {n}
    BY <1>2, LeaveFrames
  <2>2. CASE Invoking \subseteq {n}
    BY <2>1, <2>2 DEF MdcCleared
  <2>3. CASE n - 1 \in Invoking /\ Of(n - 1).opens /\ stack[n - 1].step = "afterCommit"
    <3>1. n - 1 \in 1..(n - 1) /\ stack[n - 1].kind = "invoke"
      BY <1>2, <1>3, <2>3 DEF Invoking
    <3>2. stack'[n - 1] = stack[n - 1]
      BY <1>3, <3>1
    <3>3. Of(n - 1)'.opens = Of(n - 1).opens
      BY <2>3, <3>2, KnownOf
    <3>4. Top' = stack'[n - 1] /\ Inv' = Of(n - 1)'
      BY <1>3 DEF Top, Last, Inv, Of
    <3> QED
      BY <2>3, <3>1, <3>2, <3>3, <3>4 DEF MdcCleared
  <2> QED
    BY <1>2, <2>2, <2>3 DEF MdcCleared
<1> QED
  BY <1>1, <1>5, <1>6, <1>7, PublishedForKept, BottomFrameKept DEF Mdc

\* The end of a top-level invocation clears MDC; it was the only one left.
LEMMA FinishMdc ==
  ASSUME TypeInv, Txn, Mdc, KnownInvs, NEW s \in {"return", "throw"}, Finish(s)
  PROVE  Mdc'
<1>1. PICK n \in Nat : n = Len(stack)
  BY DEF TypeInv, StackOK
<1>2. /\ Running /\ Top.kind = "invoke" /\ Top.step = s /\ Leave(s = "throw") /\ UNCHANGED tx
      /\ Inv.nested => mdc' = mdc
      /\ ~Inv.nested => mdc' = 0
  BY DEF Finish, At
<1>3. (s = "throw") \in BOOLEAN
  OBVIOUS
<1>4. n \in Invoking /\ Inv = Of(n) /\ \A i \in Invoking : i \in 1..n
  BY <1>1, <1>2, TopInvocation DEF Invoking
<1>5. ~Inv.nested => Invoking \subseteq {n}
  <2> SUFFICES ASSUME ~Inv.nested, NEW i \in Invoking, i # n
               PROVE  FALSE
    OBVIOUS
  <2>1. i < n
    BY <1>4
  <2> QED
    BY <1>4, <2>1 DEF Mdc, OneRequest
<1>6. Inv.nested /\ mdc = 0 => Invoking \subseteq {n}
  <2> HAVE Inv.nested /\ mdc = 0
  <2>1. Inv.opens
    BY <1>2, <1>4 DEF Mdc, MdcCleared
  <2> QED
    BY <1>1, <1>2, <2>1, OnlyOpener
<1>7. n = 1 => ~Inv.nested
  BY <1>2, <1>4 DEF Mdc, BottomFrame, Invoking, Publishing
<1> QED
  BY <1>1, <1>2, <1>3, <1>5, <1>6, <1>7, LeaveMdc

\* A publication that ends clears MDC only after the commit, or if it opened the request.
LEMMA PublishEndsMdc ==
  ASSUME TypeInv, Shape, Txn, Mdc, KnownInvs, Running, Top.kind = "publish",
         mdc' = MdcAfterPublish, NEW throws \in BOOLEAN, Leave(throws), UNCHANGED tx
  PROVE  Mdc'
<1>1. PICK n \in Nat : n = Len(stack)
  BY DEF TypeInv, StackOK
<1>2. /\ n \in Publishing /\ Top = stack[n] /\ n >= 1 /\ n \notin Invoking
      /\ \A i \in Invoking : i \in 1..n /\ i < n
  <2>1. n \in Publishing /\ Top = stack[n] /\ n >= 1
    BY <1>1, TopFrame DEF TypeInv, StackOK
  <2>2. n \notin Invoking
    BY <2>1 DEF Publishing, Invoking
  <2> QED
    BY <1>1, <2>1, <2>2 DEF Invoking
<1>3. mdc' \in {0, mdc}
  BY DEF MdcAfterPublish
<1>4. Top.opened => Invoking = {}
  BY <1>2 DEF Mdc, PublishedFor
<1>5. n = 1 => Top.opened
  BY <1>2 DEF Mdc, BottomFrame
<1>6. n = 1 => mdc' = 0
  BY <1>5 DEF MdcAfterPublish
<1>7. Top.mode = "afterCommit" /\ n # 1 =>
         n - 1 \in Invoking /\ Of(n - 1).opens /\ stack[n - 1].step = "afterCommit"
  <2> HAVE Top.mode = "afterCommit" /\ n # 1
  <2>1. n - 1 \in 1..(Len(stack) - 1) /\ (n - 1) + 1 = n
    BY <1>1, <1>2
  <2>2. Rests(stack[n - 1], stack[n])
    BY <2>1 DEF Shape, Adjacent
  <2>3. n - 1 \in Invoking /\ stack[n - 1].step = "afterCommit"
    BY <1>2, <2>1, <2>2 DEF Rests, Invoking
  <2> QED
    BY <2>3 DEF Txn, Phased
<1>8. mdc = 0 => Invoking = {}
  BY DEF Mdc, MdcCleared
<1>9. mdc' = 0 => \/ Invoking \subseteq {n}
                  \/ n - 1 \in Invoking /\ Of(n - 1).opens /\ stack[n - 1].step = "afterCommit"
  BY <1>4, <1>5, <1>7, <1>8 DEF MdcAfterPublish
<1> QED
  BY <1>1, <1>3, <1>6, <1>9, LeaveMdc

\* Every step keeps MDC and the chain in agreement.
LEMMA MdcStep ==
  ASSUME TypeInv, Shape, Txn, Mdc, [Next]_vars
  PROVE  Mdc'
<1>0. CASE UNCHANGED vars
  <2>1. UNCHANGED <<tx, stack, invs, mdc>>
    BY <1>0 DEF vars
  <2>2. KnownInvs
    BY <2>1 DEF KnownInvs, TypeInv, HistoryOK
  <2> QED
    BY <2>1, <2>2, StillMdc
<1> SUFFICES ASSUME Next PROVE Mdc'
  BY <1>0
<1>1. KnownInvs /\ TxOK
  BY KnownInvsStep DEF TypeInv
<1>2. CASE Proceed
  <2>1. CASE \E nNow, nLater \in 0..MaxEvents : HandlerReturns(nNow, nLater)
    BY <1>1, <2>1, DispatchMdc
  <2>2. CASE RegisterDeferred
    <3> DEFINE c == [events |-> Top.deferred, req |-> IF mdc # 0 THEN mdc ELSE Inv.req]
    <3>1. /\ Running /\ Top.kind = "invoke" /\ Top.step = "register" /\ UNCHANGED mdc
          /\ Goto("stamp") /\ "stamp" \in InvokeSteps /\ (UNCHANGED tx \/ RegisterCallback(c))
      BY <2>2 DEF RegisterDeferred, At, InvokeSteps
    <3>2. c.req = Inv.req
      <4>1. Len(stack) \in Invoking /\ Inv = Of(Len(stack))
        BY <3>1, TopInvocation
      <4> QED
        BY <4>1 DEF Mdc, OneRequest
    <3>3. c \in CallbackType
      BY <3>1, TopInvocation DEF CallbackType, TypeInv, HistoryOK
    <3> HIDE DEF c
    <3> QED
      BY <1>1, <3>1, <3>2, <3>3, GotoMdc
  <2>3. CASE \/ HandlerThrows \/ StampSuccess \/ Commits \/ CommitThrows \/ UnexpectedRollback
             \/ Abort \/ StampFailure \/ MarkEventsFailed \/ FailureStampThrows
    <3>1. Running /\ Top.kind = "invoke" /\ UNCHANGED mdc
      BY <2>3 DEF HandlerThrows, StampSuccess, Commits, CommitThrows, UnexpectedRollback,
            Abort, StampFailure, MarkEventsFailed, FailureStampThrows, At
    <3>2. Top.step \notin {"afterCommit", "afterCompletion", "return"}
      <4>1. CASE Abort
        <5>1. Throws(stack[Len(stack)]) /\ Top = stack[Len(stack)]
          BY <3>1, <4>1, TopInvocation DEF Shape, Abort
        <5> QED
          BY <3>1, <5>1 DEF Throws
      <4> QED
        BY <2>3, <4>1 DEF HandlerThrows, StampSuccess, Commits, CommitThrows, UnexpectedRollback,
           StampFailure, MarkEventsFailed, FailureStampThrows, At
    <3>3. \E s \in InvokeSteps : Goto(s)
      BY <2>3 DEF HandlerThrows, StampSuccess, Commits, CommitThrows, UnexpectedRollback,
            Abort, StampFailure, MarkEventsFailed, FailureStampThrows, InvokeSteps
    <3>4. UNCHANGED tx \/ EnterAfterCommit \/ End
      BY <2>3 DEF HandlerThrows, StampSuccess, Commits, CommitThrows, UnexpectedRollback,
            Abort, StampFailure, MarkEventsFailed, FailureStampThrows
    <3> QED
      BY <1>1, <3>1, <3>2, <3>3, <3>4, GotoMdc
  <2>4. CASE CallbacksDone
    <3>1. /\ Running /\ Top.kind = "invoke" /\ UNCHANGED mdc /\ EnterAfterCompletion
          /\ Goto("afterCompletion") /\ "afterCompletion" \in InvokeSteps
      BY <2>4 DEF CallbacksDone, At, InvokeSteps
    <3> QED
      BY <1>1, <3>1, GotoMdc
  <2>5. CASE Completed
    <3>1. /\ Running /\ Top.kind = "invoke" /\ UNCHANGED mdc /\ End
          /\ Goto("return") /\ "return" \in InvokeSteps
      BY <2>5 DEF Completed, At, InvokeSteps
    <3> QED
      BY <1>1, <3>1, GotoMdc
  <2>6. CASE RunCallback
    BY <1>1, <2>6, RunCallbackMdc
  <2>7. CASE \E s \in {"return", "throw"} : Finish(s)
    BY <1>1, <2>7, FinishMdc
  <2>8. CASE StampSuccessThrows \/ PolicyCatches \/ HandlerCatches
    BY <1>1, <2>8, StillMdc DEF StampSuccessThrows, PolicyCatches, HandlerCatches
  <2>9. CASE \E saved \in BOOLEAN : LogDeferred(saved)
    BY <1>1, <2>9, StillMdc DEF LogDeferred
  <2>10. CASE PublishDone
    <3>1. /\ Running /\ Top.kind = "publish" /\ mdc' = MdcAfterPublish /\ Leave(FALSE)
          /\ FALSE \in BOOLEAN /\ UNCHANGED tx
      BY <2>10 DEF PublishDone, At
    <3> QED
      BY <1>1, <3>1, PublishEndsMdc
  <2>11. CASE PublishThrows
    <3>1. CASE Top.mode = "afterCommit"
      BY <1>1, <2>11, <3>1, StillMdc DEF PublishThrows
    <3>2. CASE Top.mode # "afterCommit"
      <4>1. /\ Running /\ Top.kind = "publish" /\ mdc' = MdcAfterPublish /\ Leave(TRUE)
            /\ TRUE \in BOOLEAN /\ UNCHANGED tx
        BY <2>11, <3>2 DEF PublishThrows
      <4> QED
        BY <1>1, <4>1, PublishEndsMdc
    <3> QED
      BY <3>1, <3>2
  <2>12. CASE PolicyReturns \/ PolicyThrows
    <3>1. /\ Running /\ Top.kind = "policy" /\ UNCHANGED <<mdc, tx>>
          /\ \E throws \in BOOLEAN : Leave(throws)
      BY <2>12 DEF PolicyReturns, PolicyThrows, At
    <3>2. mdc = 0 => Invoking = {}
      BY <3>1 DEF Mdc, MdcCleared
    <3>3. Len(stack) = 1 => mdc = 0
      <4>1. Len(stack) \in Listening
        BY <3>1, TopFrame DEF TypeInv, StackOK
      <4> QED
        BY <3>1, <4>1 DEF Mdc, BottomFrame, Invoking, Publishing, Listening
    <3> QED
      BY <1>1, <3>1, <3>2, <3>3, LeaveMdc
  <2>13. CASE PublishRaw \/ \E saved \in BOOLEAN : PublishWrapper(saved)
    <3>1. KeptFrames /\ UNCHANGED mdc /\ Running /\ Top.kind = "publish"
      BY <2>13, KeepsFrames DEF PublishRaw, PublishWrapper, At
    <3>2. Len(stack) \in Publishing /\ Len(stack) \in Nat /\ Top = stack[Len(stack)]
          /\ Top.req \in RequestIds
      BY <3>1, TopPublication
    <3>3. \A i \in Invoking : \A r \in {Of(i).req} : TxReqs(r) => TxReqs(r)'
      <4> TAKE i \in Invoking
      <4> TAKE r \in {Of(i).req}
      <4>1. i < Len(stack)
        <5>1. i # Len(stack) /\ i \in 1..Len(stack)
          BY <3>2 DEF Publishing, Invoking
        <5> QED
          BY <3>2, <5>1
      <4>2. Top.req = r
        BY <3>2, <4>1 DEF Mdc, PublishedFor
      <4>3. UNCHANGED tx \/ \E d \in ListenerType : d.req = r /\ DeferListener(d)
        <5>1. CASE PublishRaw
          BY <5>1 DEF PublishRaw
        <5>2. CASE \E saved \in BOOLEAN : PublishWrapper(saved)
          <6> DEFINE d == [event |-> Head(Top.todo), req |-> Top.req]
          <6>1. Top.todo # <<>> /\ (UNCHANGED tx \/ DeferListener(d))
            BY <5>2 DEF PublishWrapper
          <6>2. d \in ListenerType /\ d.req = r
            <7>1. Head(Top.todo) \in Nat
              BY <3>1, <6>1, TopPublication
            <7> QED
              BY <3>2, <4>2, <7>1 DEF ListenerType
          <6> HIDE DEF d
          <6> QED
            BY <6>1, <6>2
        <5> QED
          BY <2>13, <5>1, <5>2
      <4> QED
        BY <4>3, TxReqsStep DEF TypeInv
    <3>4. Running'
      BY <2>13, <3>2, PublishRawEffect, PublishWrapperEffect
         DEF ListenFrames, WrapperFrames, Running, Publishing
    <3> QED
      BY <1>1, <3>1, <3>3, <3>4, OneRequestKept, ClearedKept, PublishedForKept, BottomFrameKept
         DEF Mdc, KeptFrames
  <2> QED
    BY <1>2, <2>1, <2>2, <2>3, <2>4, <2>5, <2>6, <2>7, <2>8, <2>9, <2>10, <2>11, <2>12, <2>13
       DEF Proceed
<1>3. CASE Call
  <2>1. CASE ParticipantFails
    BY <1>1, <2>1, StillMdc DEF ParticipantFails
  <2> QED
    BY <1>1, <1>3, <2>1, InvokeMdc, PublishExternalMdc DEF Call
<1>4. CASE Crash
  <2>1. KeptFrames /\ mdc' = 0 /\ stack' = <<>>
    BY <1>4, KeepsFrames DEF Crash
  <2>2. Invoking' = {} /\ ~Running'
    BY <2>1 DEF Invoking, Running
  <2> QED
    BY <1>1, <2>1, <2>2, PublishedForKept, BottomFrameKept DEF Mdc, OneRequest, MdcCleared
<1> QED
  BY <1>2, <1>3, <1>4 DEF Next

-----------------------------------------------------------------------------
(***************************************************************************)
(* All of it together, from the initial state on.                          *)
(***************************************************************************)
ChainInv == TypeInv /\ RowsExist /\ Shape /\ Txn /\ Mdc

\* Before the first call.
LEMMA InitChain == Init => ChainInv
<1> SUFFICES ASSUME Init PROVE ChainInv
  OBVIOUS
<1>1. /\ Len(<<>>) = 0 /\ stack = <<>> /\ ~Running /\ mdc = 0 /\ tx.phase = "none"
      /\ exc = FALSE /\ invs = <<>>
  BY DEF Init, Running, NoTx
<1>2. Invoking = {} /\ Publishing = {} /\ Adjacent /\ RowsExist
  BY <1>1 DEF Invoking, Publishing, Adjacent, RowsExist
<1>3. Shape
  <2>1. exc => FALSE
    BY <1>1
  <2> QED
    BY <1>1, <1>2, <2>1, Zenon DEF Shape
<1>4. Txn
  BY <1>1, <1>2 DEF Txn
<1>5. Mdc
  BY <1>1, <1>2 DEF Mdc, OneRequest, MdcCleared, PublishedFor, BottomFrame
<1> QED
  BY <1>2, <1>3, <1>4, <1>5, InitTypeInv DEF ChainInv

\* The parts are inductive together.
LEMMA ChainStep == ChainInv /\ [Next]_vars => ChainInv'
  BY TypeInvStep, RowsExistStep, ShapeStep, TxnStep, MdcStep DEF ChainInv

\* Hence they always hold.
LEMMA ChainCorrect == Spec => []ChainInv
  BY InitChain, ChainStep, PTL DEF Spec

\* What Invoke adds.
LEMMA InvokeEffect ==
  ASSUME TypeInv, NEW saved \in BOOLEAN, Invoke(saved)
  PROVE  /\ Len(invs) \in Nat /\ Len(invs') = Len(invs) + 1
         /\ \A n \in 1..Len(invs) : invs'[n] = invs[n]
         /\ invs'[Len(invs) + 1].req = mdc'
         /\ invs'[Len(invs) + 1].nested = (mdc # 0)
         /\ invs'[Len(invs) + 1].opens = ~InTransaction
         /\ invs'[Len(invs) + 1].cause = Cause
         /\ invs'[Len(invs) + 1].row = Len(rows) + 1
         /\ invs'[Len(invs) + 1].write = "none"
         /\ invs'[Len(invs) + 1].outcome = "running"
         /\ mdc' = IF mdc # 0 THEN mdc ELSE ids + 1
         /\ ids' = IF mdc # 0 THEN ids ELSE ids + 1
         /\ IF ~InTransaction THEN Begin ELSE UNCHANGED tx
         /\ Record("command", Len(invs) + 1, mdc', FALSE, saved)
         /\ NewInvocation /\ KnownInvs /\ MayCall /\ UNCHANGED <<exc, events, snapshots>>
<1>1. invs \in Seq(InvType) /\ Len(invs) \in Nat
  BY DEF TypeInv, HistoryOK
<1>2. \E r : /\ invs' = Append(invs, r) /\ r.req = mdc' /\ r.nested = (mdc # 0)
             /\ r.opens = ~InTransaction /\ r.cause = Cause /\ r.row = Len(rows) + 1
             /\ r.write = "none" /\ r.outcome = "running"
  BY DEF Invoke
<1>3. /\ Len(invs') = Len(invs) + 1
      /\ \A n \in 1..Len(invs) : invs'[n] = invs[n]
      /\ invs'[Len(invs) + 1].req = mdc'
      /\ invs'[Len(invs) + 1].nested = (mdc # 0)
      /\ invs'[Len(invs) + 1].opens = ~InTransaction
      /\ invs'[Len(invs) + 1].cause = Cause
      /\ invs'[Len(invs) + 1].row = Len(rows) + 1
      /\ invs'[Len(invs) + 1].write = "none"
      /\ invs'[Len(invs) + 1].outcome = "running"
  BY <1>1, <1>2
<1>4. /\ mdc' = IF mdc # 0 THEN mdc ELSE ids + 1
      /\ ids' = IF mdc # 0 THEN ids ELSE ids + 1
      /\ IF ~InTransaction THEN Begin ELSE UNCHANGED tx
      /\ Record("command", Len(invs) + 1, mdc', FALSE, saved)
      /\ MayCall /\ UNCHANGED <<exc, events, snapshots>>
  BY DEF Invoke
<1>5. KnownInvs
  BY KnownInvsStep DEF Next, Call
<1> QED
  BY <1>1, <1>3, <1>4, <1>5, InvokeInvocation

\* A new invocation joins or opens; the others keep their choice.
LEMMA JoinsStep ==
  ASSUME ChainInv, JoinsOrOpens, [Next]_vars
  PROVE  JoinsOrOpens'
<1>1. invs \in Seq(InvType) /\ Len(invs) \in Nat
  BY DEF ChainInv, TypeInv, HistoryOK
<1>2. CASE SameInvs
  BY <1>2 DEF SameInvs, JoinsOrOpens
<1>3. ASSUME NEW saved \in BOOLEAN, Invoke(saved)
      PROVE  JoinsOrOpens'
  <2> DEFINE m == Len(invs) + 1
  <2>1. /\ Len(invs') = m /\ \A n \in 1..Len(invs) : invs'[n] = invs[n]
        /\ invs'[m].nested = (mdc # 0) /\ invs'[m].opens = ~InTransaction
        /\ invs'[m].joins = (mdc # 0 /\ SynchronizationActive)
    <3>1. \E r : /\ invs' = Append(invs, r) /\ r.nested = (mdc # 0) /\ r.opens = ~InTransaction
                 /\ r.joins = (mdc # 0 /\ SynchronizationActive)
      BY <1>3 DEF Invoke
    <3> QED
      BY <1>1, <3>1
  <2>2. MayCall
    BY <1>3 DEF Invoke
  <2>3. /\ ~InTransaction => ~SynchronizationActive
        /\ InTransaction => mdc # 0 /\ SynchronizationActive
    BY <2>2, CallablePhase, CallableMdc DEF ChainInv, InTransaction, SynchronizationActive
  <2>4. (invs'[m].joins <=> ~invs'[m].opens) /\ (invs'[m].joins => invs'[m].nested)
    BY <2>1, <2>3
  <2> QED
    BY <1>1, <2>1, <2>4 DEF JoinsOrOpens
<1>4. CASE UNCHANGED vars
  BY <1>4 DEF vars, JoinsOrOpens
<1> QED
  BY <1>2, <1>3, <1>4, InvsStep DEF ChainInv

\* Whoever may run a command finds a transaction on the thread and a request id in
\* MDC, or neither: an invocation joins its caller's transaction as a nested one, or
\* opens its own.
THEOREM InvocationJoinsOrOpens == Spec => []JoinsOrOpens
<1>1. Init => JoinsOrOpens
  <2>1. Len(<<>>) = 0
    OBVIOUS
  <2> QED
    BY <2>1 DEF Init, JoinsOrOpens
<1>2. ChainInv /\ JoinsOrOpens /\ [Next]_vars => JoinsOrOpens'
  BY JoinsStep
<1> QED
  BY <1>1, <1>2, ChainCorrect, PTL DEF Spec

-----------------------------------------------------------------------------
(***************************************************************************)
(* What an event that is queued, published, put off or heard has to do     *)
(* with the request it is handled in: it was published from outside, or    *)
(* the command that emitted it belongs to the request.                     *)
(***************************************************************************)
Tells(evs, is, e, r) ==
    /\ e \in 1..Len(evs)
    /\ evs[e].by = 0 \/ (evs[e].by \in 1..Len(is) /\ is[evs[e].by].req = r)
\* An event published from outside, and one that belongs to request r.
Outside(evs, e) == e \in 1..Len(evs) /\ evs[e].by = 0
From(e, r) == Tells(events, invs, e, r)

\* Frame i handles e: for an invocation below it, if e has been emitted by a command.
Sent(e, i) == Outside(events, e) \/ \E j \in Invoking : j < i /\ From(e, Of(j).req)

\* The five places an event may wait in, and the rows that tell of it.
Queued  == \A i \in Invoking : \A k \in 1..Len(stack[i].deferred) :
               From(stack[i].deferred[k], Of(i).req)
Sending == \A i \in Publishing : \A k \in 1..Len(stack[i].todo) : Sent(stack[i].todo[k], i)
Heard   == \A i \in Listening : Sent(stack[i].event, i)
PutOff  ==
    /\ \A c \in 1..Len(tx.callbacks) : \A k \in 1..Len(tx.callbacks[c].events) :
          From(tx.callbacks[c].events[k], tx.callbacks[c].req)
    /\ \A k \in 1..Len(tx.listeners) : From(tx.listeners[k].event, tx.listeners[k].req)
Caused  == \A n \in 1..Len(invs) : invs[n].cause # 0 => From(invs[n].cause, invs[n].req)
EventRows == \A i \in 1..Len(rows) : rows[i].kind = "event" => From(rows[i].of, rows[i].req)

Emitted == Queued /\ Sending /\ Heard /\ PutOff /\ Caused /\ EventRows

\* Events are added, and counted as they are delivered.
KnownEvents ==
    /\ Len(events') \in Nat /\ Len(events') >= Len(events)
    /\ \A e \in 1..Len(events) :
          events'[e].by = events[e].by /\ events'[e].timing = events[e].timing

\* Every step keeps what is known of the events.
LEMMA KnownEventsStep ==
  ASSUME TypeInv, [Next]_vars
  PROVE  KnownEvents
<1>1. events \in Seq(EventType) /\ Len(events) \in Nat
  BY DEF TypeInv, HistoryOK
<1>2. CASE UNCHANGED events
  BY <1>1, <1>2 DEF KnownEvents
<1>3. CASE PublishRaw
  BY <1>1, <1>3, PublishRawEffect DEF SameEvents, KnownEvents
<1>4. ASSUME NEW nNow \in 0..MaxEvents, NEW nLater \in 0..MaxEvents, HandlerReturns(nNow, nLater)
      PROVE  KnownEvents
  BY <1>1, <1>4, HandlerReturnsEffect DEF NewEvents, KnownEvents
<1>5. ASSUME NEW timing \in Publishes, PublishExternal(timing)
      PROVE  KnownEvents
  <2>1. \E e : events' = Append(events, e)
    BY <1>5 DEF PublishExternal
  <2> QED
    BY <1>1, <2>1 DEF KnownEvents
<1>6. CASE Proceed
  <2>1. CASE \/ HandlerThrows \/ RegisterDeferred \/ StampSuccess \/ StampSuccessThrows \/ Commits
             \/ CommitThrows \/ UnexpectedRollback \/ RunCallback \/ CallbacksDone \/ Completed
             \/ Abort \/ StampFailure \/ MarkEventsFailed \/ FailureStampThrows
             \/ PublishDone \/ PublishThrows \/ PolicyReturns \/ PolicyThrows \/ PolicyCatches
             \/ HandlerCatches
    BY <1>2, <2>1 DEF HandlerThrows, RegisterDeferred, StampSuccess, StampSuccessThrows, Commits,
          CommitThrows, UnexpectedRollback, RunCallback, CallbacksDone, Completed, Abort,
          StampFailure, MarkEventsFailed, FailureStampThrows, PublishDone,
          PublishThrows, PolicyReturns, PolicyThrows, PolicyCatches, HandlerCatches
  <2>2. CASE \/ \E s \in {"return", "throw"} : Finish(s)
             \/ \E saved \in BOOLEAN : LogDeferred(saved) \/ PublishWrapper(saved)
    BY <1>2, <2>2 DEF Finish, LogDeferred, PublishWrapper
  <2> QED
    BY <1>3, <1>4, <1>6, <2>1, <2>2 DEF Proceed
<1>7. CASE Call
  BY <1>2, <1>5, <1>7 DEF Call, Invoke, ParticipantFails
<1>8. CASE Crash
  BY <1>2, <1>8 DEF Crash
<1> QED
  BY <1>2, <1>6, <1>7, <1>8 DEF Next, vars

\* What an event tells of does not change.
LEMMA TellsKept ==
  ASSUME TypeInv, KnownInvs, KnownEvents
  PROVE  /\ \A e : Outside(events, e) => Outside(events', e)
         /\ \A e, r : Tells(events, invs, e, r) => Tells(events', invs', e, r)
<1>1. Len(events) \in Nat /\ Len(invs) \in Nat
  BY DEF TypeInv, HistoryOK
<1> QED
  BY <1>1 DEF KnownInvs, KnownEvents, Outside, Tells

\* Who handles an event does so until its frame is popped, and frames below stay.
Keeps(i) ==
    /\ i \in 1..Len(stack) /\ stack'[i].kind = stack[i].kind
    /\ stack[i].kind = "invoke" => stack'[i].inv = stack[i].inv
    /\ stack[i].kind = "publish" =>
          \/ stack'[i].todo = stack[i].todo
          \/ stack[i].todo # <<>> /\ stack'[i].todo = Tail(stack[i].todo)
    /\ stack[i].kind = "policy" => stack'[i].event = stack[i].event

\* The steps that push a frame.
Dispatching == \E nNow, nLater \in 0..MaxEvents : HandlerReturns(nNow, nLater)
Pushing == \/ Dispatching \/ RunCallback \/ PublishRaw
           \/ \E saved \in BOOLEAN : Invoke(saved)
           \/ \E timing \in Publishes : PublishExternal(timing)

\* The stack after a step: the frames kept, and at most one new one.
StackKept ==
    /\ Len(stack') \in Nat /\ Len(stack') <= Len(stack) + 1
    /\ \A i \in 1..Len(stack') : i <= Len(stack) => Keeps(i)
    /\ \A i \in Invoking' : i <= Len(stack) /\ ~Dispatching =>
          stack'[i].deferred = stack[i].deferred

\* What each way to change the stack keeps.
LEMMA StackKeptIf ==
  ASSUME TypeInv,
         \/ UNCHANGED stack
         \/ Running /\ Top.kind = "invoke" /\ \E s \in InvokeSteps : Goto(s)
         \/ Running /\ \E throws : Leave(throws)
         \/ \E saved \in BOOLEAN : PublishWrapper(saved)
         \/ stack' = <<>>
  PROVE  StackKept /\ Len(stack') <= Len(stack)
<1>1. PICK n \in Nat : n = Len(stack)
  BY DEF TypeInv, StackOK
<1>2. stack \in Seq(FrameType) /\ (Running => Top = stack[n] /\ n >= 1)
  BY <1>1, TopFrame DEF TypeInv, StackOK
<1>3. ASSUME NEW i \in 1..n, stack'[i] = stack[i]
      PROVE  Keeps(i)
  BY <1>1, <1>3 DEF Keeps
<1>4. CASE UNCHANGED stack
  BY <1>1, <1>3, <1>4 DEF StackKept
<1>5. ASSUME Running, Top.kind = "invoke", NEW s \in InvokeSteps, Goto(s)
      PROVE  StackKept /\ Len(stack') = n
  <2>1. /\ Len(stack') = n /\ \A i \in 1..n : i # n => stack'[i] = stack[i]
        /\ stack'[n].kind = "invoke" /\ stack'[n].inv = Top.inv
        /\ stack'[n].deferred = Top.deferred
    BY <1>1, <1>2, <1>5, GotoStack
  <2>2. Keeps(n)
    BY <1>1, <1>2, <1>5, <2>1 DEF Keeps
  <2> QED
    BY <1>1, <1>2, <1>3, <1>5, <2>1, <2>2 DEF StackKept, Invoking
<1>6. ASSUME Running, NEW throws, Leave(throws)
      PROVE  StackKept /\ Len(stack') <= n
  <2>1. Len(stack') = n - 1 /\ \A i \in 1..(n - 1) : stack'[i] = stack[i]
    BY <1>1, <1>2, <1>6, LeaveStack
  <2>2. n - 1 \in Nat /\ \A i \in 1..(n - 1) : i \in 1..n
    BY <1>2, <1>6
  <2> QED
    BY <1>1, <1>3, <2>1, <2>2 DEF StackKept, Invoking
<1>7. ASSUME NEW saved \in BOOLEAN, PublishWrapper(saved)
      PROVE  StackKept /\ Len(stack') = n
  <2>1. /\ Len(stack') = n /\ \A i \in 1..n : i # n => stack'[i] = stack[i]
        /\ stack'[n].kind = "publish" /\ stack'[n].todo = Top.todo
    BY <1>1, <1>7, PublishWrapperEffect DEF WrapperFrames
  <2>2. Running /\ Top.kind = "publish"
    BY <1>7 DEF PublishWrapper, At
  <2>3. Keeps(n)
    BY <1>1, <1>2, <2>1, <2>2 DEF Keeps
  <2> QED
    BY <1>1, <1>2, <1>3, <2>1, <2>2, <2>3 DEF StackKept, Invoking
<1>8. CASE stack' = <<>>
  <2>1. Len(stack') = 0
    BY <1>8
  <2> QED
    BY <1>1, <2>1 DEF StackKept, Invoking
<1> QED
  BY <1>1, <1>4, <1>5, <1>6, <1>7, <1>8

\* So does a frame that is pushed.
LEMMA StackKeptPushing ==
  ASSUME TypeInv, Pushing
  PROVE  StackKept
<1>1. PICK n \in Nat : n = Len(stack)
  BY DEF TypeInv, StackOK
<1>2. stack \in Seq(FrameType) /\ (Running => Top = stack[n] /\ n >= 1)
  BY <1>1, TopFrame DEF TypeInv, StackOK
<1>3. ASSUME NEW i \in 1..n, stack'[i] = stack[i]
      PROVE  Keeps(i)
  BY <1>1, <1>3 DEF Keeps
<1>4. ASSUME NEW f, Push(f)
      PROVE  StackKept
  <2>1. Len(stack') = n + 1 /\ \A i \in 1..n : stack'[i] = stack[i]
    BY <1>1, <1>4, PushFrames
  <2> QED
    BY <1>1, <1>3, <2>1 DEF StackKept, Invoking
<1>5. CASE RunCallback \/ (\E saved \in BOOLEAN : Invoke(saved))
           \/ \E timing \in Publishes : PublishExternal(timing)
  <2>1. \E f : Push(f)
    BY <1>5 DEF RunCallback, Invoke, PublishExternal
  <2> QED
    BY <1>4, <2>1
<1>6. CASE PublishRaw
  <2>1. /\ Len(stack') = n + 1 /\ \A i \in 1..(n - 1) : stack'[i] = stack[i]
        /\ stack'[n].kind = "publish" /\ stack'[n].todo = Tail(Top.todo)
    BY <1>1, <1>6, PublishRawEffect DEF ListenFrames
  <2>2. /\ Running /\ Top.kind = "publish" /\ Top.todo # <<>>
    <3>1. Running /\ Top.kind = "publish" /\ Top.step = "raw"
      BY <1>6 DEF PublishRaw, At
    <3> QED
      BY <3>1, TopPublication
  <2>3. Keeps(n)
    BY <1>1, <1>2, <2>1, <2>2 DEF Keeps
  <2>4. \A i \in 1..n : Keeps(i) /\ (stack'[i].kind = "invoke" => stack'[i] = stack[i])
    BY <1>1, <1>3, <2>1, <2>3
  <2> QED
    BY <1>1, <2>1, <2>4 DEF StackKept, Invoking
<1>7. ASSUME NEW nNow \in 0..MaxEvents, NEW nLater \in 0..MaxEvents, HandlerReturns(nNow, nLater)
      PROVE  StackKept
  <2>1. /\ Len(stack') = n + 1 /\ \A i \in 1..(n - 1) : stack'[i] = stack[i]
        /\ stack'[n].kind = "invoke" /\ stack'[n].inv = Top.inv
    BY <1>1, <1>7, HandlerReturnsEffect DEF DispatchFrames
  <2>2. Running /\ Top.kind = "invoke" /\ Dispatching
    BY <1>7 DEF HandlerReturns, At, Dispatching
  <2>3. Keeps(n)
    BY <1>1, <1>2, <2>1, <2>2 DEF Keeps
  <2>4. \A i \in 1..n : Keeps(i)
    BY <1>1, <1>3, <2>1, <2>3
  <2> QED
    BY <1>1, <2>1, <2>2, <2>4 DEF StackKept
<1> QED
  BY <1>5, <1>6, <1>7 DEF Pushing, Dispatching

\* How a step changes the stack.
LEMMA StackMoves ==
  ASSUME [Next]_vars
  PROVE  \/ UNCHANGED <<stack, mdc>>
         \/ Running /\ Top.kind = "invoke" /\ \E s \in InvokeSteps : Goto(s)
         \/ Running /\ \E throws \in BOOLEAN : Leave(throws)
         \/ \E saved \in BOOLEAN : PublishWrapper(saved)
         \/ Pushing
         \/ Crash /\ stack' = <<>>
<1>1. CASE UNCHANGED <<stack, mdc>>
  BY <1>1
<1>2. CASE Proceed /\ ~Pushing
  <2>1. CASE HandlerThrows \/ RegisterDeferred \/ StampSuccess \/ Commits \/ CommitThrows
             \/ UnexpectedRollback \/ CallbacksDone \/ Completed \/ Abort \/ StampFailure
             \/ MarkEventsFailed \/ FailureStampThrows
    <3>1. Running /\ Top.kind = "invoke" /\ \E s \in InvokeSteps : Goto(s)
      BY <2>1 DEF HandlerThrows, RegisterDeferred, StampSuccess, Commits, CommitThrows,
            UnexpectedRollback, CallbacksDone, Completed, Abort, StampFailure, MarkEventsFailed,
            FailureStampThrows, At, InvokeSteps
    <3> QED
      BY <3>1
  <2>2. CASE PublishDone \/ PolicyReturns \/ PolicyThrows \/ \E s \in {"return", "throw"} : Finish(s)
    <3>1. Running /\ \E throws \in BOOLEAN : Leave(throws)
      BY <2>2 DEF PublishDone, PolicyReturns, PolicyThrows, Finish, At
    <3> QED
      BY <3>1
  <2>3. CASE PublishThrows
    BY <2>3 DEF PublishThrows
  <2>4. CASE StampSuccessThrows \/ PolicyCatches \/ HandlerCatches
             \/ \E saved \in BOOLEAN : LogDeferred(saved)
    BY <2>4 DEF StampSuccessThrows, PolicyCatches, HandlerCatches, LogDeferred
  <2>5. CASE \E saved \in BOOLEAN : PublishWrapper(saved)
    BY <2>5
  <2> QED
    BY <1>2, <2>1, <2>2, <2>3, <2>4, <2>5 DEF Proceed, Pushing, Dispatching
<1>3. CASE Call /\ ~Pushing
  BY <1>3 DEF Call, Pushing, ParticipantFails
<1>4. CASE Crash
  BY <1>4 DEF Crash
<1> QED
  BY <1>1, <1>2, <1>3, <1>4 DEF Next, vars

\* No step changes what a frame that stays is about, and at most one frame is pushed.
LEMMA StackStep ==
  ASSUME TypeInv, [Next]_vars
  PROVE  StackKept /\ (Pushing \/ Len(stack') <= Len(stack))
BY StackMoves, StackKeptIf, StackKeptPushing

-----------------------------------------------------------------------------
\* An event that a frame handles is still handled for the same request.
LEMMA SentKept ==
  ASSUME TypeInv, KnownInvs, KnownEvents, StackKept, NEW i \in 1..Len(stack'), NEW e, Sent(e, i)
  PROVE  Outside(events', e) \/ \E j \in Invoking' : j < i /\ Tells(events', invs', e, Of(j)'.req)
<1>1. Len(stack) \in Nat /\ Len(stack') \in Nat /\ i <= Len(stack) + 1
  BY DEF TypeInv, StackOK, StackKept
<1>2. CASE Outside(events, e)
  BY <1>2, TellsKept
<1>3. ASSUME NEW j \in Invoking, j < i, From(e, Of(j).req)
      PROVE  j \in Invoking' /\ Tells(events', invs', e, Of(j)'.req)
  <2>1. j \in 1..Len(stack') /\ j <= Len(stack) /\ stack[j].kind = "invoke"
    BY <1>1, <1>3 DEF Invoking
  <2>2. stack'[j].kind = "invoke" /\ stack'[j].inv = stack[j].inv
    BY <2>1 DEF StackKept, Keeps
  <2>3. Of(j)'.req = Of(j).req
    BY <2>2, KnownOf
  <2> QED
    BY <1>3, <2>1, <2>2, <2>3, TellsKept DEF From, Invoking
<1> QED
  BY <1>2, <1>3 DEF Sent

\* What the new frame of each step is.
LEMMA PushedFrame ==
  ASSUME TypeInv, Pushing
  PROVE  LET f == stack'[Len(stack) + 1]
         IN  /\ Dispatching \/ RunCallback \/ (\E timing \in Publishes : PublishExternal(timing)) =>
                  f.kind = "publish"
             /\ PublishRaw => f.kind = "policy" /\ f.event = Head(Top.todo)
             /\ (\E saved \in BOOLEAN : Invoke(saved)) => f.kind = "invoke" /\ f.deferred = <<>>
             /\ RunCallback => f.todo = NextCallback.events
             /\ (\E timing \in Publishes : PublishExternal(timing)) => f.todo = <<Len(events) + 1>>
<1>1. Dispatching => stack'[Len(stack) + 1].kind = "publish"
  BY HandlerReturnsEffect DEF Dispatching, DispatchFrames
<1>3. RunCallback => \E f : Push(f) /\ f.kind = "publish" /\ f.todo = NextCallback.events
  BY DEF RunCallback
<1>4. (\E timing \in Publishes : PublishExternal(timing)) =>
         \E f : Push(f) /\ f.kind = "publish" /\ f.todo = <<Len(events) + 1>>
  BY DEF PublishExternal
<1>5. (\E saved \in BOOLEAN : Invoke(saved)) =>
         \E f : Push(f) /\ f.kind = "invoke" /\ f.deferred = <<>>
  BY DEF Invoke
<1>6. \A f : Push(f) => stack'[Len(stack) + 1] = f
  BY PushFrames
<1>7. PublishRaw => stack'[Len(stack) + 1].kind = "policy"
                    /\ stack'[Len(stack) + 1].event = Head(Top.todo)
  BY PublishRawEffect DEF ListenFrames
<1> QED
  BY <1>1, <1>3, <1>4, <1>5, <1>6, <1>7

\* What a publication publishes is in the chain of an invocation below it.
LEMMA SendingStep ==
  ASSUME ChainInv, Emitted, KnownInvs, [Next]_vars
  PROVE  Sending'
<1>1. TypeInv /\ KnownEvents /\ StackKept /\ Sending /\ PutOff /\ Mdc
  BY StackStep, KnownEventsStep DEF ChainInv, Emitted
<1>2. PICK n \in Nat : n = Len(stack)
  BY <1>1 DEF TypeInv, StackOK
<1>3. SUFFICES ASSUME NEW i \in Publishing', NEW k \in 1..Len(stack'[i].todo)
               PROVE  \/ Outside(events', stack'[i].todo[k])
                      \/ \E j \in Invoking' :
                            j < i /\ Tells(events', invs', stack'[i].todo[k], Of(j)'.req)
  BY DEF Sending, Sent, From
<1>4. i \in 1..Len(stack') /\ stack'[i].kind = "publish" /\ i <= n + 1
  BY <1>1, <1>2 DEF Publishing, StackKept
<1>5. CASE i <= n
  <2>1. Keeps(i)
    BY <1>1, <1>2, <1>4, <1>5 DEF StackKept
  <2>2. i \in Publishing /\ stack[i].todo \in Seq(Nat)
    <3>1. i \in Publishing
      BY <1>4, <2>1 DEF Keeps, Publishing
    <3>2. stack[i] \in PublishFrame
      BY <1>1, <3>1 DEF Publishing, TypeInv, StackOK, FrameType, InvokeFrame, PolicyFrame
    <3> QED
      BY <3>1, <3>2 DEF PublishFrame
  <2>3. \E l \in 1..Len(stack[i].todo) : stack'[i].todo[k] = stack[i].todo[l]
    <3>1. CASE stack'[i].todo = stack[i].todo
      BY <3>1
    <3>2. CASE stack[i].todo # <<>> /\ stack'[i].todo = Tail(stack[i].todo)
      <4>1. k + 1 \in 1..Len(stack[i].todo) /\ stack'[i].todo[k] = stack[i].todo[k + 1]
        BY <2>2, <3>2
      <4> QED
        BY <4>1
    <3> QED
      BY <2>1, <2>2, <3>1, <3>2 DEF Keeps, Publishing
  <2>4. Sent(stack'[i].todo[k], i)
    BY <1>1, <2>2, <2>3 DEF Sending
  <2> QED
    BY <1>1, <1>4, <2>4, SentKept
<1>6. CASE i = n + 1
  <2>1. Pushing
    BY <1>1, <1>2, <1>4, <1>6, StackStep
  <2>2. CASE RunCallback
    <3>1. stack'[i].todo = NextCallback.events
      BY <1>1, <1>2, <1>6, <2>1, <2>2, PushedFrame
    <3>2. Running /\ Top.kind = "invoke" /\ tx.due > 0
      BY <2>2 DEF RunCallback, At
    <3>3. 1 \in 1..Len(tx.callbacks) /\ NextCallback = tx.callbacks[1] /\ n \in Invoking
      <4>1. tx.callbacks \in Seq(CallbackType) /\ tx.due \in Nat /\ tx.due <= Len(tx.callbacks)
        BY <1>1 DEF TypeInv, TxOK, TxType
      <4> QED
        BY <1>1, <1>2, <3>2, <4>1, TopInvocation DEF NextCallback
    <3>4. From(stack'[i].todo[k], Of(n).req)
      BY <1>1, <3>1, <3>3 DEF PutOff, Mdc, OneRequest, TxReqs
    <3>5. Sent(stack'[i].todo[k], i)
      BY <1>6, <3>3, <3>4 DEF Sent
    <3> QED
      BY <1>1, <1>4, <3>5, SentKept
  <2>3. CASE \E timing \in Publishes : PublishExternal(timing)
    <3>1. stack'[i].todo = <<Len(events) + 1>>
      BY <1>1, <1>2, <1>6, <2>1, <2>3, PushedFrame
    <3>2. \E e : events' = Append(events, e) /\ e.by = 0
      BY <2>3 DEF PublishExternal
    <3>3. events \in Seq(EventType)
      BY <1>1 DEF TypeInv, HistoryOK
    <3>4. stack'[i].todo[k] = Len(events) + 1
      BY <3>1
    <3>5. Outside(events', Len(events) + 1)
      BY <3>2, <3>3 DEF Outside
    <3> QED
      BY <3>4, <3>5
  <2>4. ASSUME NEW nNow \in 0..MaxEvents, NEW nLater \in 0..MaxEvents, HandlerReturns(nNow, nLater)
        PROVE  \E j \in Invoking' : j < i /\ Tells(events', invs', stack'[i].todo[k], Of(j)'.req)
    <3>1. /\ nNow \in Nat /\ nLater \in Nat /\ Len(events) \in Nat /\ SameInvs
          /\ NewEvents(Top.inv, nNow, nLater) /\ DispatchFrames(nNow, nLater)
          /\ Running /\ Top.kind = "invoke"
      BY <1>1, <2>4, HandlerReturnsEffect DEF HandlerReturns, At
    <3>2. Top.inv \in 1..Len(invs) /\ n \in 1..(n + 1) /\ Top.inv \in Nat \ {0}
      BY <1>1, <1>2, <3>1, TopInvocation
    <3>3. /\ Len(stack') = n + 1 /\ stack'[n].kind = "invoke" /\ stack'[n].inv = Top.inv
          /\ Len(stack'[i].todo) = nNow /\ stack'[i].todo[k] = Len(events) + k
      BY <1>2, <1>3, <1>6, <3>1 DEF DispatchFrames
    <3>4. n \in Invoking' /\ Of(n)' = invs'[Top.inv]
      BY <1>2, <3>2, <3>3, <1>1, TopInvocation, <3>1 DEF Invoking, Of
    <3>5. Len(events) + k \in 1..Len(events') /\ events'[Len(events) + k].by = Top.inv
      <4>1. k \in 1..nNow /\ Len(events') = Len(events) + nNow + nLater
        BY <3>1, <3>3 DEF NewEvents
      <4>2. Len(events) + k \in (Len(events) + 1)..Len(events')
        BY <3>1, <4>1
      <4> QED
        BY <3>1, <4>2 DEF NewEvents
    <3>6. Tells(events', invs', stack'[i].todo[k], Of(n)'.req)
      BY <3>1, <3>2, <3>3, <3>4, <3>5 DEF Tells, SameInvs
    <3> QED
      BY <1>6, <3>4, <3>6
  <2>5. ~PublishRaw /\ ~ \E saved \in BOOLEAN : Invoke(saved)
    BY <1>1, <1>2, <1>4, <1>6, <2>1, PushedFrame
  <2> QED
    BY <2>1, <2>2, <2>3, <2>4, <2>5 DEF Pushing, Dispatching
<1> QED
  BY <1>2, <1>4, <1>5, <1>6

\* What a listener hears is what the publication below it took from its list.
LEMMA HeardStep ==
  ASSUME ChainInv, Emitted, KnownInvs, [Next]_vars
  PROVE  Heard'
<1>1. TypeInv /\ KnownEvents /\ StackKept /\ Sending /\ Heard
  BY StackStep, KnownEventsStep DEF ChainInv, Emitted
<1>2. PICK n \in Nat : n = Len(stack)
  BY <1>1 DEF TypeInv, StackOK
<1>3. SUFFICES ASSUME NEW i \in Listening'
               PROVE  \/ Outside(events', stack'[i].event)
                      \/ \E j \in Invoking' :
                            j < i /\ Tells(events', invs', stack'[i].event, Of(j)'.req)
  BY DEF Heard, Sent, From
<1>4. i \in 1..Len(stack') /\ stack'[i].kind = "policy" /\ i <= n + 1
  BY <1>1, <1>2 DEF Listening, StackKept
<1>5. Sent(stack'[i].event, i)
  <2>1. CASE i <= n
    <3>1. Keeps(i)
      BY <1>1, <1>2, <1>4, <2>1 DEF StackKept
    <3> QED
      BY <1>1, <1>4, <3>1 DEF Keeps, Heard, Listening
  <2>2. CASE i = n + 1
    <3>1. Pushing
      BY <1>1, <1>2, <1>4, <2>2, StackStep
    <3>2. PublishRaw /\ stack'[i].event = Head(Top.todo)
      BY <1>1, <1>2, <1>4, <2>2, <3>1, PushedFrame DEF Pushing
    <3>3. Running /\ Top.kind = "publish" /\ Top.step = "raw"
      BY <3>2 DEF PublishRaw, At
    <3>4. n \in Publishing /\ Top = stack[n] /\ Top.todo # <<>> /\ Top.todo \in Seq(Nat)
      BY <1>1, <1>2, <3>3, TopPublication
    <3>5. Sent(Head(Top.todo), n)
      BY <1>1, <3>4 DEF Sending
    <3>6. \A j \in Invoking : j < n => j < n + 1
      BY <1>2 DEF Invoking
    <3> QED
      BY <2>2, <3>2, <3>5, <3>6 DEF Sent
  <2> QED
    BY <1>2, <1>4, <2>1, <2>2
<1> QED
  BY <1>1, <1>4, <1>5, SentKept

\* What an invocation has queued for after its commit it emitted itself.
LEMMA QueuedStep ==
  ASSUME ChainInv, Emitted, KnownInvs, [Next]_vars
  PROVE  Queued'
<1>1. TypeInv /\ KnownEvents /\ StackKept /\ Queued
  BY StackStep, KnownEventsStep DEF ChainInv, Emitted
<1>2. PICK n \in Nat : n = Len(stack)
  BY <1>1 DEF TypeInv, StackOK
<1>3. SUFFICES ASSUME NEW i \in Invoking', NEW k \in 1..Len(stack'[i].deferred)
               PROVE  Tells(events', invs', stack'[i].deferred[k], Of(i)'.req)
  BY DEF Queued, From
<1>4. i \in 1..Len(stack') /\ stack'[i].kind = "invoke" /\ i <= n + 1
  BY <1>1, <1>2 DEF Invoking, StackKept
<1>5. ASSUME i <= n, stack'[i].deferred = stack[i].deferred
      PROVE  Tells(events', invs', stack'[i].deferred[k], Of(i)'.req)
  <2>1. Keeps(i)
    BY <1>1, <1>2, <1>4, <1>5 DEF StackKept
  <2>2. i \in Invoking /\ stack'[i].inv = stack[i].inv
    BY <1>4, <2>1 DEF Keeps, Invoking
  <2>3. Of(i)'.req = Of(i).req /\ From(stack'[i].deferred[k], Of(i).req)
    BY <1>1, <1>5, <2>2, KnownOf DEF Queued
  <2> QED
    BY <1>1, <2>3, TellsKept DEF From
<1>6. CASE i <= n /\ ~Dispatching
  BY <1>1, <1>2, <1>5, <1>6 DEF StackKept
<1>7. ASSUME i <= n, NEW nNow \in 0..MaxEvents, NEW nLater \in 0..MaxEvents,
             HandlerReturns(nNow, nLater)
      PROVE  Tells(events', invs', stack'[i].deferred[k], Of(i)'.req)
  <2>1. /\ nNow \in Nat /\ nLater \in Nat /\ Len(events) \in Nat /\ SameInvs
        /\ NewEvents(Top.inv, nNow, nLater) /\ DispatchFrames(nNow, nLater)
        /\ Running /\ Top.kind = "invoke"
    BY <1>1, <1>7, HandlerReturnsEffect DEF HandlerReturns, At
  <2>2. CASE i # n
    <3>1. i \in 1..(n - 1)
      BY <1>2, <1>4, <1>7, <2>2
    <3> QED
      BY <1>2, <1>5, <1>7, <2>1, <3>1 DEF DispatchFrames
  <2>3. CASE i = n
    <3>1. /\ Top.inv \in 1..Len(invs) /\ Top.inv \in Nat \ {0} /\ Of(i)' = invs'[Top.inv]
      BY <1>1, <1>2, <2>1, <2>3, TopInvocation DEF DispatchFrames, Of
    <3>2. k \in 1..nLater /\ stack'[i].deferred[k] = Len(events) + nNow + k
      BY <1>2, <1>3, <2>1, <2>3 DEF DispatchFrames
    <3>3. Len(events) + nNow + k \in 1..Len(events')
          /\ events'[Len(events) + nNow + k].by = Top.inv
      <4>1. Len(events') = Len(events) + nNow + nLater
        BY <2>1 DEF NewEvents
      <4>2. Len(events) + nNow + k \in (Len(events) + 1)..Len(events')
        BY <2>1, <3>2, <4>1
      <4> QED
        BY <2>1, <4>2 DEF NewEvents
    <3> QED
      BY <2>1, <3>1, <3>2, <3>3 DEF Tells, SameInvs
  <2> QED
    BY <2>2, <2>3
<1>8. CASE i = n + 1
  <2>1. Pushing
    BY <1>1, <1>2, <1>4, <1>8, StackStep
  <2>2. stack'[i].deferred = <<>>
    BY <1>1, <1>2, <1>4, <1>8, <2>1, PushedFrame DEF Pushing
  <2>3. Len(stack'[i].deferred) = 0
    BY <2>2
  <2> QED
    BY <2>3
<1> QED
  BY <1>2, <1>4, <1>6, <1>7, <1>8 DEF Dispatching

\* Only two actions put something off to the end of the transaction.
LessPutOff ==
    /\ \/ tx'.callbacks = tx.callbacks
       \/ tx'.callbacks = <<>>
       \/ tx.callbacks # <<>> /\ tx'.callbacks = Tail(tx.callbacks)
    /\ \/ tx'.listeners = tx.listeners
       \/ tx'.listeners = <<>>
       \/ tx.listeners # <<>> /\ tx'.listeners = Tail(tx.listeners)

\* Every other step drops or keeps what was put off.
LEMMA PutOffKinds ==
  ASSUME TypeInv, [Next]_vars
  PROVE  \/ LessPutOff
         \/ RegisterDeferred
         \/ \E saved \in BOOLEAN : PublishWrapper(saved)
<1>1. TxOK /\ tx.callbacks \in Seq(CallbackType) /\ tx.due \in Nat /\ tx.due <= Len(tx.callbacks)
  BY DEF TypeInv, TxOK, TxType
<1>2. CASE UNCHANGED tx
  BY <1>2 DEF LessPutOff
<1>3. CASE \/ Begin \/ End \/ SetRollbackOnly \/ EnterAfterCommit \/ EnterAfterCompletion
           \/ tx.due > 0 /\ CallbackTaken
           \/ tx.listeners # <<>> /\ ListenerTaken
  <2>1. tx.due > 0 => tx.callbacks # <<>>
    BY <1>1
  <2> QED
    BY <1>1, <1>3, <2>1, TxFields DEF LessPutOff
<1>4. CASE Proceed
  <2>1. CASE \/ HandlerThrows \/ StampSuccess \/ StampSuccessThrows
             \/ StampFailure \/ MarkEventsFailed \/ FailureStampThrows \/ PublishRaw
             \/ PublishDone \/ PublishThrows \/ PolicyReturns \/ PolicyThrows \/ PolicyCatches
             \/ HandlerCatches
    BY <1>2, <2>1 DEF HandlerThrows, StampSuccess, StampSuccessThrows,
          StampFailure, MarkEventsFailed, FailureStampThrows, PublishRaw, PublishDone,
          PublishThrows, PolicyReturns, PolicyThrows, PolicyCatches, HandlerCatches
  <2>2. CASE \/ \E s \in {"return", "throw"} : Finish(s)
             \/ \E nNow, nLater \in 0..MaxEvents : HandlerReturns(nNow, nLater)
    BY <1>2, <2>2 DEF Finish, HandlerReturns
  <2>3. CASE \/ Commits \/ CommitThrows \/ UnexpectedRollback \/ RunCallback \/ CallbacksDone
             \/ Completed \/ \E saved \in BOOLEAN : LogDeferred(saved)
    BY <1>3, <2>3 DEF Commits, CommitThrows, UnexpectedRollback, RunCallback, CallbacksDone,
          Completed, LogDeferred
  <2>4. CASE Abort
    BY <1>2, <1>3, <2>4 DEF Abort
  <2> QED
    BY <1>4, <2>1, <2>2, <2>3, <2>4 DEF Proceed
<1>5. CASE Call
  BY <1>2, <1>3, <1>5 DEF Call, Invoke, PublishExternal, ParticipantFails
<1>6. CASE Crash
  BY <1>3, <1>6 DEF Crash
<1> QED
  BY <1>2, <1>4, <1>5, <1>6 DEF Next, vars

\* What is put off to the end of the transaction belongs to the request it is put
\* off for.
LEMMA PutOffStep ==
  ASSUME ChainInv, Emitted, KnownInvs, [Next]_vars
  PROVE  PutOff'
<1>1. TypeInv /\ TxOK /\ KnownEvents /\ Mdc /\ Queued /\ Sending /\ PutOff
  BY KnownEventsStep DEF ChainInv, Emitted, TypeInv
<1>2. PICK n \in Nat : n = Len(stack)
  BY <1>1 DEF TypeInv, StackOK
<1>3. /\ tx.callbacks \in Seq(CallbackType) /\ tx.listeners \in Seq(ListenerType)
      /\ \A c \in 1..Len(tx.callbacks) : tx.callbacks[c].events \in Seq(Nat)
  <2>1. tx.callbacks \in Seq(CallbackType) /\ tx.listeners \in Seq(ListenerType)
    BY <1>1 DEF TxOK, TxType
  <2>2. \A c \in 1..Len(tx.callbacks) : tx.callbacks[c] \in CallbackType
    BY <2>1
  <2> QED
    BY <2>1, <2>2 DEF CallbackType
<1>4. \A e, r : From(e, r) => Tells(events', invs', e, r)
  BY <1>1, TellsKept DEF From
<1>5. ASSUME \A c \in 1..Len(tx'.callbacks) :
                \/ \E b \in 1..Len(tx.callbacks) : tx'.callbacks[c] = tx.callbacks[b]
                \/ \A k \in 1..Len(tx'.callbacks[c].events) :
                      From(tx'.callbacks[c].events[k], tx'.callbacks[c].req),
             \A k \in 1..Len(tx'.listeners) :
                \/ \E l \in 1..Len(tx.listeners) : tx'.listeners[k] = tx.listeners[l]
                \/ From(tx'.listeners[k].event, tx'.listeners[k].req)
      PROVE  PutOff'
  <2>1. ASSUME NEW c \in 1..Len(tx'.callbacks), NEW k \in 1..Len(tx'.callbacks[c].events)
        PROVE  From(tx'.callbacks[c].events[k], tx'.callbacks[c].req)
    BY <1>1, <1>5, <2>1 DEF PutOff
  <2>2. ASSUME NEW k \in 1..Len(tx'.listeners)
        PROVE  From(tx'.listeners[k].event, tx'.listeners[k].req)
    BY <1>1, <1>5, <2>2 DEF PutOff
  <2> QED
    BY <1>4, <2>1, <2>2 DEF PutOff, From
<1>6. CASE LessPutOff
  <2>1. \A c \in 1..Len(tx'.callbacks) :
           \E b \in 1..Len(tx.callbacks) : tx'.callbacks[c] = tx.callbacks[b]
    <3>1. CASE tx'.callbacks = <<>>
      <4>1. Len(tx'.callbacks) = 0
        BY <3>1
      <4> QED
        BY <4>1
    <3>2. CASE tx.callbacks # <<>> /\ tx'.callbacks = Tail(tx.callbacks)
      <4>1. Len(tx'.callbacks) = Len(tx.callbacks) - 1 /\ Len(tx.callbacks) \in Nat
            /\ \A c \in 1..Len(tx'.callbacks) : tx'.callbacks[c] = tx.callbacks[c + 1]
        BY <1>3, <3>2
      <4>2. \A c \in 1..Len(tx'.callbacks) : c + 1 \in 1..Len(tx.callbacks)
        BY <4>1
      <4> QED
        BY <4>1, <4>2
    <3> QED
      BY <1>6, <3>1, <3>2 DEF LessPutOff
  <2>2. \A k \in 1..Len(tx'.listeners) :
           \E l \in 1..Len(tx.listeners) : tx'.listeners[k] = tx.listeners[l]
    <3>1. CASE tx'.listeners = <<>>
      <4>1. Len(tx'.listeners) = 0
        BY <3>1
      <4> QED
        BY <4>1
    <3>2. CASE tx.listeners # <<>> /\ tx'.listeners = Tail(tx.listeners)
      <4>1. Len(tx'.listeners) = Len(tx.listeners) - 1 /\ Len(tx.listeners) \in Nat
            /\ \A k \in 1..Len(tx'.listeners) : tx'.listeners[k] = tx.listeners[k + 1]
        BY <1>3, <3>2
      <4>2. \A k \in 1..Len(tx'.listeners) : k + 1 \in 1..Len(tx.listeners)
        BY <4>1
      <4> QED
        BY <4>1, <4>2
    <3> QED
      BY <1>6, <3>1, <3>2 DEF LessPutOff
  <2> QED
    BY <1>5, <2>1, <2>2
<1>7. CASE RegisterDeferred
  <2>1. CASE UNCHANGED tx
    BY <1>5, <2>1
  <2>2. CASE ~UNCHANGED tx
    <3> DEFINE d == [events |-> Top.deferred, req |-> IF mdc # 0 THEN mdc ELSE Inv.req]
    <3>1. RegisterCallback(d) /\ Running /\ Top.kind = "invoke"
      BY <1>7, <2>2 DEF RegisterDeferred, At
    <3>2. n \in Invoking /\ Inv = Of(n) /\ Top = stack[n]
      BY <1>1, <1>2, <3>1, TopInvocation
    <3>3. d.req = Inv.req
      BY <1>1, <3>2 DEF Mdc, OneRequest
    <3>4. \A k \in 1..Len(d.events) : From(d.events[k], d.req)
      BY <1>1, <3>2, <3>3 DEF Queued
    <3>5. tx'.callbacks = Append(tx.callbacks, d) /\ tx'.listeners = tx.listeners
      BY <1>1, <3>1, TxFields
    <3> HIDE DEF d
    <3>6. Len(tx'.callbacks) = Len(tx.callbacks) + 1 /\ tx'.callbacks[Len(tx.callbacks) + 1] = d
          /\ \A c \in 1..Len(tx.callbacks) : tx'.callbacks[c] = tx.callbacks[c]
      BY <1>3, <3>5, AppendProperties
    <3>7. \A c \in 1..Len(tx'.callbacks) : c \in 1..Len(tx.callbacks) \/ c = Len(tx.callbacks) + 1
      BY <1>3, <3>6
    <3> QED
      BY <1>5, <3>4, <3>5, <3>6, <3>7
  <2> QED
    BY <2>1, <2>2
<1>8. ASSUME NEW saved \in BOOLEAN, PublishWrapper(saved)
      PROVE  PutOff'
  <2>1. CASE UNCHANGED tx
    BY <1>5, <2>1
  <2>2. CASE ~UNCHANGED tx
    <3> DEFINE d == [event |-> Head(Top.todo), req |-> Top.req]
    <3>1. DeferListener(d) /\ Running /\ Top.kind = "publish" /\ Top.todo # <<>>
      BY <1>8, <2>2 DEF PublishWrapper, At
    <3>2. n \in Publishing /\ Top = stack[n] /\ Top.todo \in Seq(Nat)
      BY <1>1, <1>2, <3>1, TopPublication
    <3>3. Sent(d.event, n)
      BY <1>1, <3>1, <3>2 DEF Sending
    <3>4. From(d.event, d.req)
      BY <1>1, <3>2, <3>3 DEF Sent, Outside, From, Tells, Mdc, PublishedFor
    <3>5. tx'.listeners = Append(tx.listeners, d) /\ tx'.callbacks = tx.callbacks
      BY <1>1, <3>1, TxFields
    <3> HIDE DEF d
    <3>6. Len(tx'.listeners) = Len(tx.listeners) + 1 /\ tx'.listeners[Len(tx.listeners) + 1] = d
          /\ \A k \in 1..Len(tx.listeners) : tx'.listeners[k] = tx.listeners[k]
      BY <1>3, <3>5, AppendProperties
    <3>7. \A k \in 1..Len(tx'.listeners) : k \in 1..Len(tx.listeners) \/ k = Len(tx.listeners) + 1
      BY <1>3, <3>6
    <3> QED
      BY <1>5, <3>4, <3>5, <3>6, <3>7
  <2> QED
    BY <2>1, <2>2
<1> QED
  BY <1>1, <1>6, <1>7, <1>8, PutOffKinds

\* A command that a listener runs belongs to the request of the event it heard.
LEMMA CausedStep ==
  ASSUME ChainInv, Emitted, KnownInvs, [Next]_vars
  PROVE  Caused'
<1>1. TypeInv /\ Mdc /\ KnownEvents /\ Heard /\ Caused /\ Len(invs) \in Nat
  BY KnownEventsStep DEF ChainInv, Emitted, TypeInv, HistoryOK
<1>2. \A e, r : From(e, r) => Tells(events', invs', e, r)
  BY <1>1, TellsKept DEF From
<1>3. CASE SameInvs
  BY <1>1, <1>2, <1>3 DEF Caused, SameInvs, From
<1>4. ASSUME NEW saved \in BOOLEAN, Invoke(saved)
      PROVE  Caused'
  <2>1. /\ Len(invs') = Len(invs) + 1 /\ \A m \in 1..Len(invs) : invs'[m] = invs[m]
        /\ invs'[Len(invs) + 1].req = mdc' /\ invs'[Len(invs) + 1].cause = Cause
        /\ mdc' = (IF mdc # 0 THEN mdc ELSE ids + 1) /\ MayCall
    BY <1>1, <1>4, InvokeEffect
  <2>2. Cause # 0 => From(Cause, mdc')
    <3> HAVE Cause # 0
    <3>1. Running /\ Top.kind = "policy" /\ Cause = Top.event
      BY DEF Cause
    <3>2. Len(stack) \in Listening /\ Top = stack[Len(stack)]
      BY <1>1, <3>1, TopFrame DEF TypeInv, StackOK
    <3>3. Sent(Top.event, Len(stack))
      BY <1>1, <3>2 DEF Heard
    <3>4. \A j \in Invoking : mdc' = Of(j).req
      <4>1. \A j \in Invoking : mdc = Of(j).req
        BY <1>1, <2>1, CallableMdc
      <4>2. Invoking # {} => mdc # 0
        BY <1>1, <2>1, CallableMdc
      <4> QED
        BY <2>1, <4>1, <4>2
    <3> QED
      BY <3>1, <3>3, <3>4 DEF Sent, Outside, From, Tells
  <2>3. \A m \in 1..Len(invs') : m \in 1..Len(invs) \/ m = Len(invs) + 1
    BY <1>1, <2>1
  <2> QED
    BY <1>1, <1>2, <2>1, <2>2, <2>3 DEF Caused, From
<1>5. CASE UNCHANGED vars
  BY <1>1, <1>5 DEF vars, Caused, From, Tells
<1> QED
  BY <1>1, <1>3, <1>4, <1>5, InvsStep

\* The steps that touch rows: the stamps, and the three that add one.
LEMMA RowChanges ==
  ASSUME [Next]_vars
  PROVE  \/ UNCHANGED rows
         \/ StampSuccess \/ StampFailure \/ MarkEventsFailed
         \/ \E saved \in BOOLEAN : Invoke(saved)
         \/ \E saved \in BOOLEAN : LogDeferred(saved)
         \/ \E saved \in BOOLEAN : PublishWrapper(saved)
<1>1. CASE UNCHANGED trail
  BY <1>1 DEF trail
<1>2. CASE Proceed
  <2>1. CASE \/ HandlerThrows \/ RegisterDeferred \/ StampSuccessThrows \/ Commits
             \/ CommitThrows \/ UnexpectedRollback \/ RunCallback \/ CallbacksDone \/ Completed
             \/ Abort \/ FailureStampThrows \/ PublishRaw
             \/ PublishDone \/ PublishThrows \/ PolicyReturns \/ PolicyThrows \/ PolicyCatches
             \/ HandlerCatches
    BY <1>1, <2>1 DEF HandlerThrows, RegisterDeferred, StampSuccessThrows, Commits,
          CommitThrows, UnexpectedRollback, RunCallback, CallbacksDone, Completed, Abort,
          FailureStampThrows, PublishRaw, PublishDone,
          PublishThrows, PolicyReturns, PolicyThrows, PolicyCatches, HandlerCatches
  <2>2. CASE \E nNow, nLater \in 0..MaxEvents : HandlerReturns(nNow, nLater)
    BY <1>1, <2>2 DEF HandlerReturns
  <2>3. CASE \E s \in {"return", "throw"} : Finish(s)
    BY <1>1, <2>3 DEF Finish, Drain, trail
  <2> QED
    BY <1>2, <2>1, <2>2, <2>3 DEF Proceed
<1>3. CASE Call
  BY <1>1, <1>3 DEF Call, PublishExternal, ParticipantFails
<1>4. CASE Crash
  BY <1>4 DEF Crash, Forget
<1> QED
  BY <1>1, <1>2, <1>3, <1>4 DEF Next, vars

\* The event logger records an event under the id of the request it belongs to, which
\* is that of every invocation on the stack.
LEMMA EventRecorded ==
  ASSUME ChainInv, Emitted,
         (\E saved \in BOOLEAN : LogDeferred(saved)) \/ \E saved \in BOOLEAN : PublishWrapper(saved)
  PROVE  /\ UNCHANGED <<invs, events>>
         /\ \/ UNCHANGED trail
            \/ \E e \in Nat, r \in RequestIds, saved \in BOOLEAN :
                  /\ Record("event", e, r, TRUE, saved) /\ From(e, r)
                  /\ \A i \in Invoking : Of(i).req = r
<1>1. TypeInv /\ Mdc /\ Sending /\ PutOff /\ mdc \in RequestIds \cup {0} /\ 0 \notin RequestIds
  BY RequestIdsAssumption DEF ChainInv, Emitted, TypeInv, HistoryOK
<1>2. PICK n \in Nat : n = Len(stack)
  BY <1>1 DEF TypeInv, StackOK
<1>3. ASSUME NEW saved \in BOOLEAN, LogDeferred(saved)
      PROVE  \E e \in Nat, r \in RequestIds :
                  /\ Record("event", e, r, TRUE, saved) /\ From(e, r)
                  /\ \A i \in Invoking : Of(i).req = r
  <2> DEFINE d == Head(tx.listeners)
  <2>1. /\ Running /\ Top.kind = "invoke" /\ tx.listeners # <<>>
        /\ Record("event", d.event, IF mdc # 0 THEN mdc ELSE d.req, TRUE, saved)
    BY <1>3 DEF LogDeferred, At
  <2>2. tx.listeners \in Seq(ListenerType)
    BY <1>1 DEF TypeInv, TxOK, TxType
  <2>3. 1 \in 1..Len(tx.listeners) /\ d = tx.listeners[1] /\ d \in ListenerType
    BY <2>1, <2>2
  <2>4. n \in Invoking
    BY <1>1, <1>2, <2>1, TopInvocation
  <2>5. d.event \in Nat /\ d.req \in RequestIds /\ From(d.event, d.req)
    BY <1>1, <2>3 DEF PutOff, ListenerType
  <2>6. d.req = Of(n).req /\ mdc \in {0, Of(n).req} /\ \A i \in Invoking : Of(i).req = Of(n).req
    BY <1>1, <2>3, <2>4 DEF Mdc, OneRequest, TxReqs
  <2>7. (IF mdc # 0 THEN mdc ELSE d.req) = d.req
    BY <2>6
  <2> QED
    BY <2>1, <2>5, <2>6, <2>7
<1>4. ASSUME NEW saved \in BOOLEAN, PublishWrapper(saved), ~UNCHANGED trail
      PROVE  \E e \in Nat, r \in RequestIds :
                  /\ Record("event", e, r, TRUE, saved) /\ From(e, r)
                  /\ \A i \in Invoking : Of(i).req = r
  <2> DEFINE e == Head(Top.todo)
             r == IF mdc # 0 THEN mdc ELSE Top.req
  <2>1. /\ Running /\ Top.kind = "publish" /\ Top.todo # <<>>
        /\ Record("event", e, r, TRUE, saved)
    BY <1>4 DEF PublishWrapper, At
  <2>2. /\ n \in Publishing /\ Top = stack[n] /\ Top.todo \in Seq(Nat) /\ Top.req \in RequestIds
        /\ e \in Nat
    BY <1>1, <1>2, <2>1, TopPublication
  <2>3. Sent(e, n) /\ r \in RequestIds
    BY <1>1, <2>1, <2>2 DEF Sending
  <2>4. \A i \in Invoking : i < n
    BY <1>2, <2>1, <2>2 DEF Invoking, Publishing
  <2>5. \A i \in Invoking : Of(i).req = r
    BY <1>1, <2>2, <2>4 DEF Mdc, PublishedFor, OneRequest
  <2>6. From(e, r)
    BY <2>3, <2>5 DEF Sent, Outside, From, Tells
  <2> QED
    BY <2>1, <2>2, <2>3, <2>5, <2>6
<1> QED
  BY <1>3, <1>4 DEF LogDeferred, PublishWrapper

\* An event's row carries the request of the command that emitted the event.
LEMMA EventRowsStep ==
  ASSUME ChainInv, Emitted, KnownInvs, [Next]_vars
  PROVE  EventRows'
<1>1. TypeInv /\ TrailTypeOK /\ RowsExist /\ KnownEvents /\ EventRows /\ Len(rows) \in Nat
  BY KnownEventsStep DEF ChainInv, Emitted, TypeInv, TrailTypeOK
<1>2. \A e, r : From(e, r) => Tells(events', invs', e, r)
  BY <1>1, TellsKept DEF From
<1>3. SameRowsSoFar
  <2>1. CASE Next
    BY <1>1, <2>1, RowsStep
  <2>2. CASE UNCHANGED vars
    BY <1>1, <2>2 DEF vars, trail, SameRowsSoFar
  <2> QED
    BY <2>1, <2>2
<1>4. ASSUME NEW i \in 1..Len(rows), rows'[i].kind = "event"
      PROVE  Tells(events', invs', rows'[i].of, rows'[i].req)
  BY <1>1, <1>2, <1>3, <1>4 DEF SameRowsSoFar, EventRows
<1>5. CASE Len(rows') = Len(rows)
  BY <1>4, <1>5 DEF EventRows, From
<1>6. ASSUME NEW saved \in BOOLEAN, Invoke(saved)
      PROVE  EventRows'
  <2>1. \E r : rows' = Append(rows, r) /\ r.kind = "command"
    <3>1. Record("command", Len(invs) + 1, mdc', FALSE, saved)
      BY <1>1, <1>6, InvokeEffect
    <3> QED
      BY <3>1 DEF Record
  <2>2. rows \in Seq(RowType)
    BY <1>1 DEF TrailTypeOK
  <2>3. Len(rows') = Len(rows) + 1 /\ rows'[Len(rows) + 1].kind = "command"
    BY <2>1, <2>2
  <2> QED
    BY <1>1, <1>4, <2>3 DEF EventRows, From
<1>7. ASSUME NEW e \in Nat, NEW r \in RequestIds, NEW saved \in BOOLEAN,
             Record("event", e, r, TRUE, saved), From(e, r)
      PROVE  EventRows'
  <2>1. /\ Len(rows') = Len(rows) + 1
        /\ rows'[Len(rows) + 1].of = e /\ rows'[Len(rows) + 1].req = r
    <3>1. TRUE \in BOOLEAN /\ "event" \in {"command", "event"}
      OBVIOUS
    <3> QED
      BY <1>1, <1>7, <3>1, RecordTrail
  <2>2. \A i \in 1..Len(rows') : i \in 1..Len(rows) \/ i = Len(rows) + 1
    BY <1>1, <2>1
  <2> QED
    BY <1>2, <1>4, <1>7, <2>1, <2>2 DEF EventRows, From
<1>8. CASE StampSuccess \/ StampFailure \/ MarkEventsFailed
  BY <1>1, <1>5, <1>8, StampRows DEF SameRows
<1>9. CASE (\E saved \in BOOLEAN : LogDeferred(saved)) \/ \E saved \in BOOLEAN : PublishWrapper(saved)
  <2>1. UNCHANGED trail => Len(rows') = Len(rows)
    BY DEF trail
  <2> QED
    BY <1>5, <1>7, <1>9, <2>1, EventRecorded
<1> QED
  BY <1>5, <1>6, <1>8, <1>9, RowChanges

\* Before the first call.
LEMMA InitEmitted == Init => Emitted
<1> SUFFICES ASSUME Init PROVE Emitted
  OBVIOUS
<1>1. Len(<<>>) = 0
  OBVIOUS
<1>2. Len(stack) = 0 /\ Len(invs) = 0 /\ Len(rows) = 0 /\ Len(tx.callbacks) = 0
      /\ Len(tx.listeners) = 0
  BY <1>1 DEF Init, TrailInit, NoTx
<1> QED
  BY <1>2 DEF Emitted, Queued, Sending, Heard, PutOff, Caused, EventRows, Invoking, Publishing,
     Listening

\* The parts are inductive, together with the invariant of the chain.
LEMMA EmittedStep == ChainInv /\ Emitted /\ [Next]_vars => Emitted'
<1> SUFFICES ASSUME ChainInv, Emitted, [Next]_vars PROVE Emitted'
  OBVIOUS
<1>1. KnownInvs
  <2>1. CASE Next
    BY <2>1, KnownInvsStep DEF ChainInv
  <2>2. CASE UNCHANGED vars
    BY <2>2 DEF vars, KnownInvs, ChainInv, TypeInv, HistoryOK
  <2> QED
    BY <2>1, <2>2
<1> QED
  BY <1>1, QueuedStep, SendingStep, HeardStep, PutOffStep, CausedStep, EventRowsStep DEF Emitted

\* Hence they always hold.
LEMMA EmittedCorrect == Spec => []Emitted
BY InitEmitted, EmittedStep, ChainCorrect, PTL DEF Spec

\* No request id is left in MDC when no chain runs, and a command that a policy runs
\* belongs to the request of the command whose event the policy heard, however many
\* publications, callbacks and nested commands lie between the two.
THEOREM ChainKeepsItsRequest == Spec => []OneRequestPerChain
<1>1. ChainInv /\ Emitted => OneRequestPerChain
  BY DEF ChainInv, Emitted, Mdc, BottomFrame, Caused, From, Tells, OneRequestPerChain
<1> QED
  BY <1>1, ChainCorrect, EmittedCorrect, PTL

(***************************************************************************)
(* Where an event waits to be published: in the list of a publication, in  *)
(* the queue of an invocation that is to register it, or in a callback.    *)
(* It waits in one place only.                                             *)
(***************************************************************************)
Lists ==
    ({"todo"} \X Publishing)
    \cup ({"queue"} \X {i \in Invoking : stack[i].step \in {"handle", "register"}})
    \cup ({"callback"} \X (1..Len(tx.callbacks)))
ListAt(p) == IF p[1] = "todo" THEN stack[p[2]].todo
             ELSE IF p[1] = "queue" THEN stack[p[2]].deferred ELSE tx.callbacks[p[2]].events

Apart ==
    \A p, q \in Lists : \A k \in 1..Len(ListAt(p)), l \in 1..Len(ListAt(q)) :
        ListAt(p)[k] = ListAt(q)[l] => p = q /\ k = l

\* The wrapper of the first event of the list has been published.
Raw(p) == p[1] = "todo" /\ stack[p[2]].step = "raw"

TopTodo == <<"todo", Len(stack)>>
Wrapping == \E saved \in BOOLEAN : PublishWrapper(saved)

\* After a step, list p holds what list q held before, but for an event that has
\* been delivered.
Follows(p, q) ==
    IF PublishRaw /\ q = TopTodo
    THEN ListAt(q) # <<>> /\ ListAt(p)' = Tail(ListAt(q))
    ELSE ListAt(p)' = ListAt(q) /\ (Raw(q) \/ (Wrapping /\ q = TopTodo) => Raw(p)')

\* Each list after a step is one of those before, or, in N, one of new events.
Moved(m, N) ==
    /\ \A p \in Lists' : p \notin N => m[p] \in Lists /\ Follows(p, m[p])
    /\ \A p, q \in Lists' : p \notin N /\ q \notin N /\ m[p] = m[q] => p = q
    /\ \A p \in Lists' : p \in N => \A k \in 1..Len(ListAt(p)') : ListAt(p)'[k] > Len(events)
    /\ \A p, q \in Lists' : p \in N /\ q \in N =>
          \A k \in 1..Len(ListAt(p)'), l \in 1..Len(ListAt(q)') :
             ListAt(p)'[k] = ListAt(q)'[l] => p = q /\ k = l

\* What lists hold are events.
LEMMA ListedEvents ==
  ASSUME TypeInv, Emitted, NEW p \in Lists
  PROVE  /\ ListAt(p) \in Seq(Nat) /\ Len(ListAt(p)) \in Nat
         /\ \A k \in 1..Len(ListAt(p)) : ListAt(p)[k] \in 1..Len(events)
<1>1. CASE p \in {"todo"} \X Publishing
  <2>1. p[1] = "todo" /\ p[2] \in Publishing /\ ListAt(p) = stack[p[2]].todo
    BY <1>1 DEF ListAt
  <2>2. stack[p[2]] \in PublishFrame
    BY <2>1 DEF Publishing, TypeInv, StackOK, FrameType, InvokeFrame, PolicyFrame
  <2>3. ListAt(p) \in Seq(Nat)
    BY <2>1, <2>2 DEF PublishFrame
  <2>4. \A k \in 1..Len(ListAt(p)) : Sent(ListAt(p)[k], p[2])
    BY <2>1 DEF Emitted, Sending
  <2> QED
    BY <2>3, <2>4 DEF Sent, Outside, From, Tells
<1>2. CASE p \in {"queue"} \X {i \in Invoking : stack[i].step \in {"handle", "register"}}
  <2>1. p[1] = "queue" /\ p[2] \in Invoking /\ ListAt(p) = stack[p[2]].deferred
    BY <1>2 DEF ListAt
  <2>2. stack[p[2]] \in InvokeFrame
    BY <2>1 DEF Invoking, TypeInv, StackOK, FrameType, PublishFrame, PolicyFrame
  <2>3. ListAt(p) \in Seq(Nat)
    BY <2>1, <2>2 DEF InvokeFrame
  <2>4. \A k \in 1..Len(ListAt(p)) : From(ListAt(p)[k], Of(p[2]).req)
    BY <2>1 DEF Emitted, Queued
  <2> QED
    BY <2>3, <2>4 DEF From, Tells
<1>3. CASE p \in {"callback"} \X (1..Len(tx.callbacks))
  <2>1. p[1] = "callback" /\ p[2] \in 1..Len(tx.callbacks) /\ ListAt(p) = tx.callbacks[p[2]].events
    BY <1>3 DEF ListAt
  <2>2. tx.callbacks \in Seq(CallbackType)
    BY DEF TypeInv, TxOK, TxType
  <2>3. tx.callbacks[p[2]] \in CallbackType
    BY <2>1, <2>2
  <2>4. ListAt(p) \in Seq(Nat)
    BY <2>1, <2>3 DEF CallbackType
  <2>5. \A k \in 1..Len(ListAt(p)) : From(ListAt(p)[k], tx.callbacks[p[2]].req)
    BY <2>1 DEF Emitted, PutOff
  <2> QED
    BY <2>4, <2>5 DEF From, Tells
<1> QED
  BY <1>1, <1>2, <1>3 DEF Lists

\* If lists only move, events stay apart.
LEMMA ApartIfMoved ==
  ASSUME TypeInv, Emitted, Apart, NEW m, NEW N, Moved(m, N)
  PROVE  Apart'
<1>1. SUFFICES ASSUME NEW p \in Lists', NEW q \in Lists',
                      NEW k \in 1..Len(ListAt(p)'), NEW l \in 1..Len(ListAt(q)'),
                      ListAt(p)'[k] = ListAt(q)'[l]
               PROVE  p = q /\ k = l
  BY DEF Apart
<1>2. ASSUME NEW o \in Lists', o \notin N
      PROVE  /\ m[o] \in Lists
             /\ \E d \in {0, 1} : \A j \in 1..Len(ListAt(o)') :
                   /\ j + d \in 1..Len(ListAt(m[o])) /\ ListAt(o)'[j] = ListAt(m[o])[j + d]
  <2>1. m[o] \in Lists /\ Follows(o, m[o])
    BY <1>2 DEF Moved
  <2>2. ListAt(m[o]) \in Seq(Nat)
    BY <2>1, ListedEvents
  <2>3. CASE ListAt(o)' = ListAt(m[o])
    <3>1. \A j \in 1..Len(ListAt(o)') :
             j + 0 \in 1..Len(ListAt(m[o])) /\ ListAt(o)'[j] = ListAt(m[o])[j + 0]
      BY <2>2, <2>3
    <3> QED
      BY <2>1, <3>1
  <2>4. CASE ListAt(m[o]) # <<>> /\ ListAt(o)' = Tail(ListAt(m[o]))
    <3>1. \A j \in 1..Len(ListAt(o)') :
             j + 1 \in 1..Len(ListAt(m[o])) /\ ListAt(o)'[j] = ListAt(m[o])[j + 1]
      BY <2>2, <2>4
    <3> QED
      BY <2>1, <3>1
  <2> QED
    BY <2>1, <2>3, <2>4 DEF Follows
<1>3. CASE p \notin N /\ q \notin N
  <2>1. PICK d \in {0, 1} : \A j \in 1..Len(ListAt(p)') :
           j + d \in 1..Len(ListAt(m[p])) /\ ListAt(p)'[j] = ListAt(m[p])[j + d]
    BY <1>2, <1>3
  <2>2. PICK f \in {0, 1} : \A j \in 1..Len(ListAt(q)') :
           j + f \in 1..Len(ListAt(m[q])) /\ ListAt(q)'[j] = ListAt(m[q])[j + f]
    BY <1>2, <1>3
  <2>3. m[p] \in Lists /\ m[q] \in Lists
    BY <1>2, <1>3
  <2>4. m[p] = m[q] /\ k + d = l + f
    BY <1>1, <2>1, <2>2, <2>3 DEF Apart
  <2>5. p = q
    BY <1>3, <2>4 DEF Moved
  <2>6. Follows(p, m[p])
    BY <1>3 DEF Moved
  <2>7. ListAt(m[p]) \in Seq(Nat)
    BY <2>3, ListedEvents
  <2>8. CASE ListAt(p)' = ListAt(m[p])
    <3>1. k \in 1..Len(ListAt(m[p])) /\ l \in 1..Len(ListAt(m[p]))
          /\ ListAt(m[p])[k] = ListAt(m[p])[l]
      BY <1>1, <2>5, <2>8
    <3> QED
      BY <2>3, <2>5, <3>1 DEF Apart
  <2>9. CASE ListAt(m[p]) # <<>> /\ ListAt(p)' = Tail(ListAt(m[p]))
    <3>1. /\ k + 1 \in 1..Len(ListAt(m[p])) /\ l + 1 \in 1..Len(ListAt(m[p]))
          /\ ListAt(m[p])[k + 1] = ListAt(m[p])[l + 1]
      BY <1>1, <2>5, <2>7, <2>9
    <3>2. k + 1 = l + 1
      BY <2>3, <3>1 DEF Apart
    <3> QED
      BY <2>5, <2>7, <2>9, <3>2
  <2> QED
    BY <2>6, <2>8, <2>9 DEF Follows
<1>4. CASE p \in N /\ q \in N
  BY <1>1, <1>4 DEF Moved
<1>5. ASSUME NEW o \in Lists', o \notin N, NEW j \in 1..Len(ListAt(o)')
      PROVE  ListAt(o)'[j] \in 1..Len(events)
  <2>1. m[o] \in Lists
    BY <1>2, <1>5
  <2>2. \E i \in 1..Len(ListAt(m[o])) : ListAt(o)'[j] = ListAt(m[o])[i]
    BY <1>2, <1>5
  <2> QED
    BY <2>1, <2>2, ListedEvents
<1>6. Len(events) \in Nat
  BY DEF TypeInv, HistoryOK
<1>7. (p \in N => ListAt(p)'[k] > Len(events)) /\ (q \in N => ListAt(q)'[l] > Len(events))
  BY DEF Moved
<1> QED
  BY <1>1, <1>3, <1>4, <1>5, <1>6, <1>7

\* A publication goes on with its list.
GoesOn(i) ==
    /\ i \in Publishing
    /\ IF PublishRaw /\ i = Len(stack)
       THEN stack[i].todo # <<>> /\ stack'[i].todo = Tail(stack[i].todo)
       ELSE /\ stack'[i].todo = stack[i].todo
            /\ stack[i].step = "raw" \/ (Wrapping /\ i = Len(stack)) => stack'[i].step = "raw"

\* An invocation keeps the queue that it is still to register.
Queues(i) ==
    /\ i \in Invoking /\ stack[i].step \in {"handle", "register"}
    /\ stack'[i].deferred = stack[i].deferred

\* No list moves to another place; those in N are new.
LEMMA ListsStay ==
  ASSUME TypeInv, NEW N,
         \A i \in Publishing' : <<"todo", i>> \in N \/ GoesOn(i),
         \A i \in Invoking' : stack'[i].step \in {"handle", "register"} =>
            <<"queue", i>> \in N \/ Queues(i),
         tx'.callbacks = tx.callbacks \/ tx'.callbacks = <<>>,
         \A p \in Lists' : p \in N => \A k \in 1..Len(ListAt(p)') : ListAt(p)'[k] > Len(events),
         \A p, q \in Lists' : p \in N /\ q \in N =>
            \A k \in 1..Len(ListAt(p)'), l \in 1..Len(ListAt(q)') :
               ListAt(p)'[k] = ListAt(q)'[l] => p = q /\ k = l
  PROVE  \E m : Moved(m, N)
<1> DEFINE m == [p \in Lists' |-> p]
<1>1. \A p \in Lists' : m[p] = p
  OBVIOUS
<1> HIDE DEF m
<1>2. ASSUME NEW p \in Lists', p \notin N
      PROVE  p \in Lists /\ Follows(p, p)
  <2>1. CASE p \in {"todo"} \X Publishing'
    <3>1. p[1] = "todo" /\ p[2] \in Publishing' /\ p = <<"todo", p[2]>>
      BY <2>1
    <3>2. GoesOn(p[2])
      BY <1>2, <3>1
    <3>3. p \in Lists /\ ListAt(p) = stack[p[2]].todo /\ ListAt(p)' = stack'[p[2]].todo
      BY <3>1, <3>2 DEF GoesOn, Lists, ListAt
    <3>4. p = TopTodo <=> p[2] = Len(stack)
      BY <3>1 DEF TopTodo
    <3> QED
      BY <3>1, <3>2, <3>3, <3>4 DEF GoesOn, Follows, Raw
  <2>2. CASE p \in {"queue"} \X {i \in Invoking' : stack'[i].step \in {"handle", "register"}}
    <3>1. p[1] = "queue" /\ p[2] \in Invoking' /\ p = <<"queue", p[2]>> /\ p # TopTodo
          /\ stack'[p[2]].step \in {"handle", "register"}
      BY <2>2 DEF TopTodo
    <3>2. Queues(p[2])
      BY <1>2, <3>1
    <3>3. p \in Lists /\ ListAt(p) = stack[p[2]].deferred /\ ListAt(p)' = stack'[p[2]].deferred
      BY <3>1, <3>2 DEF Queues, Lists, ListAt
    <3> QED
      BY <3>1, <3>2, <3>3 DEF Queues, Follows, Raw
  <2>3. CASE p \in {"callback"} \X (1..Len(tx'.callbacks))
    <3>1. p[1] = "callback" /\ p[2] \in 1..Len(tx'.callbacks) /\ p # TopTodo
      BY <2>3 DEF TopTodo
    <3>2. Len(<<>>) = 0
      OBVIOUS
    <3>3. tx'.callbacks = tx.callbacks
      BY <3>1, <3>2
    <3>4. p \in Lists /\ ListAt(p)' = ListAt(p)
      BY <2>3, <3>1, <3>3 DEF Lists, ListAt
    <3> QED
      BY <3>1, <3>4 DEF Follows, Raw
  <2>4. Lists' = ({"todo"} \X Publishing')
                 \cup ({"queue"} \X {i \in Invoking' : stack'[i].step \in {"handle", "register"}})
                 \cup ({"callback"} \X (1..Len(tx'.callbacks)))
    BY DEF Lists
  <2> QED
    BY <2>1, <2>2, <2>3, <2>4
<1>3. Moved(m, N)
  BY <1>1, <1>2 DEF Moved
<1> QED
  BY <1>3

\* A handler returns: its lists are of the events it emitted.
LEMMA ListsReturned ==
  ASSUME ChainInv, Emitted, NEW nNow \in 0..MaxEvents, NEW nLater \in 0..MaxEvents,
         HandlerReturns(nNow, nLater)
  PROVE  \E m, N : Moved(m, N)
<1>1. /\ nNow \in Nat /\ nLater \in Nat /\ Len(events) \in Nat /\ TypeInv
      /\ DispatchFrames(nNow, nLater) /\ Running /\ Top.kind = "invoke" /\ UNCHANGED tx
      /\ Top.step = "handle"
  BY HandlerReturnsEffect DEF HandlerReturns, At, ChainInv
<1>2. PICK n \in Nat : n = Len(stack) /\ n >= 1 /\ Top = stack[n]
  BY <1>1, TopInvocation
<1>3. /\ Len(stack') = n + 1 /\ \A i \in 1..(n - 1) : stack'[i] = stack[i]
      /\ stack'[n].kind = "invoke" /\ stack'[n].step = "register"
      /\ Len(stack'[n].deferred) = nLater
      /\ \A k \in 1..nLater : stack'[n].deferred[k] = Len(events) + nNow + k
      /\ stack'[n + 1].kind = "publish" /\ Len(stack'[n + 1].todo) = nNow
      /\ \A k \in 1..nNow : stack'[n + 1].todo[k] = Len(events) + k
  BY <1>1, <1>2 DEF DispatchFrames
<1> DEFINE N == {<<"todo", n + 1>>, <<"queue", n>>}
<1>4. ~PublishRaw /\ ~Wrapping
  BY <1>1 DEF PublishRaw, Wrapping, PublishWrapper, At
<1>5. ASSUME NEW i \in Publishing'
      PROVE  <<"todo", i>> \in N \/ GoesOn(i)
  <2>1. i \in 1..(n + 1) /\ i # n
    BY <1>3 DEF Publishing
  <2>2. CASE i = n + 1
    BY <2>2
  <2>3. CASE i \in 1..(n - 1)
    <3>1. i \in Publishing /\ stack'[i] = stack[i]
      BY <1>2, <1>3, <2>3 DEF Publishing
    <3> QED
      BY <1>4, <3>1 DEF GoesOn
  <2> QED
    BY <2>1, <2>2, <2>3
<1>6. ASSUME NEW i \in Invoking', stack'[i].step \in {"handle", "register"}
      PROVE  <<"queue", i>> \in N \/ Queues(i)
  <2>1. i \in 1..(n + 1) /\ i # n + 1
    BY <1>3 DEF Invoking
  <2>2. CASE i = n
    BY <2>2
  <2>3. CASE i \in 1..(n - 1)
    <3>1. i \in Invoking /\ stack'[i] = stack[i]
      BY <1>2, <1>3, <2>3 DEF Invoking
    <3> QED
      BY <1>6, <3>1 DEF Queues
  <2> QED
    BY <2>1, <2>2, <2>3
<1>7. ASSUME NEW p \in N, NEW k \in 1..Len(ListAt(p)')
      PROVE  /\ k \in Nat \ {0}
             /\ \/ p = <<"todo", n + 1>> /\ k <= nNow /\ ListAt(p)'[k] = Len(events) + k
                \/ p = <<"queue", n>> /\ ListAt(p)'[k] = Len(events) + nNow + k
  <2>1. CASE p = <<"todo", n + 1>>
    <3>1. ListAt(p)' = stack'[n + 1].todo
      BY <2>1 DEF ListAt
    <3> QED
      BY <1>1, <1>3, <1>7, <2>1, <3>1
  <2>2. CASE p = <<"queue", n>>
    <3>1. ListAt(p)' = stack'[n].deferred
      BY <2>2 DEF ListAt
    <3> QED
      BY <1>1, <1>3, <1>7, <2>2, <3>1
  <2> QED
    BY <2>1, <2>2
<1>8. N = {<<"todo", n + 1>>, <<"queue", n>>}
  OBVIOUS
<1> HIDE DEF N
<1>9. ASSUME NEW p \in N, NEW q \in N,
             NEW k \in 1..Len(ListAt(p)'), NEW l \in 1..Len(ListAt(q)'),
             ListAt(p)'[k] = ListAt(q)'[l]
      PROVE  p = q /\ k = l
  <2> DEFINE x == ListAt(p)'[k]
             y == ListAt(q)'[l]
  <2>1. /\ k \in Nat \ {0}
        /\ \/ p = <<"todo", n + 1>> /\ k <= nNow /\ x = Len(events) + k
           \/ p = <<"queue", n>> /\ x = Len(events) + nNow + k
    BY <1>7
  <2>2. /\ l \in Nat \ {0}
        /\ \/ q = <<"todo", n + 1>> /\ l <= nNow /\ y = Len(events) + l
           \/ q = <<"queue", n>> /\ y = Len(events) + nNow + l
    BY <1>7
  <2>3. x = y
    BY <1>9
  <2> HIDE DEF x, y
  <2> QED
    BY <1>1, <2>1, <2>2, <2>3
<1>10. \A p \in N : \A k \in 1..Len(ListAt(p)') : ListAt(p)'[k] > Len(events)
  BY <1>1, <1>7
<1>11. tx'.callbacks = tx.callbacks
  BY <1>1
<1> QED
  BY <1>1, <1>5, <1>6, <1>9, <1>10, <1>11, ListsStay

\* A frame is pushed with a list that is empty or of one new event.
LEMMA ListsPushed ==
  ASSUME ChainInv, Emitted,
         \/ \E saved \in BOOLEAN : Invoke(saved)
         \/ \E timing \in Publishes : PublishExternal(timing)
  PROVE  \E m, N : Moved(m, N)
<1>1. TypeInv /\ ~PublishRaw /\ ~Wrapping
  BY DEF ChainInv, Invoke, PublishExternal, MayCall, PublishRaw, Wrapping, PublishWrapper, At
<1>2. PICK n \in Nat : n = Len(stack)
  BY <1>1 DEF TypeInv, StackOK
<1>3. Pushing
  BY DEF Pushing
<1>4. /\ Len(stack') = n + 1 /\ \A i \in 1..n : stack'[i] = stack[i]
      /\ \/ stack'[n + 1].kind = "invoke" /\ stack'[n + 1].deferred = <<>>
         \/ stack'[n + 1].kind = "publish" /\ stack'[n + 1].todo = <<Len(events) + 1>>
  <2>1. \E f : Push(f)
    BY DEF Invoke, PublishExternal
  <2> QED
    BY <1>1, <1>2, <1>3, <2>1, PushFrames, PushedFrame
<1>5. tx'.callbacks = tx.callbacks \/ tx'.callbacks = <<>>
  <2>1. Begin \/ UNCHANGED tx
    BY DEF Invoke, PublishExternal
  <2> QED
    BY <1>1, <2>1, TxFields DEF TypeInv
<1> DEFINE N == {<<"todo", n + 1>>, <<"queue", n + 1>>}
<1>6. ASSUME NEW i \in Publishing'
      PROVE  <<"todo", i>> \in N \/ GoesOn(i)
  <2>1. i \in 1..n => i \in Publishing /\ stack'[i] = stack[i]
    BY <1>2, <1>4 DEF Publishing
  <2>2. i \in 1..n \/ i = n + 1
    BY <1>4 DEF Publishing
  <2> QED
    BY <1>1, <2>1, <2>2 DEF GoesOn
<1>7. ASSUME NEW i \in Invoking', stack'[i].step \in {"handle", "register"}
      PROVE  <<"queue", i>> \in N \/ Queues(i)
  <2>1. i \in 1..n => i \in Invoking /\ stack'[i] = stack[i]
    BY <1>2, <1>4 DEF Invoking
  <2>2. i \in 1..n \/ i = n + 1
    BY <1>4 DEF Invoking
  <2> QED
    BY <1>7, <2>1, <2>2 DEF Queues
<1>8. ASSUME NEW p \in Lists', p \in N, NEW k \in 1..Len(ListAt(p)')
      PROVE  p = <<"todo", n + 1>> /\ k = 1 /\ ListAt(p)'[k] = Len(events) + 1
  <2>1. CASE p = <<"todo", n + 1>>
    <3>1. n + 1 \in Publishing' /\ ListAt(p)' = stack'[n + 1].todo
      BY <1>8, <2>1 DEF Lists, ListAt
    <3>2. ListAt(p)' = <<Len(events) + 1>>
      BY <1>4, <3>1 DEF Publishing
    <3> QED
      BY <1>8, <2>1, <3>2
  <2>2. CASE p = <<"queue", n + 1>>
    <3>1. n + 1 \in Invoking' /\ ListAt(p)' = stack'[n + 1].deferred
      BY <1>8, <2>2 DEF Lists, ListAt
    <3>2. ListAt(p)' = <<>> /\ Len(<<>>) = 0
      BY <1>4, <3>1 DEF Invoking
    <3> QED
      BY <1>8, <3>2
  <2> QED
    BY <1>8, <2>1, <2>2
<1> HIDE DEF N
<1>9. Len(events) \in Nat
  BY <1>1 DEF TypeInv, HistoryOK
<1>10. \A p \in Lists' : p \in N => \A k \in 1..Len(ListAt(p)') : ListAt(p)'[k] > Len(events)
  BY <1>8, <1>9
<1>11. \A p, q \in Lists' : p \in N /\ q \in N =>
          \A k \in 1..Len(ListAt(p)'), l \in 1..Len(ListAt(q)') :
             ListAt(p)'[k] = ListAt(q)'[l] => p = q /\ k = l
  BY <1>8
<1> QED
  BY <1>1, <1>5, <1>6, <1>7, <1>10, <1>11, ListsStay

\* The queue of an invocation becomes the list of a callback.
LEMMA ListsRegistered ==
  ASSUME ChainInv, Emitted, RegisterDeferred
  PROVE  \E m, N : Moved(m, N)
<1>1. /\ TypeInv /\ Running /\ Top.kind = "invoke" /\ Top.step = "register" /\ Goto("stamp")
      /\ "stamp" \in InvokeSteps /\ ~PublishRaw /\ ~Wrapping
  BY DEF ChainInv, RegisterDeferred, PublishRaw, Wrapping, PublishWrapper, At, InvokeSteps
<1>2. PICK n \in Nat : n = Len(stack) /\ Top = stack[n] /\ n \in Invoking
  BY <1>1, TopInvocation
<1>3. /\ Len(stack') = n /\ \A i \in 1..n : i # n => stack'[i] = stack[i]
      /\ stack'[n].kind = "invoke" /\ stack'[n].step = "stamp"
  BY <1>1, <1>2, GotoStack DEF TypeInv, StackOK
<1>4. \A i \in Publishing' : i \in Publishing /\ stack'[i] = stack[i]
  BY <1>2, <1>3 DEF Publishing
<1>5. \A i \in Invoking' : stack'[i].step \in {"handle", "register"} =>
         i \in Invoking /\ stack'[i] = stack[i] /\ i # n
  BY <1>2, <1>3 DEF Invoking
<1>6. CASE UNCHANGED tx
  <2>1. tx'.callbacks = tx.callbacks
    BY <1>6
  <2>2. \A i \in Publishing' : GoesOn(i)
    BY <1>1, <1>4 DEF GoesOn
  <2>3. \A i \in Invoking' : stack'[i].step \in {"handle", "register"} => Queues(i)
    BY <1>5 DEF Queues
  <2>4. \E m : Moved(m, {})
    BY <1>1, <2>1, <2>2, <2>3, ListsStay
  <2> QED
    BY <2>4
<1>7. CASE ~UNCHANGED tx
  <2> DEFINE d == [events |-> Top.deferred, req |-> IF mdc # 0 THEN mdc ELSE Inv.req]
  <2>1. RegisterCallback(d) /\ d.events = stack[n].deferred
    BY <1>2, <1>7 DEF RegisterDeferred
  <2>2. tx'.callbacks = Append(tx.callbacks, d) /\ tx.callbacks \in Seq(CallbackType)
    BY <1>1, <2>1, TxFields DEF TypeInv, TxOK, TxType
  <2> HIDE DEF d
  <2>3. PICK c \in Nat : /\ c = Len(tx.callbacks) /\ Len(tx'.callbacks) = c + 1
                         /\ tx'.callbacks[c + 1] = d
                         /\ \A b \in 1..c : tx'.callbacks[b] = tx.callbacks[b]
    BY <2>2, AppendProperties
  <2> DEFINE m == [p \in Lists' |-> IF p = <<"callback", c + 1>> THEN <<"queue", n>> ELSE p]
  <2>4. \A p \in Lists' : m[p] = IF p = <<"callback", c + 1>> THEN <<"queue", n>> ELSE p
    OBVIOUS
  <2> HIDE DEF m
  <2>5. ASSUME NEW p \in Lists'
        PROVE  m[p] \in Lists /\ Follows(p, m[p]) /\ p # <<"queue", n>>
    <3>1. CASE p \in {"todo"} \X Publishing'
      <4>1. p[1] = "todo" /\ p[2] \in Publishing /\ stack'[p[2]] = stack[p[2]]
            /\ m[p] = p /\ p = <<"todo", p[2]>>
        BY <1>4, <2>4, <3>1
      <4>2. p \in Lists /\ ListAt(p) = stack[p[2]].todo /\ ListAt(p)' = stack'[p[2]].todo
        BY <4>1 DEF Lists, ListAt
      <4> QED
        BY <1>1, <4>1, <4>2 DEF Follows, Raw
    <3>2. CASE p \in {"queue"} \X {i \in Invoking' : stack'[i].step \in {"handle", "register"}}
      <4>1. /\ p[1] = "queue" /\ p[2] \in Invoking /\ stack'[p[2]] = stack[p[2]] /\ p[2] # n
            /\ m[p] = p /\ p = <<"queue", p[2]>> /\ stack[p[2]].step \in {"handle", "register"}
        BY <1>5, <2>4, <3>2
      <4>2. p \in Lists /\ ListAt(p) = stack[p[2]].deferred /\ ListAt(p)' = stack'[p[2]].deferred
        BY <4>1 DEF Lists, ListAt
      <4> QED
        BY <1>1, <4>1, <4>2 DEF Follows, Raw
    <3>3. CASE p \in {"callback"} \X (1..Len(tx'.callbacks))
      <4>1. p[1] = "callback" /\ p[2] \in 1..(c + 1) /\ p = <<"callback", p[2]>>
            /\ ListAt(p)' = tx'.callbacks[p[2]].events
        BY <2>3, <3>3 DEF ListAt
      <4>2. CASE p[2] = c + 1
        <5>1. m[p] = <<"queue", n>> /\ ListAt(p)' = stack[n].deferred
          BY <2>1, <2>3, <2>4, <4>1, <4>2
        <5>2. <<"queue", n>> \in Lists /\ ListAt(<<"queue", n>>) = stack[n].deferred
          BY <1>1, <1>2 DEF Lists, ListAt
        <5> QED
          BY <1>1, <4>1, <5>1, <5>2 DEF Follows, Raw, TopTodo
      <4>3. CASE p[2] # c + 1
        <5>1. m[p] = p /\ p[2] \in 1..c
          BY <2>4, <4>1, <4>3
        <5>2. p \in Lists /\ ListAt(p) = tx.callbacks[p[2]].events
          BY <2>3, <4>1, <5>1 DEF Lists, ListAt
        <5> QED
          BY <1>1, <2>3, <4>1, <5>1, <5>2 DEF Follows, Raw
      <4> QED
        BY <4>2, <4>3
    <3> QED
      BY <3>1, <3>2, <3>3 DEF Lists
  <2>6. \A p, q \in Lists' : m[p] = m[q] => p = q
    BY <2>4, <2>5
  <2>7. Moved(m, {})
    BY <2>5, <2>6 DEF Moved
  <2> QED
    BY <2>7
<1> QED
  BY <1>6, <1>7

\* The list of the first callback becomes that of a publication.
LEMMA ListsRun ==
  ASSUME ChainInv, Emitted, RunCallback
  PROVE  \E m, N : Moved(m, N)
<1>1. /\ TypeInv /\ Running /\ Top.kind = "invoke" /\ Top.step = "afterCommit" /\ tx.due > 0
      /\ ~PublishRaw /\ ~Wrapping /\ CallbackTaken
      /\ \E f : Push(f) /\ f.kind = "publish" /\ f.todo = NextCallback.events /\ f.step = "wrapper"
  BY DEF ChainInv, RunCallback, PublishRaw, Wrapping, PublishWrapper, At
<1>2. PICK n \in Nat : n = Len(stack)
  BY <1>1 DEF TypeInv, StackOK
<1>3. /\ Len(stack') = n + 1 /\ \A i \in 1..n : stack'[i] = stack[i]
      /\ stack'[n + 1].kind = "publish" /\ stack'[n + 1].todo = NextCallback.events
  BY <1>1, <1>2, PushFrames
<1>4. PICK c \in Nat : c = Len(tx.callbacks) /\ c >= 1
  BY <1>1 DEF TypeInv, TxOK, TxType
<1>5. /\ Len(tx'.callbacks) = c - 1 /\ \A b \in 1..(c - 1) : tx'.callbacks[b] = tx.callbacks[b + 1]
      /\ NextCallback = tx.callbacks[1]
  <2>1. tx.callbacks \in Seq(CallbackType) /\ tx'.callbacks = Tail(tx.callbacks)
    BY <1>1, TxFields DEF TypeInv, TxOK, TxType
  <2> QED
    BY <1>4, <2>1 DEF NextCallback
<1>6. \A i \in Publishing' : i = n + 1 \/ (i \in Publishing /\ i # n + 1 /\ stack'[i] = stack[i])
  BY <1>2, <1>3 DEF Publishing
<1>7. \A i \in Invoking' : i \in Invoking /\ stack'[i] = stack[i]
  BY <1>2, <1>3 DEF Invoking
<1> DEFINE m == [p \in Lists' |-> IF p = <<"todo", n + 1>> THEN <<"callback", 1>>
                                  ELSE IF p[1] = "callback" THEN <<"callback", p[2] + 1>> ELSE p]
<1>8. /\ \A p \in Lists' : p = <<"todo", n + 1>> => m[p] = <<"callback", 1>>
      /\ \A p \in Lists' : p[1] = "callback" => m[p] = <<"callback", p[2] + 1>>
      /\ \A p \in Lists' : p # <<"todo", n + 1>> /\ p[1] # "callback" => m[p] = p
  OBVIOUS
<1> HIDE DEF m
<1>9. ASSUME NEW p \in Lists'
      PROVE  /\ m[p] \in Lists /\ Follows(p, m[p])
             /\ \/ p = <<"todo", n + 1>> /\ m[p] = <<"callback", 1>>
                \/ p = <<"callback", p[2]>> /\ m[p] = <<"callback", p[2] + 1>> /\ p[2] \in Nat \ {0}
                \/ p[1] # "callback" /\ m[p] = p
  <2>1. CASE p \in {"todo"} \X Publishing'
    <3>1. p[1] = "todo" /\ p[2] \in Publishing' /\ p = <<"todo", p[2]>>
          /\ ListAt(p)' = stack'[p[2]].todo
      BY <2>1 DEF ListAt
    <3>2. CASE p[2] = n + 1
      <4>1. m[p] = <<"callback", 1>> /\ ListAt(p)' = tx.callbacks[1].events
        BY <1>3, <1>5, <1>8, <3>1, <3>2
      <4>2. <<"callback", 1>> \in Lists /\ ListAt(<<"callback", 1>>) = tx.callbacks[1].events
        BY <1>4 DEF Lists, ListAt
      <4> QED
        BY <1>1, <3>1, <3>2, <4>1, <4>2 DEF Follows, Raw, TopTodo
    <3>3. CASE p[2] # n + 1
      <4>1. p[2] \in Publishing /\ stack'[p[2]] = stack[p[2]] /\ m[p] = p
        BY <1>6, <1>8, <3>1, <3>3
      <4>2. p \in Lists /\ ListAt(p) = stack[p[2]].todo
        BY <3>1, <4>1 DEF Lists, ListAt
      <4> QED
        BY <1>1, <3>1, <4>1, <4>2 DEF Follows, Raw
    <3> QED
      BY <3>2, <3>3
  <2>2. CASE p \in {"queue"} \X {i \in Invoking' : stack'[i].step \in {"handle", "register"}}
    <3>1. /\ p[1] = "queue" /\ p[2] \in Invoking /\ stack'[p[2]] = stack[p[2]]
          /\ p = <<"queue", p[2]>> /\ stack[p[2]].step \in {"handle", "register"}
      BY <1>7, <2>2
    <3>4. m[p] = p
      BY <1>8, <3>1
    <3>2. p \in Lists /\ ListAt(p) = stack[p[2]].deferred /\ ListAt(p)' = stack'[p[2]].deferred
      BY <3>1 DEF Lists, ListAt
    <3> QED
      BY <1>1, <3>1, <3>2, <3>4 DEF Follows, Raw
  <2>3. CASE p \in {"callback"} \X (1..Len(tx'.callbacks))
    <3>1. p[1] = "callback" /\ p[2] \in 1..(c - 1) /\ p = <<"callback", p[2]>>
          /\ ListAt(p)' = tx'.callbacks[p[2]].events
      BY <1>5, <2>3 DEF ListAt
    <3>2. m[p] = <<"callback", p[2] + 1>> /\ p[2] + 1 \in 1..c
      <4>1. m[p] = <<"callback", p[2] + 1>>
        BY <1>8, <3>1
      <4> QED
        BY <1>4, <3>1, <4>1
    <3>3. /\ <<"callback", p[2] + 1>> \in Lists
          /\ ListAt(<<"callback", p[2] + 1>>) = tx.callbacks[p[2] + 1].events
      BY <1>4, <3>2 DEF Lists, ListAt
    <3>4. ListAt(p)' = ListAt(m[p])
      BY <1>5, <3>1, <3>2, <3>3
    <3> QED
      BY <1>1, <3>1, <3>2, <3>3, <3>4 DEF Follows, Raw, TopTodo
  <2> QED
    BY <2>1, <2>2, <2>3 DEF Lists
<1>10. ASSUME NEW p \in Lists', NEW q \in Lists', m[p] = m[q]
       PROVE  p = q
  <2> DEFINE a == p[2]
             b == q[2]
  <2>1. \A x, y : <<"callback", x>> = <<"callback", y>> => x = y
    OBVIOUS
  <2>2. \A x : <<"callback", x>>[1] = "callback"
    OBVIOUS
  <2>3. \/ p = <<"todo", n + 1>> /\ m[p] = <<"callback", 1>>
        \/ p = <<"callback", a>> /\ m[p] = <<"callback", a + 1>> /\ a \in Nat \ {0}
        \/ p[1] # "callback" /\ m[p] = p
    BY <1>9
  <2>4. \/ q = <<"todo", n + 1>> /\ m[q] = <<"callback", 1>>
        \/ q = <<"callback", b>> /\ m[q] = <<"callback", b + 1>> /\ b \in Nat \ {0}
        \/ q[1] # "callback" /\ m[q] = q
    BY <1>9
  <2> HIDE DEF a, b
  <2>5. a \in Nat \ {0} => a + 1 # 1
    OBVIOUS
  <2>6. b \in Nat \ {0} => b + 1 # 1
    OBVIOUS
  <2>7. a \in Nat /\ b \in Nat /\ a + 1 = b + 1 => a = b
    OBVIOUS
  <2>8. CASE p = <<"todo", n + 1>> /\ m[p] = <<"callback", 1>>
    <3>1. ~(q[1] # "callback" /\ m[q] = q)
      BY <1>10, <2>2, <2>8
    <3>2. ~(q = <<"callback", b>> /\ m[q] = <<"callback", b + 1>> /\ b \in Nat \ {0})
      BY <1>10, <2>1, <2>6, <2>8
    <3> QED
      BY <2>4, <2>8, <3>1, <3>2
  <2>9. CASE p = <<"callback", a>> /\ m[p] = <<"callback", a + 1>> /\ a \in Nat \ {0}
    <3>1. ~(q[1] # "callback" /\ m[q] = q)
      BY <1>10, <2>2, <2>9
    <3>2. ~(q = <<"todo", n + 1>> /\ m[q] = <<"callback", 1>>)
      BY <1>10, <2>1, <2>5, <2>9
    <3>3. q = <<"callback", b>> /\ m[q] = <<"callback", b + 1>> /\ b \in Nat \ {0}
      BY <2>4, <3>1, <3>2
    <3>4. a + 1 = b + 1
      BY <1>10, <2>1, <2>9, <3>3
    <3> QED
      BY <2>7, <2>9, <3>3, <3>4
  <2>10. CASE p[1] # "callback" /\ m[p] = p
    BY <1>10, <2>2, <2>4, <2>10
  <2> QED
    BY <2>3, <2>8, <2>9, <2>10
<1>11. Moved(m, {})
  BY <1>9, <1>10 DEF Moved
<1> QED
  BY <1>11

\* The steps that move a list or add one.
Listing == \/ Dispatching \/ RegisterDeferred \/ RunCallback
           \/ \E saved \in BOOLEAN : Invoke(saved)
           \/ \E timing \in Publishes : PublishExternal(timing)

\* What the others do to the stack and to the callbacks.
LEMMA NotListing ==
  ASSUME TypeInv, [Next]_vars, ~Listing
  PROVE  /\ tx'.callbacks = tx.callbacks \/ tx'.callbacks = <<>>
         /\ \/ UNCHANGED stack
            \/ Running /\ Top.kind = "invoke" /\ \E s \in InvokeSteps :
                  Goto(s) /\ s # "handle" /\ (s = "register" => Top.step = "handle")
            \/ Running /\ \E throws \in BOOLEAN : Leave(throws)
            \/ Wrapping
            \/ PublishRaw
            \/ stack' = <<>>
<1>1. CASE UNCHANGED vars
  BY <1>1 DEF vars
<1>2. CASE HandlerThrows \/ StampSuccess \/ StampFailure \/ MarkEventsFailed \/ FailureStampThrows
  BY <1>2 DEF HandlerThrows, StampSuccess, StampFailure, MarkEventsFailed, FailureStampThrows, At,
     InvokeSteps
<1>3. CASE Commits \/ CommitThrows \/ UnexpectedRollback \/ CallbacksDone \/ Completed \/ Abort
  <2>1. EnterAfterCommit \/ End \/ EnterAfterCompletion \/ UNCHANGED tx
    BY <1>3 DEF Commits, CommitThrows, UnexpectedRollback, CallbacksDone, Completed, Abort
  <2>2. tx'.callbacks = tx.callbacks \/ tx'.callbacks = <<>>
    BY <2>1, TxFields DEF TypeInv
  <2>3. Running /\ Top.kind = "invoke" /\ \E s \in InvokeSteps :
           Goto(s) /\ s # "handle" /\ (s = "register" => Top.step = "handle")
    BY <1>3 DEF Commits, CommitThrows, UnexpectedRollback, CallbacksDone, Completed, Abort, At,
       InvokeSteps
  <2> QED
    BY <2>2, <2>3
<1>4. CASE StampSuccessThrows \/ PolicyCatches \/ HandlerCatches
  BY <1>4 DEF StampSuccessThrows, PolicyCatches, HandlerCatches
<1>5. CASE \/ ParticipantFails \/ \E saved \in BOOLEAN : LogDeferred(saved)
  <2>1. SetRollbackOnly \/ ListenerTaken
    BY <1>5 DEF ParticipantFails, LogDeferred
  <2> QED
    BY <1>5, <2>1, TxFields DEF ParticipantFails, LogDeferred, TypeInv
<1>6. CASE PublishDone \/ PublishThrows \/ PolicyReturns \/ PolicyThrows
           \/ \E s \in {"return", "throw"} : Finish(s)
  BY <1>6 DEF PublishDone, PublishThrows, PolicyReturns, PolicyThrows, Finish, At
<1>7. CASE Wrapping
  <2>1. (\E e : DeferListener(e)) \/ UNCHANGED tx
    BY <1>7 DEF Wrapping, PublishWrapper
  <2> QED
    BY <1>7, <2>1, TxFields DEF TypeInv
<1>8. CASE PublishRaw
  BY <1>8 DEF PublishRaw
<1>9. CASE Crash
  BY <1>9, TxFields DEF Crash, TypeInv
<1> QED
  BY <1>1, <1>2, <1>3, <1>4, <1>5, <1>6, <1>7, <1>8, <1>9
     DEF Next, Proceed, Call, Listing, Dispatching, Wrapping

\* Every step moves lists.
LEMMA ListsStep ==
  ASSUME ChainInv, Emitted, [Next]_vars
  PROVE  \E m, N : Moved(m, N)
<1>1. CASE Listing
  BY <1>1, ListsReturned, ListsRegistered, ListsRun, ListsPushed DEF Listing, Dispatching
<1>2. CASE ~Listing
  <2>1. TypeInv
    BY DEF ChainInv
  <2>2. PICK n \in Nat : n = Len(stack) /\ stack \in Seq(FrameType) /\ (Running => Top = stack[n] /\ n >= 1)
    BY <2>1, TopFrame DEF TypeInv, StackOK
  <2>3. tx'.callbacks = tx.callbacks \/ tx'.callbacks = <<>>
    BY <1>2, <2>1, NotListing
  <2>4. ASSUME \A i \in Publishing' : GoesOn(i),
               \A i \in Invoking' : stack'[i].step \in {"handle", "register"} => Queues(i)
        PROVE  \E m, N : Moved(m, N)
    <3>1. \E m : Moved(m, {})
      BY <2>1, <2>3, <2>4, ListsStay
    <3> QED
      BY <3>1
  <2>5. ASSUME ~PublishRaw, ~Wrapping, NEW k \in Nat, Len(stack') = k, k <= n,
               \A i \in 1..k : stack'[i] = stack[i]
        PROVE  \E m, N : Moved(m, N)
    <3>1. \A i \in 1..k : i \in 1..n
      BY <2>5
    <3>2. \A i \in Publishing' : GoesOn(i)
      BY <2>2, <2>5, <3>1 DEF Publishing, GoesOn
    <3>3. \A i \in Invoking' : stack'[i].step \in {"handle", "register"} => Queues(i)
      BY <2>2, <2>5, <3>1 DEF Invoking, Queues
    <3> QED
      BY <2>4, <3>2, <3>3
  <2>6. CASE PublishRaw
    <3>1. /\ Running /\ Top.kind = "publish" /\ Top.step = "raw" /\ ~Wrapping
      BY <2>6 DEF PublishRaw, At, Wrapping, PublishWrapper
    <3>2. /\ Len(stack') = n + 1 /\ \A i \in 1..(n - 1) : stack'[i] = stack[i]
          /\ stack'[n].kind = "publish" /\ stack'[n].todo = Tail(Top.todo)
          /\ stack'[n + 1].kind = "policy" /\ Top.todo # <<>>
      BY <2>1, <2>2, <2>6, <3>1, PublishRawEffect, TopPublication DEF ListenFrames
    <3>3. \A i \in 1..(n + 1) : i = n + 1 \/ i = n \/ (i \in 1..(n - 1) /\ i # n)
      OBVIOUS
    <3>4. \A i \in Publishing' : GoesOn(i)
      BY <2>2, <2>6, <3>1, <3>2, <3>3 DEF Publishing, GoesOn
    <3>5. \A i \in Invoking' : stack'[i].step \in {"handle", "register"} => Queues(i)
      BY <2>2, <3>2, <3>3 DEF Invoking, Queues
    <3> QED
      BY <2>4, <3>4, <3>5
  <2>7. CASE Wrapping
    <3>1. /\ Running /\ Top.kind = "publish" /\ ~PublishRaw
      BY <2>7 DEF PublishRaw, At, Wrapping, PublishWrapper
    <3>2. WrapperFrames
      BY <2>1, <2>7, PublishWrapperEffect DEF Wrapping
    <3>3. /\ Len(stack') = n /\ \A i \in 1..n : i # n => stack'[i] = stack[i]
          /\ stack'[n].kind = "publish" /\ stack'[n].todo = Top.todo /\ stack'[n].step = "raw"
      BY <2>2, <3>2 DEF WrapperFrames
    <3>4. \A i \in Publishing' : GoesOn(i)
      BY <2>2, <2>7, <3>1, <3>3 DEF Publishing, GoesOn
    <3>5. \A i \in Invoking' : stack'[i].step \in {"handle", "register"} => Queues(i)
      BY <2>2, <3>3 DEF Invoking, Queues
    <3> QED
      BY <2>4, <3>4, <3>5
  <2>8. CASE ~PublishRaw /\ ~Wrapping
    <3>1. CASE UNCHANGED stack
      BY <2>2, <2>5, <2>8, <3>1
    <3>2. ASSUME Running, Top.kind = "invoke", NEW s \in InvokeSteps, Goto(s), s # "handle",
                 s = "register" => Top.step = "handle"
          PROVE  \E m, N : Moved(m, N)
      <4>1. /\ Len(stack') = n /\ \A i \in 1..n : i # n => stack'[i] = stack[i]
            /\ stack'[n].kind = "invoke" /\ stack'[n].step = s /\ stack'[n].deferred = Top.deferred
        BY <2>2, <3>2, GotoStack
      <4>2. \A i \in Publishing' : GoesOn(i)
        BY <2>2, <2>8, <4>1 DEF Publishing, GoesOn
      <4>3. \A i \in Invoking' : stack'[i].step \in {"handle", "register"} => Queues(i)
        BY <2>2, <3>2, <4>1 DEF Invoking, Queues
      <4> QED
        BY <2>4, <4>2, <4>3
    <3>3. ASSUME Running, NEW throws \in BOOLEAN, Leave(throws)
          PROVE  \E m, N : Moved(m, N)
      <4>1. Len(stack') = n - 1 /\ \A i \in 1..(n - 1) : stack'[i] = stack[i]
        BY <2>2, <3>3, LeaveStack
      <4>2. n - 1 \in Nat /\ n - 1 <= n
        BY <2>2, <3>3
      <4> QED
        BY <2>5, <2>8, <4>1, <4>2
    <3>4. CASE stack' = <<>>
      <4>1. Len(stack') = 0
        BY <3>4
      <4> QED
        BY <2>2, <2>5, <2>8, <4>1
    <3> QED
      BY <1>2, <2>1, <2>8, <3>1, <3>2, <3>3, <3>4, NotListing
  <2> QED
    BY <2>6, <2>7, <2>8
<1> QED
  BY <1>1, <1>2

(***************************************************************************)
(* An event is told of by a row or by a listener that will write one, once *)
(* only, and not before its turn has come; it is delivered once.           *)
(***************************************************************************)
Told(e) == \/ \E i \in 1..Len(rows) : rows[i].kind = "event" /\ rows[i].of = e
           \/ \E k \in 1..Len(tx.listeners) : tx.listeners[k].event = e

Untold == \A p \in Lists : \A k \in 1..Len(ListAt(p)) :
              /\ events[ListAt(p)[k]].delivered = 0
              /\ Told(ListAt(p)[k]) => Raw(p) /\ k = 1

ToldOnce ==
    /\ \A i, j \in 1..Len(rows) :
          rows[i].kind = "event" /\ rows[j].kind = "event" /\ rows[i].of = rows[j].of => i = j
    /\ \A k, l \in 1..Len(tx.listeners) : tx.listeners[k].event = tx.listeners[l].event => k = l
    /\ \A i \in 1..Len(rows), k \in 1..Len(tx.listeners) :
          rows[i].kind = "event" => rows[i].of # tx.listeners[k].event

DeliveredOnce == \A e \in 1..Len(events) : events[e].delivered \in {0, 1}

Once == Apart /\ Untold /\ ToldOnce /\ DeliveredOnce

\* A step adds no row of an event; or it adds one, of e.
NoEventRow ==
    /\ Len(rows') \in Nat
    /\ \A i \in 1..Len(rows') : rows'[i].kind = "event" =>
          i \in 1..Len(rows) /\ rows[i].kind = "event" /\ rows[i].of = rows'[i].of
NewEventRow(e) ==
    /\ Len(rows) \in Nat /\ Len(rows') = Len(rows) + 1
    /\ \A i \in 1..Len(rows) : rows'[i] = rows[i]
    /\ rows'[Len(rows) + 1].kind = "event" /\ rows'[Len(rows) + 1].of = e

\* The listeners that are left after a step.
FewerListeners == \/ tx'.listeners = tx.listeners \/ tx'.listeners = <<>>
                  \/ tx.listeners # <<>> /\ tx'.listeners = Tail(tx.listeners)

\* Recording an event adds its row.
LEMMA RecordTells ==
  ASSUME TypeInv, NEW e \in Nat, NEW r \in RequestIds, NEW saved \in BOOLEAN,
         Record("event", e, r, TRUE, saved)
  PROVE  NewEventRow(e)
<1>1. "event" \in {"command", "event"} /\ TRUE \in BOOLEAN /\ TrailTypeOK
  BY DEF TypeInv
<1>2. /\ Len(rows) \in Nat /\ Len(rows') = Len(rows) + 1
      /\ \A i \in 1..Len(rows) : rows'[i] = rows[i]
      /\ rows'[Len(rows) + 1].kind = "event" /\ rows'[Len(rows) + 1].of = e
  BY <1>1, RecordTrail
<1> QED
  BY <1>2 DEF NewEventRow

\* The list from which an event is taken.
LEMMA TopList ==
  ASSUME TypeInv, PublishRaw \/ Wrapping
  PROVE  /\ TopTodo \in Lists /\ ListAt(TopTodo) = Top.todo /\ Top.todo \in Seq(Nat)
         /\ Top.todo # <<>> /\ Head(Top.todo) = ListAt(TopTodo)[1] /\ 1 \in 1..Len(ListAt(TopTodo))
         /\ Raw(TopTodo) <=> PublishRaw
<1>1. /\ Running /\ Top.kind = "publish"
      /\ Top.step = "raw" \/ Top.todo # <<>>
      /\ Top.step = "raw" <=> PublishRaw
  BY DEF PublishRaw, Wrapping, PublishWrapper, At
<1>2. /\ Len(stack) \in Publishing /\ Top = stack[Len(stack)] /\ Top.todo \in Seq(Nat)
      /\ Top.step = "raw" => Top.todo # <<>>
  BY <1>1, TopPublication
<1>3. TopTodo \in Lists /\ ListAt(TopTodo) = Top.todo /\ (Raw(TopTodo) <=> Top.step = "raw")
  BY <1>2 DEF TopTodo, Lists, ListAt, Raw
<1>4. Top.todo # <<>>
  BY <1>1, <1>2
<1>5. Head(Top.todo) = Top.todo[1] /\ 1 \in 1..Len(Top.todo)
  BY <1>2, <1>4
<1> QED
  BY <1>1, <1>2, <1>3, <1>4, <1>5

\* What a step tells of.
LEMMA TellStep ==
  ASSUME ChainInv, Emitted, [Next]_vars
  PROVE  \/ NoEventRow /\ FewerListeners
         \/ /\ Wrapping /\ NewEventRow(Head(Top.todo)) /\ UNCHANGED tx
         \/ /\ Wrapping /\ NoEventRow
            /\ Len(tx.listeners) \in Nat /\ Len(tx'.listeners) = Len(tx.listeners) + 1
            /\ \A k \in 1..Len(tx.listeners) : tx'.listeners[k] = tx.listeners[k]
            /\ tx'.listeners[Len(tx.listeners) + 1].event = Head(Top.todo)
         \/ /\ tx.listeners # <<>> /\ tx'.listeners = Tail(tx.listeners)
            /\ NewEventRow(Head(tx.listeners).event)
<1>1. TypeInv /\ RowsExist /\ TrailTypeOK /\ TxOK /\ tx.listeners \in Seq(ListenerType)
  BY DEF ChainInv, TypeInv, TxOK, TxType
<1>2. SameRows \/ UNCHANGED rows => NoEventRow
  BY <1>1 DEF TrailTypeOK, SameRows, NoEventRow
<1>3. CASE Wrapping
  <2>1. PICK saved \in BOOLEAN : PublishWrapper(saved)
    BY <1>3 DEF Wrapping
  <2> DEFINE e == Head(Top.todo)
  <2>2. /\ Top.todo \in Seq(Nat) /\ Top.todo # <<>> /\ e \in Nat /\ mdc \in RequestIds \cup {0}
        /\ Top.req \in RequestIds
    <3>1. Running /\ Top.kind = "publish" /\ Top.todo # <<>>
      BY <2>1 DEF PublishWrapper, At
    <3> QED
      BY <1>1, <3>1, TopPublication DEF TypeInv, HistoryOK
  <2>3. CASE DeferListener([event |-> e, req |-> Top.req]) /\ UNCHANGED trail
    <3> DEFINE d == [event |-> e, req |-> Top.req]
    <3>1. tx'.listeners = Append(tx.listeners, d) /\ d.event = e
      BY <1>1, <2>3, TxFields
    <3>2. NoEventRow
      BY <1>2, <2>3 DEF trail
    <3> HIDE DEF d, e
    <3> QED
      BY <1>1, <1>3, <3>1, <3>2, AppendProperties DEF e
  <2>4. CASE /\ Record("event", e, IF mdc # 0 THEN mdc ELSE Top.req, TRUE, saved)
             /\ UNCHANGED tx
    <3>1. (IF mdc # 0 THEN mdc ELSE Top.req) \in RequestIds
      BY <2>2
    <3>2. NewEventRow(e)
      BY <1>1, <2>2, <2>4, <3>1, RecordTells
    <3> QED
      BY <1>3, <2>4, <3>2
  <2> QED
    BY <2>1, <2>3, <2>4 DEF PublishWrapper
<1>4. ASSUME NEW saved \in BOOLEAN, LogDeferred(saved)
      PROVE  /\ tx.listeners # <<>> /\ tx'.listeners = Tail(tx.listeners)
             /\ NewEventRow(Head(tx.listeners).event)
  <2> DEFINE d == Head(tx.listeners)
             r == IF mdc # 0 THEN mdc ELSE d.req
  <2>1. tx.listeners # <<>> /\ Record("event", d.event, r, TRUE, saved) /\ ListenerTaken
    BY <1>4 DEF LogDeferred
  <2>2. d \in ListenerType
    BY <1>1, <2>1
  <2>3. d.event \in Nat /\ r \in RequestIds
    BY <1>1, <2>2 DEF ListenerType, TypeInv, HistoryOK
  <2> HIDE DEF d, r
  <2>4. NewEventRow(d.event)
    BY <1>1, <2>1, <2>3, RecordTells
  <2> QED
    BY <1>1, <2>1, <2>4, TxFields DEF d
<1>5. CASE ~Wrapping /\ ~ \E saved \in BOOLEAN : LogDeferred(saved)
  <2>1. FewerListeners
    <3>1. CASE RegisterDeferred
      <4>1. (\E c : RegisterCallback(c)) \/ UNCHANGED tx
        BY <3>1 DEF RegisterDeferred
      <4> QED
        BY <1>1, <4>1, TxFields DEF FewerListeners
    <3> QED
      BY <1>1, <1>5, <3>1, PutOffKinds DEF LessPutOff, FewerListeners, Wrapping
  <2>2. NoEventRow
    <3>1. CASE \E saved \in BOOLEAN : Invoke(saved)
      <4>1. PICK saved \in BOOLEAN : Invoke(saved)
        BY <3>1
      <4>2. /\ Record("command", Len(invs) + 1, mdc', FALSE, saved)
            /\ Len(invs) \in Nat /\ mdc' = IF mdc # 0 THEN mdc ELSE ids + 1
        BY <1>1, <4>1, InvokeEffect
      <4>3. mdc' \in RequestIds
        <5>1. TypeInv'
          BY ChainStep DEF ChainInv
        <5>2. mdc' # 0
          BY <1>1, <4>2 DEF TypeInv, HistoryOK
        <5> QED
          BY <5>1, <5>2 DEF TypeInv, HistoryOK
      <4>4. Len(invs) + 1 \in Nat /\ "command" \in {"command", "event"} /\ FALSE \in BOOLEAN
        BY <4>2
      <4>5. /\ Len(rows) \in Nat /\ Len(rows') = Len(rows) + 1
            /\ \A i \in 1..Len(rows) : rows'[i] = rows[i]
            /\ rows'[Len(rows) + 1].kind = "command"
        <5>1. PICK n \in Nat, r \in RequestIds : n = Len(invs) + 1 /\ r = mdc'
          BY <4>3, <4>4
        <5>2. Record("command", n, r, FALSE, saved)
          BY <4>2, <5>1
        <5> QED
          BY <1>1, <4>4, <5>2, RecordTrail
      <4> QED
        BY <4>5 DEF NoEventRow
    <3>2. CASE StampSuccess \/ StampFailure \/ MarkEventsFailed
      BY <1>1, <1>2, <3>2, StampRows
    <3> QED
      BY <1>2, <1>5, <3>1, <3>2, RowChanges DEF Wrapping
  <2> QED
    BY <2>1, <2>2
<1> QED
  BY <1>3, <1>4, <1>5

\* How a step counts deliveries.
LEMMA DeliverStep ==
  ASSUME ChainInv, [Next]_vars
  PROVE  /\ Len(events) \in Nat /\ Len(events') \in Nat /\ Len(events') >= Len(events)
         /\ PublishRaw => /\ Len(events') = Len(events)
                          /\ \A e \in 1..Len(events) : events'[e].delivered =
                                IF e = Head(Top.todo) THEN events[e].delivered + 1
                                ELSE events[e].delivered
         /\ ~PublishRaw => /\ \A e \in 1..Len(events) : events'[e] = events[e]
                           /\ \A e \in 1..Len(events') :
                                 e \notin 1..Len(events) => events'[e].delivered = 0
<1>1. TypeInv /\ KnownEvents /\ events \in Seq(EventType) /\ Len(events) \in Nat
  BY KnownEventsStep DEF ChainInv, TypeInv, HistoryOK
<1>2. CASE PublishRaw
  BY <1>1, <1>2, PublishRawEffect DEF SameEvents
<1>3. CASE ~PublishRaw /\ UNCHANGED events
  BY <1>1, <1>3
<1>4. ASSUME NEW nNow \in 0..MaxEvents, NEW nLater \in 0..MaxEvents, HandlerReturns(nNow, nLater)
      PROVE  /\ ~PublishRaw /\ \A e \in 1..Len(events) : events'[e] = events[e]
             /\ \A e \in 1..Len(events') : e \notin 1..Len(events) => events'[e].delivered = 0
  <2>1. NewEvents(Top.inv, nNow, nLater) /\ ~PublishRaw
    BY <1>1, <1>4, HandlerReturnsEffect DEF HandlerReturns, PublishRaw, At
  <2>2. \A e \in 1..Len(events') : e \notin 1..Len(events) => e \in (Len(events) + 1)..Len(events')
    BY <1>1 DEF KnownEvents
  <2> QED
    BY <2>1, <2>2 DEF NewEvents
<1>5. ASSUME NEW timing \in Publishes, PublishExternal(timing)
      PROVE  /\ ~PublishRaw /\ \A e \in 1..Len(events) : events'[e] = events[e]
             /\ \A e \in 1..Len(events') : e \notin 1..Len(events) => events'[e].delivered = 0
  <2> DEFINE v == [by |-> 0, timing |-> timing, delivered |-> 0]
  <2>1. events' = Append(events, v) /\ v.delivered = 0
    BY <1>5 DEF PublishExternal
  <2>2. ~PublishRaw
    BY <1>5 DEF PublishExternal, PublishRaw, MayCall, At
  <2> HIDE DEF v
  <2>3. /\ Len(events') = Len(events) + 1 /\ \A e \in 1..Len(events) : events'[e] = events[e]
        /\ events'[Len(events) + 1] = v
    BY <1>1, <2>1, AppendProperties
  <2> QED
    BY <1>1, <2>1, <2>2, <2>3
<1>6. \/ PublishRaw \/ UNCHANGED events
      \/ \E nNow, nLater \in 0..MaxEvents : HandlerReturns(nNow, nLater)
      \/ \E timing \in Publishes : PublishExternal(timing)
  BY DEF Next, Proceed, Call, Invoke, ParticipantFails, HandlerThrows, RegisterDeferred,
     StampSuccess, StampSuccessThrows, Commits, CommitThrows, UnexpectedRollback, RunCallback,
     CallbacksDone, LogDeferred, Completed, Abort, StampFailure, MarkEventsFailed,
     FailureStampThrows, Finish, PublishWrapper, PublishDone, PublishThrows, PolicyReturns,
     PolicyThrows, PolicyCatches, HandlerCatches, Crash, vars
<1>7. Len(events') \in Nat /\ Len(events') >= Len(events)
  BY <1>1 DEF KnownEvents
<1> QED
  BY <1>1, <1>2, <1>3, <1>4, <1>5, <1>6, <1>7

\* What a step newly tells of is the event at the head of the list being published.
LEMMA NewlyTold ==
  ASSUME ChainInv, Emitted, [Next]_vars, NEW e, Told(e)'
  PROVE  Told(e) \/ (Wrapping /\ e = Head(Top.todo))
<1>1. TypeInv /\ tx.listeners \in Seq(ListenerType)
  BY DEF ChainInv, TypeInv, TxOK, TxType
<1>2. NoEventRow => \A i \in 1..Len(rows') : rows'[i].kind = "event" => Told(rows'[i].of)
  BY DEF NoEventRow, Told
<1>3. FewerListeners => \A k \in 1..Len(tx'.listeners) : Told(tx'.listeners[k].event)
  <2>1. ASSUME tx.listeners # <<>>, tx'.listeners = Tail(tx.listeners), NEW k \in 1..Len(tx'.listeners)
        PROVE  Told(tx'.listeners[k].event)
    <3>1. k + 1 \in 1..Len(tx.listeners) /\ tx'.listeners[k] = tx.listeners[k + 1]
      BY <1>1, <2>1
    <3> QED
      BY <3>1 DEF Told
  <2>2. Len(<<>>) = 0
    OBVIOUS
  <2> QED
    BY <2>1, <2>2 DEF FewerListeners, Told
<1>4. ASSUME NEW f, NewEventRow(f)
      PROVE  \A i \in 1..Len(rows') : rows'[i].kind = "event" => rows'[i].of = f \/ Told(rows'[i].of)
  <2>1. \A i \in 1..Len(rows') : i \in 1..Len(rows) \/ i = Len(rows) + 1
    BY <1>4 DEF NewEventRow
  <2> QED
    BY <1>4, <2>1 DEF NewEventRow, Told
<1>5. CASE NoEventRow /\ FewerListeners
  BY <1>2, <1>3, <1>5 DEF Told
<1>6. CASE Wrapping /\ NewEventRow(Head(Top.todo)) /\ UNCHANGED tx
  <2>1. \A k \in 1..Len(tx'.listeners) : Told(tx'.listeners[k].event)
    BY <1>6 DEF Told
  <2> QED
    BY <1>4, <1>6, <2>1 DEF Told
<1>7. CASE /\ Wrapping /\ NoEventRow
           /\ Len(tx.listeners) \in Nat /\ Len(tx'.listeners) = Len(tx.listeners) + 1
           /\ \A k \in 1..Len(tx.listeners) : tx'.listeners[k] = tx.listeners[k]
           /\ tx'.listeners[Len(tx.listeners) + 1].event = Head(Top.todo)
  <2>1. \A k \in 1..Len(tx'.listeners) : k \in 1..Len(tx.listeners) \/ k = Len(tx.listeners) + 1
    BY <1>7
  <2>2. \A k \in 1..Len(tx'.listeners) :
           tx'.listeners[k].event = Head(Top.todo) \/ Told(tx'.listeners[k].event)
    BY <1>7, <2>1 DEF Told
  <2> QED
    BY <1>2, <1>7, <2>2 DEF Told
<1>8. CASE /\ tx.listeners # <<>> /\ tx'.listeners = Tail(tx.listeners)
           /\ NewEventRow(Head(tx.listeners).event)
  <2>1. 1 \in 1..Len(tx.listeners) /\ Head(tx.listeners) = tx.listeners[1]
    BY <1>1, <1>8
  <2>2. Told(Head(tx.listeners).event)
    BY <2>1 DEF Told
  <2>3. \A k \in 1..Len(tx'.listeners) : Told(tx'.listeners[k].event)
    BY <1>3, <1>8 DEF FewerListeners
  <2> QED
    BY <1>4, <1>8, <2>2, <2>3 DEF Told
<1> QED
  BY <1>5, <1>6, <1>7, <1>8, TellStep

\* What is told of is an event.
LEMMA ToldEvents ==
  ASSUME Emitted, NEW e, Told(e)
  PROVE  e \in 1..Len(events)
BY DEF Told, Emitted, EventRows, PutOff, From, Tells

\* The lists hold events.
Listed == \A p \in Lists : \A k \in 1..Len(ListAt(p)) : ListAt(p)[k] \in 1..Len(events)

\* That follows from the invariants so far.
LEMMA AllListed == TypeInv /\ Emitted => Listed
BY ListedEvents DEF Listed

\* An event that still waits has been neither delivered nor told of, but for the one
\* whose wrapper has gone out.
LEMMA UntoldStep ==
  ASSUME ChainInv, Emitted, Apart, Untold, [Next]_vars
  PROVE  Untold'
<1>1. TypeInv /\ TypeInv' /\ Emitted'
  BY ChainStep, EmittedStep DEF ChainInv
<1>2. PICK m, N : Moved(m, N)
  BY ListsStep
<1>3. SUFFICES ASSUME NEW p \in Lists', NEW k \in 1..Len(ListAt(p)')
               PROVE  /\ events'[ListAt(p)'[k]].delivered = 0
                      /\ Told(ListAt(p)[k])' => Raw(p)' /\ k = 1
  BY DEF Untold
<1> DEFINE e == ListAt(p)'[k]
<1>4. e \in 1..Len(events')
  <2>1. Listed'
    BY <1>1, AllListed, PTL
  <2> QED
    BY <2>1 DEF Listed
<1>5. Told(ListAt(p)[k])' => Told(e) \/ (Wrapping /\ e = Head(Top.todo))
  BY NewlyTold
<1>6. Wrapping \/ PublishRaw => /\ TopTodo \in Lists /\ 1 \in 1..Len(ListAt(TopTodo))
                                /\ Head(Top.todo) = ListAt(TopTodo)[1]
                                /\ Head(Top.todo) \in 1..Len(events)
  BY <1>1, TopList, ListedEvents
<1>7. CASE p \in N
  <2>1. e > Len(events) /\ Len(events) \in Nat
    BY <1>1, <1>2, <1>7 DEF Moved, TypeInv, HistoryOK
  <2>2. e \notin 1..Len(events)
    BY <2>1
  <2>3. ~Told(e) /\ ~(Wrapping /\ e = Head(Top.todo))
    BY <1>6, <2>2, ToldEvents
  <2>4. events'[e].delivered = 0
    BY <1>4, <2>2, DeliverStep
  <2> QED
    BY <1>5, <2>3, <2>4
<1>8. CASE p \notin N
  <2>1. m[p] \in Lists /\ Follows(p, m[p]) /\ ListAt(m[p]) \in Seq(Nat)
    BY <1>1, <1>2, <1>8, ListedEvents DEF Moved
  <2>2. CASE PublishRaw /\ m[p] = TopTodo
    <3>1. ListAt(TopTodo) # <<>> /\ ListAt(p)' = Tail(ListAt(TopTodo))
      BY <2>1, <2>2 DEF Follows
    <3>2. k + 1 \in 1..Len(ListAt(TopTodo)) /\ e = ListAt(TopTodo)[k + 1] /\ k + 1 # 1
      BY <2>1, <2>2, <3>1
    <3>3. e # Head(Top.todo) /\ e \in 1..Len(events)
      BY <1>1, <1>6, <2>2, <3>2, ListedEvents DEF Apart
    <3>4. events[e].delivered = 0 /\ ~Told(e)
      BY <2>1, <2>2, <3>2 DEF Untold
    <3>5. events'[e].delivered = 0
      BY <2>2, <3>3, <3>4, DeliverStep
    <3> QED
      BY <1>5, <3>3, <3>4, <3>5
  <2>3. CASE ~(PublishRaw /\ m[p] = TopTodo)
    <3>1. ListAt(p)' = ListAt(m[p]) /\ (Raw(m[p]) \/ (Wrapping /\ m[p] = TopTodo) => Raw(p)')
      BY <2>1, <2>3 DEF Follows
    <3>2. k \in 1..Len(ListAt(m[p])) /\ e = ListAt(m[p])[k]
      BY <3>1
    <3>3. e \in 1..Len(events) /\ events[e].delivered = 0 /\ (Told(e) => Raw(m[p]) /\ k = 1)
      BY <1>1, <2>1, <3>2, ListedEvents DEF Untold
    <3>4. (Wrapping \/ PublishRaw) /\ e = Head(Top.todo) => m[p] = TopTodo /\ k = 1
      BY <1>6, <2>1, <3>2 DEF Apart
    <3>5. events'[e].delivered = 0
      BY <2>3, <3>3, <3>4, DeliverStep
    <3> QED
      BY <1>5, <3>1, <3>3, <3>4, <3>5
  <2> QED
    BY <2>2, <2>3
<1> QED
  BY <1>7, <1>8

\* No event is told of again.
LEMMA ToldOnceStep ==
  ASSUME ChainInv, Emitted, Untold, ToldOnce, [Next]_vars
  PROVE  ToldOnce'
<1>1. TypeInv /\ tx.listeners \in Seq(ListenerType) /\ Len(tx.listeners) \in Nat
  BY DEF ChainInv, TypeInv, TxOK, TxType
<1> DEFINE ls == tx.listeners
           ms == tx'.listeners
<1>2. FewerListeners => \E d \in {0, 1} : \A k \in 1..Len(ms) : k + d \in 1..Len(ls) /\ ms[k] = ls[k + d]
  <2>1. CASE ms = ls
    <3>1. \A k \in 1..Len(ms) : k + 0 \in 1..Len(ls) /\ ms[k] = ls[k + 0]
      BY <1>1, <2>1
    <3> QED
      BY <3>1
  <2>2. CASE ls # <<>> /\ ms = Tail(ls)
    <3>1. \A k \in 1..Len(ms) : k + 1 \in 1..Len(ls) /\ ms[k] = ls[k + 1]
      BY <1>1, <2>2
    <3> QED
      BY <3>1
  <2>3. CASE ms = <<>>
    <3>1. Len(ms) = 0
      BY <2>3
    <3> QED
      BY <3>1
  <2> QED
    BY <2>1, <2>2, <2>3 DEF FewerListeners
<1>3. Wrapping => Head(Top.todo) \in Nat /\ ~Told(Head(Top.todo))
  <2>1. Wrapping => ~PublishRaw
    BY DEF Wrapping, PublishWrapper, PublishRaw, At
  <2> QED
    BY <1>1, <2>1, TopList DEF Untold
<1>4. CASE NoEventRow /\ FewerListeners
  <2>1. PICK d \in {0, 1} : \A k \in 1..Len(ms) : k + d \in 1..Len(ls) /\ ms[k] = ls[k + d]
    BY <1>2, <1>4
  <2>2. ASSUME NEW k \in 1..Len(ms), NEW l \in 1..Len(ms), ms[k].event = ms[l].event
        PROVE  k = l
    <3>1. k + d = l + d
      BY <2>1, <2>2 DEF ToldOnce
    <3> QED
      BY <3>1
  <2>3. ASSUME NEW i \in 1..Len(rows'), NEW j \in 1..Len(rows'),
               rows'[i].kind = "event", rows'[j].kind = "event", rows'[i].of = rows'[j].of
        PROVE  i = j
    BY <1>4, <2>3 DEF NoEventRow, ToldOnce
  <2>4. ASSUME NEW i \in 1..Len(rows'), NEW k \in 1..Len(ms), rows'[i].kind = "event"
        PROVE  rows'[i].of # ms[k].event
    BY <1>4, <2>1, <2>4 DEF NoEventRow, ToldOnce
  <2> HIDE DEF ms
  <2> QED
    BY <2>2, <2>3, <2>4 DEF ToldOnce, ms
<1>5. ASSUME NEW e, NewEventRow(e), NEW L, L \subseteq 1..Len(ls),
             \A i \in 1..Len(rows) : rows[i].kind = "event" => rows[i].of # e,
             \A k \in L : ls[k].event # e
      PROVE  /\ \A i, j \in 1..Len(rows') :
                   rows'[i].kind = "event" /\ rows'[j].kind = "event" /\ rows'[i].of = rows'[j].of =>
                      i = j
             /\ \A i \in 1..Len(rows'), k \in L : rows'[i].kind = "event" => rows'[i].of # ls[k].event
  <2>1. \A i \in 1..Len(rows') : (i \in 1..Len(rows) /\ rows'[i] = rows[i])
                                 \/ (i = Len(rows) + 1 /\ rows'[i].of = e)
    BY <1>5 DEF NewEventRow
  <2> QED
    BY <1>5, <2>1 DEF ToldOnce
<1>6. CASE Wrapping /\ NewEventRow(Head(Top.todo)) /\ UNCHANGED tx
  <2>1. /\ \A i \in 1..Len(rows) : rows[i].kind = "event" => rows[i].of # Head(Top.todo)
        /\ \A k \in 1..Len(ls) : ls[k].event # Head(Top.todo)
    BY <1>3, <1>6 DEF Told
  <2>2. /\ \A i, j \in 1..Len(rows') :
              rows'[i].kind = "event" /\ rows'[j].kind = "event" /\ rows'[i].of = rows'[j].of => i = j
        /\ \A i \in 1..Len(rows'), k \in 1..Len(ls) :
              rows'[i].kind = "event" => rows'[i].of # ls[k].event
    BY <1>5, <1>6, <2>1
  <2>3. ms = ls
    BY <1>6
  <2>4. \A k, l \in 1..Len(ls) : ls[k].event = ls[l].event => k = l
    BY DEF ToldOnce
  <2> HIDE DEF ms, ls
  <2> QED
    BY <2>2, <2>3, <2>4 DEF ToldOnce, ms, ls
<1>7. CASE /\ Wrapping /\ NoEventRow
           /\ Len(ls) \in Nat /\ Len(ms) = Len(ls) + 1
           /\ \A k \in 1..Len(ls) : ms[k] = ls[k]
           /\ ms[Len(ls) + 1].event = Head(Top.todo)
  <2>1. /\ \A i \in 1..Len(rows) : rows[i].kind = "event" => rows[i].of # Head(Top.todo)
        /\ \A k \in 1..Len(ls) : ls[k].event # Head(Top.todo)
    BY <1>3, <1>7 DEF Told
  <2>2. \A k \in 1..Len(ms) : (k \in 1..Len(ls) /\ ms[k] = ls[k])
                              \/ (k = Len(ls) + 1 /\ ms[k].event = Head(Top.todo))
    BY <1>7
  <2>3. \A k, l \in 1..Len(ms) : ms[k].event = ms[l].event => k = l
    BY <2>1, <2>2 DEF ToldOnce
  <2>4. \A i, j \in 1..Len(rows') :
           rows'[i].kind = "event" /\ rows'[j].kind = "event" /\ rows'[i].of = rows'[j].of => i = j
    BY <1>7 DEF NoEventRow, ToldOnce
  <2>5. ASSUME NEW i \in 1..Len(rows'), NEW k \in 1..Len(ms), rows'[i].kind = "event"
        PROVE  rows'[i].of # ms[k].event
    <3>1. i \in 1..Len(rows) /\ rows[i].kind = "event" /\ rows[i].of = rows'[i].of
      BY <1>7, <2>5 DEF NoEventRow
    <3> QED
      BY <2>1, <2>2, <3>1 DEF ToldOnce
  <2> HIDE DEF ms
  <2> QED
    BY <2>3, <2>4, <2>5 DEF ToldOnce, ms
<1>8. CASE ls # <<>> /\ ms = Tail(ls) /\ NewEventRow(Head(ls).event)
  <2>1. 1 \in 1..Len(ls) /\ Head(ls) = ls[1]
    BY <1>1, <1>8
  <2>2. \A k \in 1..Len(ms) : k + 1 \in 2..Len(ls) /\ k + 1 \in 1..Len(ls) /\ ms[k] = ls[k + 1]
    BY <1>1, <1>8
  <2>3. \A k \in 2..Len(ls) : ls[k].event # ls[1].event
    BY <1>1, <2>1 DEF ToldOnce
  <2>4. \A i \in 1..Len(rows) : rows[i].kind = "event" => rows[i].of # ls[1].event
    BY <2>1 DEF ToldOnce
  <2>5. 2..Len(ls) \subseteq 1..Len(ls)
    BY <1>1
  <2>6. /\ \A i, j \in 1..Len(rows') :
              rows'[i].kind = "event" /\ rows'[j].kind = "event" /\ rows'[i].of = rows'[j].of => i = j
        /\ \A i \in 1..Len(rows'), k \in 2..Len(ls) :
              rows'[i].kind = "event" => rows'[i].of # ls[k].event
    BY <1>5, <1>8, <2>1, <2>3, <2>4, <2>5
  <2>7. ASSUME NEW k \in 1..Len(ms), NEW l \in 1..Len(ms), ms[k].event = ms[l].event
        PROVE  k = l
    <3>1. k + 1 = l + 1
      BY <2>2, <2>7 DEF ToldOnce
    <3> QED
      BY <3>1
  <2>8. ASSUME NEW i \in 1..Len(rows'), NEW k \in 1..Len(ms), rows'[i].kind = "event"
        PROVE  rows'[i].of # ms[k].event
    BY <2>2, <2>6, <2>8
  <2> HIDE DEF ms
  <2> QED
    BY <2>6, <2>7, <2>8 DEF ToldOnce, ms
<1> QED
  BY <1>4, <1>6, <1>7, <1>8, TellStep

\* No event is delivered again.
LEMMA DeliveredOnceStep ==
  ASSUME ChainInv, Emitted, Untold, DeliveredOnce, [Next]_vars
  PROVE  DeliveredOnce'
<1>1. TypeInv
  BY DEF ChainInv
<1>2. CASE PublishRaw
  <2>1. events[Head(Top.todo)].delivered = 0
    BY <1>1, <1>2, TopList DEF Untold
  <2> QED
    BY <1>2, <2>1, DeliverStep DEF DeliveredOnce
<1>3. CASE ~PublishRaw
  BY <1>3, DeliverStep DEF DeliveredOnce
<1> QED
  BY <1>2, <1>3

\* It always holds.
LEMMA OnceCorrect == Spec => []Once
<1>1. Init => Once
  <2>1. Len(<<>>) = 0
    OBVIOUS
  <2> QED
    BY <2>1 DEF Init, NoTx, TrailInit, Once, Apart, Untold, ToldOnce, DeliveredOnce, Lists,
       Publishing, Invoking
<1>2. ChainInv /\ Emitted /\ Once /\ [Next]_vars => Once'
  BY ListsStep, ApartIfMoved, UntoldStep, ToldOnceStep, DeliveredOnceStep DEF Once, ChainInv
<1> QED
  BY <1>1, <1>2, ChainCorrect, EmittedCorrect, PTL DEF Spec
=============================================================================
