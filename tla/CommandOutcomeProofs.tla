------------------------- MODULE CommandOutcomeProofs -------------------------
(***************************************************************************)
(* What becomes of a command: its writes and what the caller is told, its  *)
(* row in the audit trail, and what the after-transaction handler gets.    *)
(***************************************************************************)
EXTENDS CommandChainProofs, FiniteSetTheorems

-----------------------------------------------------------------------------
(***************************************************************************)
(* Who is running, by step: an invocation that is on the stack.            *)
(***************************************************************************)

\* No invocation starts or ends.
StaysRunning ==
    /\ SameInvs /\ Invoking' = Invoking
    /\ \A i \in Invoking : stack'[i].inv = stack[i].inv
    /\ \A n \in 1..Len(invs) : invs'[n].outcome = invs[n].outcome

\* An invocation on the stack moves on, and perhaps writes or settles its writes.
LEMMA GotoStays ==
  ASSUME TypeInv, Running, Top.kind = "invoke", NEW s \in InvokeSteps, Goto(s),
         \/ UNCHANGED invs \/ Settle("committed") \/ Settle("rolledBack")
         \/ invs' = [invs EXCEPT ![Top.inv].write = Written]
  PROVE  StaysRunning
<1>1. invs \in Seq(InvType) /\ Len(invs) \in Nat
  BY DEF TypeInv, HistoryOK
<1>2. MoveInvocation(s)
  BY MovesInvocation
<1>3. "committed" \in Writes /\ "rolledBack" \in Writes /\ Written \in Writes
  BY DEF Writes, Written
<1>4. SameInvs /\ \A n \in 1..Len(invs) : invs'[n].outcome = invs[n].outcome
  <2>1. CASE UNCHANGED invs
    BY <2>1 DEF SameInvs
  <2>2. CASE Settle("committed") \/ Settle("rolledBack")
    BY <1>1, <1>3, <2>2, SettleInvs
  <2>3. CASE invs' = [invs EXCEPT ![Top.inv].write = Written]
    <3>1. Top.inv \in 1..Len(invs) /\ Inv = invs[Top.inv] /\ Inv \in InvType
      BY TopInvocation
    <3>2. SameInvs /\ \A n \in 1..Len(invs) : n # Top.inv => invs'[n] = invs[n]
      BY <1>1, <1>3, <2>3, <3>1, TouchInvs
    <3>3. invs'[Top.inv] = [Inv EXCEPT !.write = Written]
      BY <1>1, <2>3, <3>1
    <3>4. invs'[Top.inv].outcome = invs[Top.inv].outcome
      BY <3>1, <3>3 DEF InvType
    <3> QED
      BY <3>2, <3>4
  <2> QED
    BY <2>1, <2>2, <2>3
<1> QED
  BY <1>2, <1>4 DEF MoveInvocation, StaysRunning

\* So does one whose handler returns.
LEMMA ReturnsStays ==
  ASSUME TypeInv, NEW nNow \in 0..MaxEvents, NEW nLater \in 0..MaxEvents,
         HandlerReturns(nNow, nLater)
  PROVE  StaysRunning
<1>1. /\ MoveInvocation("register") /\ SameInvs
      /\ \A n \in 1..Len(invs) : n # Top.inv => invs'[n] = invs[n]
      /\ invs'[Top.inv] = [Inv EXCEPT !.write = Written]
  BY DispatchMoves, HandlerReturnsEffect
<1>2. Top.inv \in 1..Len(invs) /\ Inv = invs[Top.inv] /\ Inv \in InvType
  BY TopInvocation DEF HandlerReturns, At
<1>3. invs'[Top.inv].outcome = invs[Top.inv].outcome
  BY <1>1, <1>2 DEF InvType
<1> QED
  BY <1>1, <1>3 DEF MoveInvocation, StaysRunning

\* The steps that change no invocation, and leave the active transaction active.
Untouched == /\ UNCHANGED invs /\ SameInvocations
             /\ tx'.phase = tx.phase
             /\ exc = TRUE /\ Running => Top.kind # "invoke" \/ Top.step = "handle"
             /\ Running /\ Top.kind = "invoke" =>
                   Top.step \in {"handle", "stamp", "afterCommit", "afterCompletion"}

\* The steps that only take an invocation from one place to another.
Onwards(s) == /\ Running /\ ~exc /\ Top.kind = "invoke" /\ Goto(s) /\ UNCHANGED <<invs, exc>>
              /\ \/ Top.step = "register" /\ s = "stamp"
                 \/ StampSuccess /\ Top.step = "stamp" /\ s = IF Inv.opens THEN "commit" ELSE "return"
                 \/ Top.step = "afterCommit" /\ s = "afterCompletion"
                 \/ Top.step = "afterCompletion" /\ s = "return"
                 \/ Top.step = "stampFailure" /\ s = "markFailed" /\ ~Inv.nested
                 \/ Top.step \in {"stampFailure", "markFailed"} /\ s = "throw"
              /\ tx'.phase = tx.phase \/ tx.phase # "active"

\* The steps in which a handler returns or throws.
Handled == /\ Running /\ ~exc /\ Top.kind = "invoke" /\ Top.step = "handle" /\ UNCHANGED tx
           /\ MoveInvocation("register") /\ StaysRunning
           /\ \A n \in 1..Len(invs) : n # Top.inv => invs'[n] = invs[n]
           /\ \/ invs'[Top.inv].write = Written
              \/ /\ exc' = TRUE /\ Len(stack') = Len(stack)
                 /\ invs'[Top.inv].write \in {Inv.write, Written}

\* The steps in which the transaction ends one way or the other, or a command fails.
Settles == Commits \/ CommitThrows \/ UnexpectedRollback \/ Abort

\* Every step is of one of these kinds.
LEMMA StepKinds ==
  ASSUME ChainInv, Next
  PROVE  \/ Untouched
         \/ \E s \in InvokeSteps : Onwards(s)
         \/ Handled
         \/ Settles
         \/ \E saved \in BOOLEAN : Invoke(saved)
         \/ \E s \in {"return", "throw"} : Finish(s)
         \/ Crash
<1>1. /\ TypeInv /\ TxOK /\ Txn /\ Shape /\ invs \in Seq(InvType)
  BY DEF ChainInv, TypeInv, HistoryOK
<1>2. ASSUME exc = TRUE, ~exc PROVE FALSE
  BY <1>2
<1>3. CASE Proceed
  <2>1. CASE \E nNow, nLater \in 0..MaxEvents : HandlerReturns(nNow, nLater)
    <3>1. PICK nNow, nLater \in 0..MaxEvents : HandlerReturns(nNow, nLater)
      BY <2>1
    <3>2. /\ MoveInvocation("register") /\ StaysRunning
          /\ \A n \in 1..Len(invs) : n # Top.inv => invs'[n] = invs[n]
          /\ invs'[Top.inv] = [Inv EXCEPT !.write = Written]
      BY <1>1, <3>1, DispatchMoves, ReturnsStays, HandlerReturnsEffect
    <3>3. Running /\ ~exc /\ Top.kind = "invoke" /\ Top.step = "handle" /\ UNCHANGED tx
      BY <3>1 DEF HandlerReturns, At
    <3>4. Inv \in InvType
      BY <1>1, <3>3, TopInvocation
    <3>5. invs'[Top.inv].write = Written
      BY <3>2, <3>4 DEF InvType
    <3> QED
      BY <3>2, <3>3, <3>5 DEF Handled
  <2>2. CASE HandlerThrows
    <3>1. /\ Running /\ ~exc /\ Top.kind = "invoke" /\ Top.step = "handle" /\ UNCHANGED tx
          /\ Goto("register") /\ "register" \in InvokeSteps /\ exc' = TRUE
          /\ UNCHANGED invs \/ invs' = [invs EXCEPT ![Top.inv].write = Written]
      BY <2>2 DEF HandlerThrows, At, InvokeSteps
    <3>2. MoveInvocation("register") /\ StaysRunning /\ Len(stack') = Len(stack)
      BY <1>1, <3>1, MovesInvocation, GotoStays, GotoStack DEF TypeInv, StackOK
    <3>3. Top.inv \in 1..Len(invs) /\ Inv = invs[Top.inv] /\ Inv \in InvType
      BY <1>1, <3>1, TopInvocation
    <3>4. /\ \A n \in 1..Len(invs) : n # Top.inv => invs'[n] = invs[n]
          /\ invs'[Top.inv].write \in {Inv.write, Written}
      <4>1. CASE UNCHANGED invs
        BY <3>3, <4>1
      <4>2. CASE invs' = [invs EXCEPT ![Top.inv].write = Written]
        <5>1. /\ \A n \in 1..Len(invs) : n # Top.inv => invs'[n] = invs[n]
              /\ invs'[Top.inv] = [Inv EXCEPT !.write = Written]
          BY <1>1, <3>3, <4>2
        <5> QED
          BY <3>3, <5>1 DEF InvType
      <4> QED
        BY <3>1, <4>1, <4>2
    <3> QED
      BY <3>1, <3>2, <3>4 DEF Handled
  <2>3. CASE RegisterDeferred \/ StampSuccess \/ StampFailure \/ MarkEventsFailed
             \/ FailureStampThrows
    <3>1. Running /\ ~exc /\ Top.kind = "invoke" /\ UNCHANGED <<invs, exc>>
      BY <2>3 DEF RegisterDeferred, StampSuccess, StampFailure, MarkEventsFailed,
            FailureStampThrows, At
    <3>2. tx'.phase = tx.phase
      BY <1>1, <2>3, TxFields DEF RegisterDeferred, StampSuccess, StampFailure, MarkEventsFailed,
            FailureStampThrows
    <3>3. \E s \in InvokeSteps :
             /\ Goto(s)
             /\ \/ Top.step = "register" /\ s = "stamp"
                \/ StampSuccess /\ Top.step = "stamp" /\ s = IF Inv.opens THEN "commit" ELSE "return"
                \/ Top.step = "stampFailure" /\ s = "markFailed" /\ ~Inv.nested
                \/ Top.step \in {"stampFailure", "markFailed"} /\ s = "throw"
      BY <2>3 DEF RegisterDeferred, StampSuccess, StampFailure, MarkEventsFailed,
            FailureStampThrows, At, InvokeSteps
    <3> QED
      BY <3>1, <3>2, <3>3 DEF Onwards
  <2>4. CASE CallbacksDone \/ Completed
    <3>1. /\ Running /\ ~exc /\ Top.kind = "invoke" /\ UNCHANGED <<invs, exc>>
          /\ Top.step \in {"afterCommit", "afterCompletion"}
      BY <2>4 DEF CallbacksDone, Completed, At
    <3>2. tx.phase # "active"
      <4>1. Len(stack) \in Invoking /\ Top = stack[Len(stack)]
        BY <1>1, <3>1, TopInvocation
      <4>2. Phased(Len(stack))
        BY <1>1, <4>1 DEF Txn
      <4> QED
        BY <3>1, <4>1, <4>2 DEF Phased, PhaseAt
    <3>3. \E s \in InvokeSteps :
             /\ Goto(s)
             /\ \/ Top.step = "afterCommit" /\ s = "afterCompletion"
                \/ Top.step = "afterCompletion" /\ s = "return"
      BY <2>4 DEF CallbacksDone, Completed, At, InvokeSteps
    <3> QED
      BY <3>1, <3>2, <3>3 DEF Onwards
  <2>5. CASE Commits \/ CommitThrows \/ UnexpectedRollback \/ Abort
    BY <2>5 DEF Settles
  <2>6. CASE \E s \in {"return", "throw"} : Finish(s)
    BY <2>6
  <2>7. CASE \/ StampSuccessThrows \/ RunCallback \/ PublishRaw \/ PublishDone \/ PublishThrows
             \/ PolicyReturns \/ PolicyThrows \/ PolicyCatches \/ HandlerCatches
             \/ \E saved \in BOOLEAN : LogDeferred(saved) \/ PublishWrapper(saved)
    <3>1. UNCHANGED invs
      BY <2>7 DEF StampSuccessThrows, RunCallback, PublishRaw, PublishDone, PublishThrows,
            PolicyReturns, PolicyThrows, PolicyCatches, HandlerCatches, LogDeferred, PublishWrapper
    <3>2. SameInvocations
      BY <1>1, <2>7, KeepsInvocations DEF StampSuccessThrows, PolicyCatches, HandlerCatches,
            LogDeferred
    <3>3. tx'.phase = tx.phase
      <4>1. \/ UNCHANGED tx \/ CallbackTaken \/ ListenerTaken \/ \E d : DeferListener(d)
        BY <2>7 DEF StampSuccessThrows, RunCallback, PublishRaw, PublishDone, PublishThrows,
            PolicyReturns, PolicyThrows, PolicyCatches, HandlerCatches, LogDeferred, PublishWrapper
      <4> QED
        BY <1>1, <4>1, TxFields
    <3>4. ~exc \/ Top.kind # "invoke" \/ Top.step = "handle"
      BY <2>7 DEF StampSuccessThrows, RunCallback, PublishRaw, PublishDone, PublishThrows,
            PolicyReturns, PolicyThrows, PolicyCatches, HandlerCatches, LogDeferred, PublishWrapper,
            At
    <3>5. Running /\ Top.kind = "invoke" =>
             Top.step \in {"handle", "stamp", "afterCommit", "afterCompletion"}
      BY <2>7 DEF StampSuccessThrows, RunCallback, PublishRaw, PublishDone, PublishThrows,
            PolicyReturns, PolicyThrows, PolicyCatches, HandlerCatches, LogDeferred, PublishWrapper,
            At
    <3> QED
      BY <1>2, <3>1, <3>2, <3>3, <3>4, <3>5 DEF Untouched
  <2> QED
    BY <1>3, <2>1, <2>2, <2>3, <2>4, <2>5, <2>6, <2>7 DEF Proceed
<1>4. CASE Call
  <2>1. CASE ParticipantFails \/ \E timing \in Publishes : PublishExternal(timing)
    <3>1. UNCHANGED invs /\ ~exc /\ (UNCHANGED tx \/ SetRollbackOnly)
      BY <2>1 DEF ParticipantFails, PublishExternal, MayCall, At
    <3>2. SameInvocations
      BY <1>1, <2>1, KeepsInvocations DEF ParticipantFails
    <3>3. tx'.phase = tx.phase
      BY <1>1, <3>1, TxFields
    <3>4. Running /\ Top.kind = "invoke" => Top.step = "handle"
      BY <2>1 DEF ParticipantFails, PublishExternal, MayCall, At
    <3> QED
      BY <1>2, <3>1, <3>2, <3>3, <3>4 DEF Untouched
  <2> QED
    BY <1>4, <2>1 DEF Call
<1> QED
  BY <1>3, <1>4 DEF Next

\* Every step but three kinds neither starts nor ends an invocation.
LEMMA OutcomesStep ==
  ASSUME ChainInv, [Next]_vars
  PROVE  \/ StaysRunning
         \/ \E saved \in BOOLEAN : Invoke(saved)
         \/ \E s \in {"return", "throw"} : Finish(s)
         \/ Crash
<1>1. TypeInv
  BY DEF ChainInv
<1>2. ASSUME SameInvocations, UNCHANGED invs
      PROVE  StaysRunning
  BY <1>2 DEF SameInvocations, StaysRunning, SameInvs
<1>3. CASE UNCHANGED vars
  <2>1. UNCHANGED <<stack, invs>>
    BY <1>3 DEF vars
  <2> QED
    BY <1>1, <1>2, <2>1, KeepsInvocations
<1>4. CASE Untouched
  BY <1>2, <1>4 DEF Untouched
<1>5. CASE \E s \in InvokeSteps : Onwards(s)
  BY <1>1, <1>5, GotoStays DEF Onwards
<1>6. CASE Handled
  BY <1>6 DEF Handled
<1>7. CASE Settles
  <2>1. Running /\ Top.kind = "invoke" /\ \E s \in InvokeSteps : Goto(s)
    BY <1>7 DEF Settles, Commits, CommitThrows, UnexpectedRollback, Abort, At, InvokeSteps
  <2>2. UNCHANGED invs \/ Settle("committed") \/ Settle("rolledBack")
    BY <1>7 DEF Settles, Commits, CommitThrows, UnexpectedRollback, Abort
  <2> QED
    BY <1>1, <2>1, <2>2, GotoStays
<1> QED
  BY <1>3, <1>4, <1>5, <1>6, <1>7, StepKinds

\* What a step does to MDC and to the ids drawn so far.
LEMMA IdsStep ==
  ASSUME TypeInv, Mdc, [Next]_vars
  PROVE  \/ \E saved \in BOOLEAN : Invoke(saved)
         \/ ids' = ids /\ mdc' \in {0, mdc}
         \/ ids' = ids /\ \E i \in Invoking : mdc' = Of(i).req
         \/ ids' = ids + 1 /\ mdc' = ids + 1
<1>1. CASE UNCHANGED vars
  BY <1>1 DEF vars, history
<1>2. CASE RunCallback
  <2>1. /\ Running /\ Top.kind = "invoke" /\ mdc' = NextCallback.req /\ tx.due > 0
        /\ UNCHANGED ids
    BY <1>2 DEF RunCallback, At, history
  <2>2. 1 \in 1..Len(tx.callbacks) /\ NextCallback = tx.callbacks[1]
    <3>1. tx.callbacks \in Seq(CallbackType) /\ tx.due \in Nat /\ tx.due <= Len(tx.callbacks)
      BY DEF TypeInv, TxOK, TxType
    <3> QED
      BY <2>1, <3>1 DEF NextCallback
  <2>3. Len(stack) \in Invoking
    BY <2>1, TopInvocation
  <2> QED
    BY <2>1, <2>2, <2>3 DEF Mdc, OneRequest, TxReqs
<1>3. CASE \E s \in {"return", "throw"} : Finish(s)
  BY <1>3 DEF Finish
<1>4. CASE PublishDone \/ PublishThrows
  BY <1>4 DEF PublishDone, PublishThrows, MdcAfterPublish, history
<1>5. CASE Proceed
  <2>1. CASE \/ RegisterDeferred \/ HandlerThrows \/ StampSuccess \/ StampSuccessThrows
             \/ CallbacksDone \/ Completed \/ Commits \/ CommitThrows \/ UnexpectedRollback
             \/ Abort \/ StampFailure \/ MarkEventsFailed \/ FailureStampThrows \/ PublishRaw
             \/ PolicyReturns \/ PolicyThrows \/ PolicyCatches \/ HandlerCatches
    BY <2>1 DEF RegisterDeferred, HandlerThrows, StampSuccess, StampSuccessThrows,
          CallbacksDone, Completed, Commits, CommitThrows, UnexpectedRollback, Abort, StampFailure,
          MarkEventsFailed, FailureStampThrows, PublishRaw, PolicyReturns, PolicyThrows,
          PolicyCatches, HandlerCatches, history
  <2>2. CASE \E saved \in BOOLEAN : LogDeferred(saved) \/ PublishWrapper(saved)
    BY <2>2 DEF LogDeferred, PublishWrapper, history
  <2>3. CASE \E nNow, nLater \in 0..MaxEvents : HandlerReturns(nNow, nLater)
    BY <2>3 DEF HandlerReturns, history
  <2> QED
    BY <1>2, <1>3, <1>4, <1>5, <2>1, <2>2, <2>3 DEF Proceed
<1>6. CASE Call
  BY <1>6 DEF Call, PublishExternal, ParticipantFails, history
<1>7. CASE Crash
  BY <1>7 DEF Crash
<1> QED
  BY <1>1, <1>5, <1>6, <1>7 DEF Next

-----------------------------------------------------------------------------
(***************************************************************************)
(* A request id belongs to one top-level invocation.  Once that has ended, *)
(* neither MDC nor a running invocation carries the id; and it is the only *)
(* one of its request to open a transaction.                               *)
(***************************************************************************)
OnStack ==
    /\ \A n \in 1..Len(invs) :
          invs[n].outcome = "running" <=> \E i \in Invoking : stack[i].inv = n
    /\ \A i, j \in Invoking : i # j => stack[i].inv # stack[j].inv

IdsDrawn == mdc <= ids /\ \A n \in 1..Len(invs) : invs[n].req <= ids

Retired ==
    \A m \in 1..Len(invs) : ~invs[m].nested /\ invs[m].outcome # "running" =>
        /\ mdc # invs[m].req
        /\ \A n \in 1..Len(invs) : invs[n].outcome = "running" => invs[n].req # invs[m].req

SoleOpener ==
    \A m, n \in 1..Len(invs) :
        ~invs[m].nested /\ invs[n].opens /\ invs[n].req = invs[m].req => n = m

Requests == OnStack /\ IdsDrawn /\ Retired /\ SoleOpener

\* invoke pushes the frame and its end pops it; a crash ends them all.
LEMMA OnStackStep ==
  ASSUME ChainInv, OnStack, [Next]_vars
  PROVE  OnStack'
<1>1. TypeInv /\ Len(invs) \in Nat /\ \A i \in Invoking : stack[i].inv \in 1..Len(invs)
  BY DEF ChainInv, TypeInv, HistoryOK, StackOK
<1>2. CASE StaysRunning
  BY <1>2 DEF StaysRunning, SameInvs, OnStack
<1>3. ASSUME NEW saved \in BOOLEAN, Invoke(saved)
      PROVE  OnStack'
  <2>1. PICK N \in Nat : N = Len(invs)
    BY <1>1
  <2>2. PICK k : k = Len(stack) + 1
    OBVIOUS
  <2>3. /\ Len(invs') = N + 1 /\ \A n \in 1..N : invs'[n] = invs[n]
        /\ invs'[N + 1].outcome = "running" /\ Invoking' = Invoking \cup {k}
        /\ \A i \in Invoking : stack'[i].inv = stack[i].inv
        /\ stack'[k].inv = N + 1
    BY <1>1, <1>3, <2>1, <2>2, InvokeEffect DEF NewInvocation
  <2>4. k \notin Invoking
    BY <1>1, <2>2 DEF Invoking, TypeInv, StackOK
  <2>5. ASSUME NEW n \in 1..(N + 1)
        PROVE  invs'[n].outcome = "running" <=> \E i \in Invoking' : stack'[i].inv = n
    <3>1. CASE n = N + 1
      BY <2>3, <3>1
    <3>2. CASE n # N + 1
      <4>1. n \in 1..N
        BY <3>2
      <4>2. \A i \in Invoking' : stack'[i].inv = n => i \in Invoking
        BY <2>3, <3>2
      <4> QED
        BY <2>1, <2>3, <4>1, <4>2 DEF OnStack
    <3> QED
      BY <3>1, <3>2
  <2>6. ASSUME NEW i \in Invoking', NEW j \in Invoking', i # j
        PROVE  stack'[i].inv # stack'[j].inv
    <3>1. \A l \in Invoking : stack'[l].inv \in 1..N
      BY <1>1, <2>1, <2>3
    <3>2. CASE i = k \/ j = k
      BY <2>3, <2>6, <3>1, <3>2
    <3>3. CASE i # k /\ j # k
      BY <2>3, <2>6, <3>3 DEF OnStack
    <3> QED
      BY <3>2, <3>3
  <2> QED
    BY <2>3, <2>5, <2>6 DEF OnStack
<1>4. ASSUME NEW s \in {"return", "throw"}, Finish(s)
      PROVE  OnStack'
  <2>1. PICK k : k = Len(stack)
    OBVIOUS
  <2>2. /\ k \in Invoking /\ Invoking' = Invoking \ {k} /\ Top.inv = stack[k].inv
        /\ \A i \in Invoking' : stack'[i].inv = stack[i].inv
        /\ Top.inv \in 1..Len(invs) /\ Len(invs') = Len(invs)
        /\ \A n \in 1..Len(invs) : n # Top.inv => invs'[n] = invs[n]
        /\ invs'[Top.inv].outcome # "running"
    <3>1. Running /\ Top.kind = "invoke" /\ invs' = Ended(s)
      BY <1>4 DEF Finish, At
    <3>2. EndInvocation
      BY <1>1, <1>4, FinishInvocation
    <3>3. /\ SameInvs /\ \A n \in 1..Len(invs) : n # Top.inv => invs'[n] = invs[n]
          /\ invs'[Top.inv].outcome # "running"
      BY <1>1, <3>1, EndedInvs
    <3>4. Top = stack[k] /\ Top.inv \in 1..Len(invs)
      BY <1>1, <2>1, <3>1, TopInvocation
    <3> QED
      BY <2>1, <3>2, <3>3, <3>4 DEF EndInvocation, SameInvs
  <2>3. \A i \in Invoking' : i \in Invoking /\ stack[i].inv # Top.inv
    BY <2>2 DEF OnStack
  <2>4. ASSUME NEW n \in 1..Len(invs)
        PROVE  invs'[n].outcome = "running" <=> \E i \in Invoking' : stack'[i].inv = n
    <3>1. CASE n = Top.inv
      BY <2>2, <2>3, <3>1
    <3>2. CASE n # Top.inv
      <4>1. (\E i \in Invoking' : stack'[i].inv = n) <=> \E i \in Invoking : stack[i].inv = n
        BY <2>2, <3>2
      <4> QED
        BY <2>2, <3>2, <4>1 DEF OnStack
    <3> QED
      BY <3>1, <3>2
  <2> QED
    BY <2>2, <2>3, <2>4 DEF OnStack
<1>5. CASE Crash
  <2>1. /\ SameInvs /\ \A n \in 1..Len(invs) : invs'[n].outcome # "running"
    BY <1>1, <1>5, CrashInvs
  <2>2. stack' = <<>>
    BY <1>5 DEF Crash
  <2>3. Invoking' = {}
    BY <2>2 DEF Invoking
  <2> QED
    BY <2>1, <2>3 DEF OnStack, SameInvs
<1> QED
  BY <1>1, <1>2, <1>3, <1>4, <1>5, OutcomesStep

\* The ids of the invocations on the stack are among those drawn.
LEMMA IdsDrawnStep ==
  ASSUME ChainInv, IdsDrawn, [Next]_vars
  PROVE  IdsDrawn'
<1>1. /\ TypeInv /\ Mdc /\ Len(invs) \in Nat /\ ids \in Nat /\ mdc \in Nat
      /\ \A n \in 1..Len(invs) : invs[n].req \in Nat
      /\ \A i \in Invoking : stack[i].inv \in 1..Len(invs)
  <2>1. /\ TypeInv /\ Mdc /\ invs \in Seq(InvType) /\ ids \in Nat
        /\ mdc \in RequestIds \cup {0} /\ \A i \in Invoking : stack[i].inv \in 1..Len(invs)
    BY DEF ChainInv, TypeInv, HistoryOK, StackOK
  <2>2. \A n \in 1..Len(invs) : invs[n] \in InvType
    BY <2>1
  <2>3. \A n \in 1..Len(invs) : invs[n].req \in Nat
    BY <2>2, RequestIdsAssumption DEF InvType
  <2>4. mdc \in Nat /\ Len(invs) \in Nat
    BY <2>1, RequestIdsAssumption
  <2> QED
    BY <2>1, <2>3, <2>4
<1>2. CASE \E saved \in BOOLEAN : Invoke(saved)
  <2>1. /\ Len(invs') = Len(invs) + 1 /\ \A n \in 1..Len(invs) : invs'[n] = invs[n]
        /\ invs'[Len(invs) + 1].req = mdc'
        /\ mdc' = IF mdc # 0 THEN mdc ELSE ids + 1
        /\ ids' = IF mdc # 0 THEN ids ELSE ids + 1
    BY <1>1, <1>2, InvokeEffect
  <2>2. mdc' <= ids' /\ ids <= ids'
    BY <1>1, <2>1 DEF IdsDrawn
  <2>3. \A n \in 1..Len(invs) : invs'[n].req <= ids'
    BY <1>1, <2>1, <2>2 DEF IdsDrawn
  <2> QED
    BY <1>1, <2>1, <2>2, <2>3 DEF IdsDrawn
<1>3. CASE SameInvs /\ ~ \E saved \in BOOLEAN : Invoke(saved)
  <2>1. mdc' <= ids' /\ ids <= ids' /\ ids' \in Nat
    <3>1. \A i \in Invoking : Of(i).req <= ids
      BY <1>1 DEF IdsDrawn, Of
    <3>2. CASE ids' = ids /\ mdc' \in {0, mdc}
      BY <1>1, <3>2 DEF IdsDrawn
    <3>3. CASE ids' = ids /\ \E i \in Invoking : mdc' = Of(i).req
      BY <1>1, <3>1, <3>3
    <3>4. CASE ids' = ids + 1 /\ mdc' = ids + 1
      BY <1>1, <3>4
    <3> QED
      BY <1>1, <1>3, <3>2, <3>3, <3>4, IdsStep
  <2> QED
    BY <1>1, <1>3, <2>1 DEF IdsDrawn, SameInvs
<1>4. CASE UNCHANGED vars
  BY <1>4 DEF vars, history, IdsDrawn
<1> QED
  BY <1>1, <1>2, <1>3, <1>4, InvsStep

\* The types the arguments about request ids need.
LEMMA ReqTypes ==
  ASSUME ChainInv
  PROVE  /\ TypeInv /\ Shape /\ Txn /\ Mdc /\ Len(invs) \in Nat /\ ids \in Nat /\ mdc \in Nat
         /\ invs \in Seq(InvType)
         /\ \A n \in 1..Len(invs) : invs[n] \in InvType /\ invs[n].req \in Nat \ {0}
         /\ \A i \in Invoking : stack[i].inv \in 1..Len(invs)
<1>1. /\ TypeInv /\ Shape /\ Txn /\ Mdc /\ invs \in Seq(InvType) /\ ids \in Nat
      /\ mdc \in RequestIds \cup {0} /\ \A i \in Invoking : stack[i].inv \in 1..Len(invs)
  BY DEF ChainInv, TypeInv, HistoryOK, StackOK
<1>2. \A n \in 1..Len(invs) : invs[n] \in InvType
  BY <1>1
<1>3. \A n \in 1..Len(invs) : invs[n].req \in Nat \ {0}
  BY <1>2, RequestIdsAssumption DEF InvType
<1>4. mdc \in Nat /\ Len(invs) \in Nat
  BY <1>1, RequestIdsAssumption
<1> QED
  BY <1>1, <1>2, <1>3, <1>4

\* The last frame's invocation is running; if it is a top-level one, no other is.
LEMMA TopRuns ==
  ASSUME ChainInv, OnStack, Running, Top.kind = "invoke"
  PROVE  /\ Top.inv \in 1..Len(invs) /\ Inv.outcome = "running"
         /\ ~Inv.nested \/ Inv.opens =>
               \A n \in 1..Len(invs) : invs[n].outcome = "running" => n = Top.inv
<1>1. PICK k \in Nat : k = Len(stack)
  BY DEF ChainInv, TypeInv, StackOK
<1>2. /\ k \in Invoking /\ Top = stack[k] /\ Top.inv \in 1..Len(invs) /\ Inv = invs[Top.inv]
      /\ Inv = Of(k)
  BY <1>1, TopInvocation DEF ChainInv
<1>3. Inv.outcome = "running"
  BY <1>2 DEF OnStack
<1>4. \A i \in Invoking : i # k => i < k
  BY <1>1 DEF Invoking
<1>5. ~Inv.nested \/ Inv.opens => \A i \in Invoking : i = k
  <2>1. \A i \in Invoking : i < k => Of(k).nested /\ ~Of(k).opens
    BY <1>2 DEF ChainInv, Mdc, OneRequest, Txn
  <2> QED
    BY <1>2, <1>4, <2>1
<1>6. ~Inv.nested \/ Inv.opens =>
         \A n \in 1..Len(invs) : invs[n].outcome = "running" => n = Top.inv
  BY <1>2, <1>5 DEF OnStack
<1> QED
  BY <1>2, <1>3, <1>6

\* The id of a request that is over is never drawn or put into MDC again.
LEMMA RetiredStep ==
  ASSUME ChainInv, Requests, [Next]_vars
  PROVE  Retired'
<1>1. /\ TypeInv /\ Mdc /\ Len(invs) \in Nat /\ ids \in Nat /\ mdc \in Nat
      /\ \A n \in 1..Len(invs) : invs[n].req \in Nat \ {0} /\ invs[n].req <= ids
      /\ mdc <= ids
      /\ OnStack /\ Retired
  BY ReqTypes DEF Requests, IdsDrawn
<1>2. ASSUME StaysRunning, ~ \E saved \in BOOLEAN : Invoke(saved)
      PROVE  Retired'
  <2>1. \A i \in Invoking : /\ stack[i].inv \in 1..Len(invs)
                             /\ invs[stack[i].inv].outcome = "running"
    BY <1>1 DEF TypeInv, StackOK, OnStack
  <2>2. ASSUME NEW m \in 1..Len(invs), ~invs[m].nested, invs[m].outcome # "running"
        PROVE  mdc' # invs[m].req
    <3>1. /\ mdc # invs[m].req
          /\ \A n \in 1..Len(invs) : invs[n].outcome = "running" => invs[n].req # invs[m].req
      BY <1>1, <2>2 DEF Retired
    <3>2. CASE mdc' \in {0, mdc}
      BY <1>1, <3>1, <3>2
    <3>3. CASE \E i \in Invoking : mdc' = Of(i).req
      BY <2>1, <3>1, <3>3 DEF Of
    <3>4. CASE mdc' = ids + 1
      BY <1>1, <3>4
    <3> QED
      BY <1>1, <1>2, <3>2, <3>3, <3>4, IdsStep
  <2>3. \A m, n \in 1..Len(invs) :
           ~invs[m].nested /\ invs[m].outcome # "running" /\ invs[n].outcome = "running" =>
              invs[n].req # invs[m].req
    BY <1>1 DEF Retired
  <2>4. /\ Len(invs') = Len(invs)
        /\ \A n \in 1..Len(invs) : /\ invs'[n].req = invs[n].req
                                    /\ invs'[n].nested = invs[n].nested
                                    /\ invs'[n].outcome = invs[n].outcome
    BY <1>2 DEF StaysRunning, SameInvs
  <2> QED
    BY <2>2, <2>3, <2>4 DEF Retired
<1>3. ASSUME NEW saved \in BOOLEAN, Invoke(saved)
      PROVE  Retired'
  <2>1. PICK N \in Nat : N = Len(invs)
    BY <1>1
  <2>2. /\ Len(invs') = N + 1 /\ \A n \in 1..N : invs'[n] = invs[n]
        /\ invs'[N + 1].req = mdc' /\ invs'[N + 1].outcome = "running"
        /\ mdc' = IF mdc # 0 THEN mdc ELSE ids + 1
    BY <1>1, <1>3, <2>1, InvokeEffect
  <2>3. SUFFICES ASSUME NEW m \in 1..(N + 1), ~invs'[m].nested, invs'[m].outcome # "running"
                 PROVE  /\ mdc' # invs'[m].req
                        /\ \A n \in 1..(N + 1) :
                              invs'[n].outcome = "running" => invs'[n].req # invs'[m].req
    BY <2>2 DEF Retired
  <2>4. m \in 1..N /\ invs'[m] = invs[m]
    BY <2>2, <2>3
  <2>5. /\ mdc # invs[m].req /\ invs[m].req <= ids /\ invs[m].req \in Nat
        /\ \A n \in 1..N : invs[n].outcome = "running" => invs[n].req # invs[m].req
    BY <1>1, <2>1, <2>3, <2>4 DEF Retired
  <2>6. mdc' # invs[m].req
    BY <1>1, <2>2, <2>5
  <2>7. ASSUME NEW n \in 1..(N + 1), invs'[n].outcome = "running"
        PROVE  invs'[n].req # invs'[m].req
    <3>1. CASE n = N + 1
      BY <2>2, <2>4, <2>6, <3>1
    <3>2. CASE n # N + 1
      <4>1. n \in 1..N
        BY <3>2
      <4> QED
        BY <2>2, <2>4, <2>5, <2>7, <4>1
    <3> QED
      BY <3>1, <3>2
  <2> QED
    BY <2>4, <2>6, <2>7
<1>4. ASSUME NEW s \in {"return", "throw"}, Finish(s)
      PROVE  Retired'
  <2>1. Running /\ Top.kind = "invoke" /\ invs' = Ended(s)
    BY <1>4 DEF Finish, At
  <2>2. /\ Top.inv \in 1..Len(invs) /\ Inv = invs[Top.inv] /\ Len(invs') = Len(invs)
        /\ \A n \in 1..Len(invs) : n # Top.inv => invs'[n] = invs[n]
        /\ invs'[Top.inv].outcome # "running"
        /\ invs'[Top.inv].req = Inv.req /\ invs'[Top.inv].nested = Inv.nested
    BY <1>1, <2>1, EndedInvs, TopInvocation DEF SameInvs
  <2>3. ~Inv.nested => \A n \in 1..Len(invs) : invs[n].outcome = "running" => n = Top.inv
    BY <1>1, <2>1, TopRuns
  <2>4. (Inv.nested => mdc' = mdc) /\ (~Inv.nested => mdc' = 0)
    BY <1>4 DEF Finish
  <2>5. SUFFICES ASSUME NEW m \in 1..Len(invs), ~invs'[m].nested, invs'[m].outcome # "running"
                 PROVE  /\ mdc' # invs'[m].req
                        /\ \A n \in 1..Len(invs) :
                              invs'[n].outcome = "running" => invs'[n].req # invs'[m].req
    BY <2>2 DEF Retired
  <2>6. CASE m = Top.inv
    BY <1>1, <2>2, <2>3, <2>4, <2>5, <2>6
  <2>7. CASE m # Top.inv
    <3>1. invs'[m] = invs[m] /\ invs[m].req # 0
      BY <1>1, <2>2, <2>7
    <3>2. /\ mdc # invs[m].req
          /\ \A n \in 1..Len(invs) : invs[n].outcome = "running" => invs[n].req # invs[m].req
      BY <1>1, <2>5, <3>1 DEF Retired
    <3> QED
      BY <2>2, <2>4, <3>1, <3>2
  <2> QED
    BY <2>6, <2>7
<1>5. CASE Crash
  <2>1. SameInvs /\ \A n \in 1..Len(invs) : invs'[n].outcome # "running"
    BY <1>1, <1>5, CrashInvs
  <2>2. mdc' = 0
    BY <1>5 DEF Crash
  <2> QED
    BY <1>1, <2>1, <2>2 DEF Retired, SameInvs
<1> QED
  BY <1>1, <1>2, <1>3, <1>4, <1>5, OutcomesStep

\* A second invocation of a request finds the transaction of the first, or opens
\* none.
LEMMA SoleOpenerStep ==
  ASSUME ChainInv, Requests, [Next]_vars
  PROVE  SoleOpener'
<1>1. /\ TypeInv /\ Mdc /\ Shape /\ Txn /\ Len(invs) \in Nat /\ ids \in Nat
      /\ \A n \in 1..Len(invs) : invs[n].req \in Nat /\ invs[n].req <= ids
      /\ OnStack /\ Retired
  BY ReqTypes DEF Requests, IdsDrawn
<1>2. CASE SameInvs
  BY <1>2 DEF SameInvs, SoleOpener, Requests
<1>3. ASSUME NEW saved \in BOOLEAN, Invoke(saved)
      PROVE  SoleOpener'
  <2>1. PICK N \in Nat : N = Len(invs)
    BY <1>1
  <2>2. /\ Len(invs') = N + 1 /\ \A n \in 1..N : invs'[n] = invs[n]
        /\ invs'[N + 1].req = mdc' /\ invs'[N + 1].nested = (mdc # 0)
        /\ invs'[N + 1].opens = ~InTransaction
        /\ mdc' = IF mdc # 0 THEN mdc ELSE ids + 1
        /\ MayCall
    BY <1>1, <1>3, <2>1, InvokeEffect
  <2>3. ASSUME NEW m \in 1..N, ~invs[m].nested, ~InTransaction
        PROVE  mdc' # invs[m].req
    <3>1. mdc = 0 => mdc' # invs[m].req
      BY <1>1, <2>1, <2>2
    <3>2. Invoking = {}
      BY <1>1, <2>2, <2>3, CallablePhase DEF InTransaction
    <3>3. invs[m].outcome # "running"
      BY <1>1, <2>1, <3>2 DEF OnStack
    <3>4. mdc # invs[m].req
      BY <1>1, <2>1, <2>3, <3>3 DEF Retired
    <3> QED
      BY <2>2, <3>1, <3>4
  <2>4. ASSUME NEW n \in 1..N, mdc = 0
        PROVE  mdc' # invs[n].req
    BY <1>1, <2>1, <2>2, <2>4
  <2>5. SUFFICES ASSUME NEW m \in 1..(N + 1), NEW n \in 1..(N + 1), ~invs'[m].nested,
                        invs'[n].opens, invs'[n].req = invs'[m].req
                 PROVE  n = m
    BY <2>2 DEF SoleOpener
  <2>6. \A k \in 1..(N + 1) : k # N + 1 => k \in 1..N /\ invs'[k] = invs[k]
    BY <2>2
  <2>7. CASE m = N + 1 /\ n # N + 1
    BY <2>2, <2>4, <2>5, <2>6, <2>7
  <2>8. CASE n = N + 1 /\ m # N + 1
    BY <2>2, <2>3, <2>5, <2>6, <2>8
  <2>9. CASE n # N + 1 /\ m # N + 1
    BY <2>1, <2>5, <2>6, <2>9 DEF Requests, SoleOpener
  <2> QED
    BY <2>7, <2>8, <2>9
<1>4. CASE UNCHANGED vars
  BY <1>4 DEF vars, SoleOpener, Requests
<1> QED
  BY <1>1, <1>2, <1>3, <1>4, InvsStep

\* The parts are inductive, together with the invariant of the chain.
LEMMA RequestsStep == ChainInv /\ Requests /\ [Next]_vars => Requests'
  BY OnStackStep, IdsDrawnStep, RetiredStep, SoleOpenerStep DEF Requests

-----------------------------------------------------------------------------
(***************************************************************************)
(* How far an invocation has got says what has become of its writes.  The  *)
(* writes of a transaction are open together, for one request, and are     *)
(* committed together with those of the request's top-level invocation.    *)
(***************************************************************************)
Fits(s, v, failing) ==
    /\ s = "handle" => v.write = "none"
    /\ ~v.opens => v.write \in {"none", "open", "adrift"}
    /\ v.opens => CASE s = "handle" -> TRUE
                    [] s \in {"register", "stamp", "commit"} ->
                          v.write = "open" \/ (v.write = "none" /\ failing)
                    [] s \in {"afterCommit", "afterCompletion"} -> v.write = "committed"
                    [] s = "return" -> \/ v.write = "committed"
                                       \/ ParticipantsFail /\ v.write = "rolledBack"
                    [] OTHER -> v.write \in {"none", "rolledBack"}
    /\ s = "markFailed" => ~v.nested

FrameWrites ==
    \A i \in Invoking : Fits(stack[i].step, Of(i), i = Len(stack) /\ exc = TRUE)

EndedWrites ==
    \A n \in 1..Len(invs) : invs[n].opens /\ invs[n].outcome # "running" =>
        /\ invs[n].write \in {"none", "committed", "rolledBack"}
        /\ invs[n].outcome = "threw" => invs[n].write # "committed"
        /\ invs[n].outcome = "returned" =>
              invs[n].write = "committed" \/ (ParticipantsFail /\ invs[n].write = "rolledBack")

OpenWrites ==
    \A n \in 1..Len(invs) : invs[n].write = "open" =>
        tx.phase = "active" /\ \A i \in Invoking : Of(i).req = invs[n].req

CommittedTogether ==
    \A m, n \in 1..Len(invs) :
        ~invs[m].nested /\ invs[n].req = invs[m].req /\ invs[n].write = "committed" =>
            invs[m].write = "committed"

NotMarked == ~ParticipantsFail => ~tx.rollbackOnly

Writing == FrameWrites /\ EndedWrites /\ OpenWrites /\ CommittedTogether /\ NotMarked

\* An invocation that waits, or whose frame moves on without it, still fits.
LEMMA FitsKept ==
  ASSUME NEW s, NEW v, NEW w, NEW f \in BOOLEAN, NEW g \in BOOLEAN, Fits(s, v, f),
         f => g \/ s = "handle",
         w.write = v.write, w.opens = v.opens, w.nested = v.nested
  PROVE  Fits(s, w, g)
  BY DEF Fits

\* The invocations below the last frame are not affected by what the last one does.
LEMMA MovedWrites ==
  ASSUME ChainInv, FrameWrites, NEW s \in InvokeSteps, MoveInvocation(s), KnownInvs,
         NEW n \in Nat, n = Len(stack),
         \A i \in Invoking : i # n => Of(i)'.write = Of(i).write,
         Fits(s, Of(n)', n = Len(stack') /\ exc' = TRUE)
  PROVE  FrameWrites'
<1>1. TypeInv
  BY DEF ChainInv
<1>2. /\ n \in Invoking /\ Invoking' = Invoking
      /\ \A i \in Invoking : stack'[i].inv = stack[i].inv
      /\ \A i \in Invoking : i # n => stack'[i].step = stack[i].step
      /\ stack'[n].step = s
  BY DEF MoveInvocation
<1>3. ASSUME NEW i \in Invoking, i # n
      PROVE  Fits(stack'[i].step, Of(i)', i = Len(stack') /\ exc' = TRUE)
  <2>1. Fits(stack[i].step, Of(i), i = Len(stack) /\ exc = TRUE)
    BY DEF FrameWrites
  <2>2. Of(i)'.write = Of(i).write /\ Of(i)'.opens = Of(i).opens /\ Of(i)'.nested = Of(i).nested
    BY <1>1, <1>2, <1>3, KnownOf
  <2>3. (i = Len(stack) /\ exc = TRUE) = FALSE
    BY <1>3
  <2> DEFINE g == i = Len(stack') /\ exc' = TRUE
             f == i = Len(stack) /\ exc = TRUE
  <2>4. f \in BOOLEAN /\ g \in BOOLEAN /\ ~f
    BY <2>3
  <2>5. Fits(stack[i].step, Of(i), f)
    BY <2>1
  <2> HIDE DEF f, g
  <2>6. Fits(stack[i].step, Of(i)', g)
    BY <2>2, <2>4, <2>5, FitsKept
  <2> QED
    BY <1>2, <1>3, <2>6 DEF g
<1> QED
  BY <1>2, <1>3 DEF FrameWrites

\* The frame of the last invocation, before a step.
LEMMA TopFits ==
  ASSUME ChainInv, FrameWrites, Running, Top.kind = "invoke"
  PROVE  /\ Len(stack) \in Nat /\ Len(stack) \in Invoking /\ Inv = Of(Len(stack))
         /\ Top = stack[Len(stack)] /\ Top.step \in InvokeSteps
         /\ Top.inv \in 1..Len(invs) /\ Inv = invs[Top.inv] /\ Inv \in InvType
         /\ Fits(Top.step, Inv, exc = TRUE)
         /\ ~exc => Fits(Top.step, Inv, FALSE)
         /\ Inv.opens => tx.phase = PhaseAt(Top.step)
         /\ ~Inv.opens => Top.step \notin {"commit", "afterCommit", "afterCompletion"}
<1>1. /\ Top \in InvokeFrame /\ Len(stack) \in Nat /\ Len(stack) \in Invoking
      /\ Inv = Of(Len(stack)) /\ Top = stack[Len(stack)]
      /\ Top.inv \in 1..Len(invs) /\ Inv = invs[Top.inv] /\ Inv \in InvType
  BY TopInvocation DEF ChainInv
<1>2. Top.step \in InvokeSteps
  BY <1>1 DEF InvokeFrame
<1>3. Fits(Top.step, Inv, Len(stack) = Len(stack) /\ exc = TRUE)
  BY <1>1 DEF FrameWrites
<1>4. Fits(Top.step, Inv, exc = TRUE) /\ (~exc => Fits(Top.step, Inv, FALSE))
  BY <1>3 DEF Fits
<1>5. Phased(Len(stack))
  BY <1>1 DEF ChainInv, Txn
<1> QED
  BY <1>1, <1>2, <1>4, <1>5 DEF Phased

\* An invocation that only moves on.
LEMMA OnwardsFits ==
  ASSUME ChainInv, FrameWrites, NEW s \in InvokeSteps, Onwards(s)
  PROVE  FrameWrites'
<1>1. PICK n \in Nat : n = Len(stack)
  BY DEF ChainInv, TypeInv, StackOK
<1>2. Running /\ ~exc /\ Top.kind = "invoke" /\ Goto(s) /\ UNCHANGED <<invs, exc>>
  BY DEF Onwards
<1>3. TypeInv /\ MoveInvocation(s)
  BY <1>2, MovesInvocation DEF ChainInv
<1>4. KnownInvs
  BY <1>2, <1>3 DEF KnownInvs, TypeInv, HistoryOK
<1>5. \A i \in Invoking : Of(i)' = Of(i)
  BY <1>2, <1>3 DEF MoveInvocation, Of
<1>6. Fits(Top.step, Inv, FALSE) /\ n \in Invoking /\ Inv = Of(n)
      /\ (Inv.opens \/ Top.step \notin {"commit", "afterCommit", "afterCompletion"})
  BY <1>1, <1>2, TopFits
<1>7. Fits(s, Inv, n = Len(stack') /\ exc' = TRUE)
  BY <1>6 DEF Onwards, Fits
<1> QED
  BY <1>1, <1>3, <1>4, <1>5, <1>6, <1>7, MovedWrites

\* A handler returns or throws, having written into the transaction that is active.
LEMMA HandledFits ==
  ASSUME ChainInv, FrameWrites, OpenWrites, OnStack, Handled
  PROVE  FrameWrites'
<1>1. PICK n \in Nat : n = Len(stack)
  BY DEF ChainInv, TypeInv, StackOK
<1>2. /\ Running /\ ~exc /\ Top.kind = "invoke" /\ Top.step = "handle" /\ UNCHANGED tx
      /\ MoveInvocation("register") /\ SameInvs /\ "register" \in InvokeSteps
      /\ \A m \in 1..Len(invs) : m # Top.inv => invs'[m] = invs[m]
  BY DEF Handled, StaysRunning, InvokeSteps
<1>3. /\ TypeInv /\ n \in Invoking /\ Inv = Of(n) /\ Fits("handle", Inv, FALSE)
      /\ Inv.opens => tx.phase = "active"
      /\ Top = stack[n] /\ Top.inv \in 1..Len(invs) /\ Inv = invs[Top.inv]
  BY <1>1, <1>2, TopFits DEF ChainInv, PhaseAt
<1>4. KnownInvs
  BY <1>2, <1>3 DEF KnownInvs, SameInvs, TypeInv, HistoryOK
<1>5. \A i \in Invoking : /\ stack[i].inv \in 1..Len(invs) /\ stack'[i].inv = stack[i].inv
                          /\ i # n => stack[i].inv # Top.inv
  BY <1>2, <1>3 DEF MoveInvocation, OnStack, TypeInv, StackOK
<1>6. \A i \in Invoking : i # n => Of(i)'.write = Of(i).write
  BY <1>2, <1>5 DEF Of
<1>7. /\ Of(n)'.opens = Inv.opens /\ Of(n)'.nested = Inv.nested
      /\ Of(n)'.write = invs'[Top.inv].write
  BY <1>2, <1>3, <1>5 DEF Of, SameInvs
<1>8. Inv.write = "none" /\ Written \in {"open", "adrift"} /\ (Inv.opens => Written = "open")
  BY <1>3 DEF Fits, Written
<1>9. Fits("register", Of(n)', n = Len(stack') /\ exc' = TRUE)
  <2>1. \/ invs'[Top.inv].write = Written
        \/ /\ exc' = TRUE /\ Len(stack') = n
           /\ invs'[Top.inv].write \in {Inv.write, Written}
    BY <1>1 DEF Handled
  <2> QED
    BY <1>7, <1>8, <2>1 DEF Fits
<1> QED
  BY <1>1, <1>2, <1>4, <1>6, <1>9, MovedWrites

\* A commit, a rollback and the failure of a command.
LEMMA SettlesFits ==
  ASSUME ChainInv, FrameWrites, NotMarked, Settles
  PROVE  FrameWrites'
<1>1. PICK n \in Nat : n = Len(stack)
  BY DEF ChainInv, TypeInv, StackOK
<1>2. /\ Running /\ Top.kind = "invoke" /\ exc' = FALSE
      /\ \/ ~exc /\ Top.step = "commit"
         \/ exc /\ Top.step \in {"handle", "register", "stamp"}
  <2>1. TypeInv /\ Shape
    BY DEF ChainInv
  <2>2. CASE Commits \/ CommitThrows \/ UnexpectedRollback
    <3>1. /\ Running /\ Top.kind = "invoke" /\ UNCHANGED exc /\ ~exc /\ Top.step = "commit"
      BY <2>2 DEF Commits, CommitThrows, UnexpectedRollback, At
    <3>2. exc' \in BOOLEAN /\ ~exc'
      BY <2>1, <3>1 DEF TypeInv, StackOK
    <3> QED
      BY <3>1, <3>2
  <2>3. CASE Abort
    <3>1. Running /\ Top.kind = "invoke" /\ exc' = FALSE /\ exc
      BY <2>3 DEF Abort
    <3>2. Top.step \in {"handle", "register", "stamp"}
      BY <2>1, <3>1 DEF Shape, Throws, Top, Last
    <3> QED
      BY <3>1, <3>2
  <2> QED
    BY <2>2, <2>3 DEF Settles
<1>3. TypeInv /\ \E s \in InvokeSteps : Goto(s)
  BY DEF Settles, Commits, CommitThrows, UnexpectedRollback, Abort, InvokeSteps, ChainInv
<1>4. /\ n \in Invoking /\ Inv = Of(n) /\ Fits(Top.step, Inv, exc = TRUE)
      /\ ~exc => Fits(Top.step, Inv, FALSE)
      /\ Top = stack[n] /\ Top.inv \in 1..Len(invs) /\ Inv = invs[Top.inv] /\ Inv \in InvType
      /\ ~Inv.opens => Top.step # "commit"
  BY <1>1, <1>2, TopFits
<1>5. invs \in Seq(InvType) /\ "committed" \in Writes /\ "rolledBack" \in Writes
  BY <1>3 DEF TypeInv, HistoryOK, Writes
<1>6. ASSUME NEW o \in {"committed", "rolledBack"}, Settle(o), NEW s \in InvokeSteps, Goto(s),
             Inv.opens,
             \A w \in {"none", "open"} : exc \/ w = "open" =>
                Fits(s, [opens |-> TRUE, nested |-> Inv.nested,
                         write |-> IF w = "open" THEN o ELSE w], FALSE)
      PROVE  FrameWrites'
  <2>1. /\ SameInvs
        /\ \A m \in 1..Len(invs) :
              invs'[m].write = IF invs[m].write = "open" THEN o ELSE invs[m].write
    BY <1>5, <1>6, SettleInvs
  <2>2. MoveInvocation(s)
    BY <1>2, <1>3, <1>6, MovesInvocation
  <2>3. Invoking = {n}
    BY <1>1, <1>2, <1>3, <1>6, OnlyOpener DEF ChainInv
  <2>4. KnownInvs
    BY <1>3, <2>1 DEF KnownInvs, SameInvs, TypeInv, HistoryOK
  <2>5. /\ Of(n)'.opens = Inv.opens /\ Of(n)'.nested = Inv.nested
        /\ Of(n)'.write = IF Inv.write = "open" THEN o ELSE Inv.write
    BY <1>4, <2>1, <2>2 DEF Of, SameInvs, MoveInvocation
  <2>6. Inv.write \in {"none", "open"} /\ (~exc => Inv.write = "open")
    BY <1>2, <1>4, <1>6 DEF Fits
  <2>7. Fits(s, [opens |-> TRUE, nested |-> Inv.nested,
                 write |-> IF Inv.write = "open" THEN o ELSE Inv.write], FALSE)
    BY <1>6, <2>6
  <2>8. Fits(s, Of(n)', n = Len(stack') /\ exc' = TRUE)
    BY <1>2, <1>6, <2>5, <2>7 DEF Fits
  <2> QED
    BY <1>1, <2>2, <2>3, <2>4, <2>8, MovedWrites
<1>7. CASE Commits
  <2>1. Settle("committed") /\ Goto("afterCommit") /\ "afterCommit" \in InvokeSteps /\ ~exc
    BY <1>7 DEF Commits, At, InvokeSteps
  <2>2. Inv.opens
    BY <1>2, <1>4, <2>1
  <2>3. \A w \in {"none", "open"} : exc \/ w = "open" =>
           Fits("afterCommit", [opens |-> TRUE, nested |-> Inv.nested,
                                write |-> IF w = "open" THEN "committed" ELSE w], FALSE)
    BY <2>1 DEF Fits
  <2> QED
    BY <1>6, <2>1, <2>2, <2>3
<1>8. CASE CommitThrows
  <2>1. Settle("rolledBack") /\ Goto("stampFailure") /\ "stampFailure" \in InvokeSteps /\ ~exc
    BY <1>8 DEF CommitThrows, At, InvokeSteps
  <2>2. Inv.opens
    BY <1>2, <1>4, <2>1
  <2>3. \A w \in {"none", "open"} : exc \/ w = "open" =>
           Fits("stampFailure", [opens |-> TRUE, nested |-> Inv.nested,
                                 write |-> IF w = "open" THEN "rolledBack" ELSE w], FALSE)
    BY <2>1 DEF Fits
  <2> QED
    BY <1>6, <2>1, <2>2, <2>3
<1>9. CASE UnexpectedRollback
  <2>1. /\ Settle("rolledBack") /\ Goto("return") /\ "return" \in InvokeSteps /\ ~exc
        /\ tx.rollbackOnly
    BY <1>9 DEF UnexpectedRollback, At, InvokeSteps
  <2>2. Inv.opens /\ ParticipantsFail
    BY <1>2, <1>4, <2>1 DEF NotMarked
  <2>3. \A w \in {"none", "open"} : exc \/ w = "open" =>
           Fits("return", [opens |-> TRUE, nested |-> Inv.nested,
                           write |-> IF w = "open" THEN "rolledBack" ELSE w], FALSE)
    BY <2>1, <2>2 DEF Fits
  <2> QED
    BY <1>6, <2>1, <2>2, <2>3
<1>10. CASE Abort
  <2>1. /\ Goto("stampFailure") /\ "stampFailure" \in InvokeSteps
        /\ \/ Inv.opens /\ Settle("rolledBack")
           \/ ~Inv.opens /\ UNCHANGED invs
    BY <1>10 DEF Abort, InvokeSteps
  <2>2. CASE Inv.opens
    <3>1. \A w \in {"none", "open"} : exc \/ w = "open" =>
             Fits("stampFailure", [opens |-> TRUE, nested |-> Inv.nested,
                                   write |-> IF w = "open" THEN "rolledBack" ELSE w], FALSE)
      BY DEF Fits
    <3> QED
      BY <1>6, <2>1, <2>2, <3>1
  <2>3. CASE ~Inv.opens
    <3>1. MoveInvocation("stampFailure") /\ UNCHANGED invs
      BY <1>2, <1>3, <2>1, <2>3, MovesInvocation
    <3>2. KnownInvs
      BY <1>3, <3>1 DEF KnownInvs, TypeInv, HistoryOK
    <3>3. \A i \in Invoking : Of(i)' = Of(i)
      BY <3>1 DEF MoveInvocation, Of
    <3>4. Fits("stampFailure", Of(n)', n = Len(stack') /\ exc' = TRUE)
      BY <1>4, <2>3, <3>3 DEF Fits
    <3> QED
      BY <1>1, <2>1, <3>1, <3>2, <3>3, <3>4, MovedWrites
  <2> QED
    BY <2>2, <2>3
<1> QED
  BY <1>7, <1>8, <1>9, <1>10 DEF Settles

\* Frames come and go above invocations that wait.
LEMMA StackedFits ==
  ASSUME ChainInv, FrameWrites, KnownInvs, NEW I, I \subseteq Invoking,
         \A i \in I : /\ stack'[i].inv = stack[i].inv /\ stack'[i].step = stack[i].step
                      /\ Of(i)'.write = Of(i).write,
         NEW i \in I, i = Len(stack) /\ exc = TRUE => stack[i].step = "handle"
  PROVE  Fits(stack'[i].step, Of(i)', i = Len(stack') /\ exc' = TRUE)
<1> DEFINE f == i = Len(stack) /\ exc = TRUE
           g == i = Len(stack') /\ exc' = TRUE
<1>1. f \in BOOLEAN /\ g \in BOOLEAN /\ (f => stack[i].step = "handle")
  OBVIOUS
<1>2. Fits(stack[i].step, Of(i), f)
  BY DEF FrameWrites
<1>3. Of(i)'.write = Of(i).write /\ Of(i)'.opens = Of(i).opens /\ Of(i)'.nested = Of(i).nested
  BY KnownOf DEF ChainInv
<1> HIDE DEF f, g
<1>4. Fits(stack[i].step, Of(i)', g)
  BY <1>1, <1>2, <1>3, FitsKept
<1> QED
  BY <1>4 DEF g

\* Every step keeps the writes of running invocations in agreement with their place.
LEMMA FrameWritesStep ==
  ASSUME ChainInv, OnStack, Writing, [Next]_vars
  PROVE  FrameWrites'
<1>1. TypeInv /\ FrameWrites /\ OpenWrites /\ NotMarked
      /\ \A i \in Invoking : stack[i].inv \in 1..Len(invs)
  BY DEF ChainInv, Writing, TypeInv, StackOK
<1>2. CASE UNCHANGED vars
  BY <1>1, <1>2 DEF vars, FrameWrites, Invoking, Of
<1>3. CASE Untouched
  <2>1. /\ UNCHANGED invs /\ Invoking' = Invoking
        /\ \A i \in Invoking : stack'[i].inv = stack[i].inv /\ stack'[i].step = stack[i].step
    BY <1>3 DEF Untouched, SameInvocations
  <2>2. KnownInvs /\ \A i \in Invoking : Of(i)'.write = Of(i).write
    BY <1>1, <2>1 DEF KnownInvs, TypeInv, HistoryOK, Of
  <2>3. \A i \in Invoking : i = Len(stack) /\ exc = TRUE => stack[i].step = "handle"
    <3> SUFFICES ASSUME NEW i \in Invoking, i = Len(stack), exc = TRUE
                 PROVE  stack[i].step = "handle"
      OBVIOUS
    <3>1. Running /\ Top = stack[i] /\ stack[i].kind = "invoke"
      BY <1>1 DEF Invoking, Top, Last, Running, TypeInv, StackOK
    <3> QED
      BY <1>3, <3>1 DEF Untouched
  <2>4. \A i \in Invoking : Fits(stack'[i].step, Of(i)', i = Len(stack') /\ exc' = TRUE)
    BY <1>1, <2>1, <2>2, <2>3, StackedFits
  <2> QED
    BY <2>1, <2>4 DEF FrameWrites
<1>4. ASSUME NEW saved \in BOOLEAN, Invoke(saved)
      PROVE  FrameWrites'
  <2>1. PICK k : k = Len(stack) + 1
    OBVIOUS
  <2>2. /\ \A n \in 1..Len(invs) : invs'[n] = invs[n]
        /\ invs'[Len(invs) + 1].write = "none" /\ KnownInvs
        /\ Invoking' = Invoking \cup {k}
        /\ \A i \in Invoking : stack'[i].inv = stack[i].inv /\ stack'[i].step = stack[i].step
        /\ stack'[k].inv = Len(invs) + 1 /\ stack'[k].step = "handle"
        /\ ~exc
    BY <1>1, <1>4, <2>1, InvokeEffect DEF NewInvocation, MayCall
  <2>3. \A i \in Invoking : Of(i)'.write = Of(i).write
    BY <1>1, <2>2 DEF Of
  <2>4. \A i \in Invoking : Fits(stack'[i].step, Of(i)', i = Len(stack') /\ exc' = TRUE)
    BY <1>1, <2>2, <2>3, StackedFits
  <2>5. Fits(stack'[k].step, Of(k)', k = Len(stack') /\ exc' = TRUE)
    BY <2>2 DEF Of, Fits
  <2> QED
    BY <2>2, <2>4, <2>5 DEF FrameWrites
<1>5. ASSUME NEW s \in {"return", "throw"}, Finish(s)
      PROVE  FrameWrites'
  <2>1. /\ Running /\ Top.kind = "invoke" /\ invs' = Ended(s) /\ ~exc
    BY <1>5 DEF Finish, At
  <2>2. /\ EndInvocation /\ SameInvs /\ \A n \in 1..Len(invs) : invs'[n].write = invs[n].write
    <3>1. invs'[Top.inv].write = invs[Top.inv].write
      BY <1>1, <2>1, EndedInvs DEF Inv
    <3> QED
      BY <1>1, <1>5, <2>1, <3>1, EndedInvs, FinishInvocation
  <2>3. /\ Invoking' \subseteq Invoking
        /\ \A i \in Invoking' : stack'[i].inv = stack[i].inv /\ stack'[i].step = stack[i].step
    BY <2>2 DEF EndInvocation
  <2>4. \A i \in Invoking' : Of(i)'.write = Of(i).write
    BY <1>1, <2>2, <2>3 DEF Of
  <2>5. KnownInvs
    BY <1>1, <2>2 DEF KnownInvs, SameInvs, TypeInv, HistoryOK
  <2>6. \A i \in Invoking' : Fits(stack'[i].step, Of(i)', i = Len(stack') /\ exc' = TRUE)
    BY <1>1, <2>1, <2>3, <2>4, <2>5, StackedFits
  <2> QED
    BY <2>6 DEF FrameWrites
<1>6. CASE Crash
  <2>1. stack' = <<>>
    BY <1>6 DEF Crash
  <2> QED
    BY <2>1 DEF FrameWrites, Invoking
<1> QED
  BY <1>1, <1>2, <1>3, <1>4, <1>5, <1>6, StepKinds, OnwardsFits, HandledFits, SettlesFits

\* What Settles does to the writes.
LEMMA SettledWrites ==
  ASSUME TypeInv, Settles
  PROVE  /\ SameInvs /\ Invoking' = Invoking
         /\ \A i \in Invoking : stack'[i].inv = stack[i].inv
         /\ \A n \in 1..Len(invs) : invs'[n].outcome = invs[n].outcome
         /\ \/ UNCHANGED <<invs, tx>>
            \/ /\ \E o \in {"committed", "rolledBack"} :
                     \A n \in 1..Len(invs) :
                        invs'[n].write = IF invs[n].write = "open" THEN o ELSE invs[n].write
               /\ ~Commits => \A n \in 1..Len(invs) :
                     invs'[n].write = IF invs[n].write = "open" THEN "rolledBack"
                                      ELSE invs[n].write
<1>1. invs \in Seq(InvType) /\ "committed" \in Writes /\ "rolledBack" \in Writes
  BY DEF TypeInv, HistoryOK, Writes
<1>2. /\ Running /\ Top.kind = "invoke" /\ \E s \in InvokeSteps : Goto(s)
  BY DEF Settles, Commits, CommitThrows, UnexpectedRollback, Abort, At, InvokeSteps
<1>3. UNCHANGED invs \/ Settle("committed") \/ Settle("rolledBack")
  BY DEF Settles, Commits, CommitThrows, UnexpectedRollback, Abort
<1>4. StaysRunning
  BY <1>2, <1>3, GotoStays
<1>5. /\ Settle("committed") => \A n \in 1..Len(invs) :
            invs'[n].write = IF invs[n].write = "open" THEN "committed" ELSE invs[n].write
      /\ Settle("rolledBack") => \A n \in 1..Len(invs) :
            invs'[n].write = IF invs[n].write = "open" THEN "rolledBack" ELSE invs[n].write
  BY <1>1, SettleInvs
<1>6. CASE Commits
  BY <1>4, <1>5, <1>6 DEF Commits, StaysRunning
<1>7. CASE CommitThrows \/ UnexpectedRollback \/ Abort
  <2>1. Settle("rolledBack") \/ UNCHANGED <<invs, tx>>
    BY <1>7 DEF CommitThrows, UnexpectedRollback, Abort
  <2> QED
    BY <1>4, <1>5, <2>1 DEF StaysRunning
<1> QED
  BY <1>6, <1>7 DEF Settles

\* An invocation that ends leaves its writes settled.
LEMMA EndedWritesStep ==
  ASSUME ChainInv, OnStack, Writing, [Next]_vars
  PROVE  EndedWrites'
<1>1. TypeInv /\ FrameWrites /\ EndedWrites /\ Len(invs) \in Nat
  BY DEF ChainInv, Writing, TypeInv, HistoryOK
<1>2. CASE UNCHANGED invs
  BY <1>1, <1>2 DEF EndedWrites
<1>3. CASE Handled
  <2>1. /\ Running /\ Top.kind = "invoke" /\ SameInvs
        /\ \A n \in 1..Len(invs) : n # Top.inv => invs'[n] = invs[n]
        /\ \A n \in 1..Len(invs) : invs'[n].outcome = invs[n].outcome
    BY <1>3 DEF Handled, StaysRunning
  <2>2. invs[Top.inv].outcome = "running"
    BY <2>1, TopRuns DEF Inv
  <2> QED
    BY <1>1, <2>1, <2>2 DEF EndedWrites, SameInvs
<1>4. CASE Settles
  <2>1. /\ SameInvs /\ \A n \in 1..Len(invs) : invs'[n].outcome = invs[n].outcome
        /\ \A n \in 1..Len(invs) : invs[n].write # "open" => invs'[n].write = invs[n].write
    BY <1>1, <1>4, SettledWrites
  <2> QED
    BY <1>1, <2>1 DEF EndedWrites, SameInvs
<1>5. ASSUME NEW saved \in BOOLEAN, Invoke(saved)
      PROVE  EndedWrites'
  <2>1. /\ Len(invs') = Len(invs) + 1 /\ \A n \in 1..Len(invs) : invs'[n] = invs[n]
        /\ invs'[Len(invs) + 1].outcome = "running"
    BY <1>1, <1>5, InvokeEffect
  <2> QED
    BY <1>1, <2>1 DEF EndedWrites
<1>6. ASSUME NEW s \in {"return", "throw"}, Finish(s)
      PROVE  EndedWrites'
  <2>1. /\ Running /\ Top.kind = "invoke" /\ invs' = Ended(s) /\ ~exc /\ Top.step = s
    BY <1>6 DEF Finish, At
  <2>2. /\ SameInvs /\ \A n \in 1..Len(invs) : n # Top.inv => invs'[n] = invs[n]
        /\ invs'[Top.inv].write = Inv.write
        /\ invs'[Top.inv].outcome = IF s = "return" THEN "returned" ELSE "threw"
    BY <1>1, <2>1, EndedInvs
  <2>3. Fits(s, Inv, FALSE) /\ Top.inv \in 1..Len(invs) /\ Inv = invs[Top.inv]
    BY <1>1, <2>1, TopFits
  <2>4. Inv.opens =>
          /\ Inv.write \in {"none", "committed", "rolledBack"}
          /\ s = "throw" => Inv.write # "committed"
          /\ s = "return" => Inv.write = "committed"
                             \/ (ParticipantsFail /\ Inv.write = "rolledBack")
    BY <2>3 DEF Fits
  <2>5. ASSUME NEW n \in 1..Len(invs), invs'[n].opens, invs'[n].outcome # "running"
        PROVE  /\ invs'[n].write \in {"none", "committed", "rolledBack"}
               /\ invs'[n].outcome = "threw" => invs'[n].write # "committed"
               /\ invs'[n].outcome = "returned" =>
                     invs'[n].write = "committed"
                     \/ (ParticipantsFail /\ invs'[n].write = "rolledBack")
    <3>1. CASE n = Top.inv
      <4>1. Inv.opens
        BY <2>2, <2>3, <2>5, <3>1 DEF SameInvs
      <4> QED
        BY <2>2, <2>4, <3>1, <4>1
    <3>2. CASE n # Top.inv
      BY <1>1, <2>2, <2>5, <3>2 DEF EndedWrites
    <3> QED
      BY <3>1, <3>2
  <2> QED
    BY <2>2, <2>5 DEF EndedWrites, SameInvs
<1>7. CASE Crash
  <2>1. /\ SameInvs
        /\ \A n \in 1..Len(invs) :
              /\ invs'[n].outcome =
                    IF invs[n].outcome = "running" THEN "crashed" ELSE invs[n].outcome
              /\ invs'[n].write = IF invs[n].write = "open" THEN "rolledBack" ELSE invs[n].write
    BY <1>1, <1>7, CrashInvs
  <2>2. ASSUME NEW n \in 1..Len(invs), invs[n].opens, invs[n].outcome = "running"
        PROVE  invs[n].write \in {"none", "open", "committed", "rolledBack"}
    <3>1. PICK i \in Invoking : stack[i].inv = n
      BY <2>2 DEF OnStack
    <3>2. Fits(stack[i].step, Of(i), i = Len(stack) /\ exc = TRUE) /\ Of(i) = invs[n]
      BY <1>1, <3>1 DEF FrameWrites, Of
    <3> QED
      BY <2>2, <3>2 DEF Fits
  <2>3. ASSUME NEW n \in 1..Len(invs), invs'[n].opens, invs'[n].outcome # "running"
        PROVE  /\ invs'[n].write \in {"none", "committed", "rolledBack"}
               /\ invs'[n].outcome = "threw" => invs'[n].write # "committed"
               /\ invs'[n].outcome = "returned" =>
                     invs'[n].write = "committed"
                     \/ (ParticipantsFail /\ invs'[n].write = "rolledBack")
    <3>1. CASE invs[n].outcome = "running"
      BY <2>1, <2>2, <2>3, <3>1 DEF SameInvs
    <3>2. CASE invs[n].outcome # "running"
      BY <1>1, <2>1, <2>3, <3>2 DEF SameInvs, EndedWrites
    <3> QED
      BY <3>1, <3>2
  <2> QED
    BY <2>1, <2>3 DEF EndedWrites, SameInvs
<1> QED
  BY <1>2, <1>3, <1>4, <1>5, <1>6, <1>7, StepKinds DEF Untouched, Onwards, vars

\* Writes are open only while the transaction they belong to is active.
LEMMA OpenWritesStep ==
  ASSUME ChainInv, OnStack, Writing, [Next]_vars
  PROVE  OpenWrites'
<1>1. /\ TypeInv /\ Shape /\ Txn /\ Mdc /\ FrameWrites /\ OpenWrites /\ Len(invs) \in Nat
      /\ \A i \in Invoking : stack[i].inv \in 1..Len(invs)
  BY DEF ChainInv, Writing, TypeInv, HistoryOK, StackOK
<1>2. ASSUME SameInvs, Invoking' \subseteq Invoking,
             \A i \in Invoking' : stack'[i].inv = stack[i].inv,
             \A n \in 1..Len(invs) : invs'[n].write = "open" => invs[n].write = "open",
             tx'.phase = tx.phase \/ tx.phase # "active"
      PROVE  OpenWrites'
  <2>1. \A i \in Invoking' : Of(i)'.req = Of(i).req
    BY <1>1, <1>2 DEF Of, SameInvs
  <2> QED
    BY <1>1, <1>2, <2>1 DEF OpenWrites, SameInvs
<1>3. CASE UNCHANGED vars
  <2>1. UNCHANGED <<tx, stack, invs>>
    BY <1>3 DEF vars
  <2> QED
    BY <1>1, <2>1 DEF OpenWrites, Invoking, Of
<1>4. CASE Untouched
  BY <1>2, <1>4 DEF Untouched, SameInvocations, SameInvs
<1>5. CASE \E s \in InvokeSteps : Onwards(s)
  <2>1. StaysRunning
    BY <1>1, <1>5, GotoStays DEF Onwards
  <2> QED
    BY <1>2, <1>5, <2>1 DEF Onwards, StaysRunning
<1>6. CASE Handled
  <2>1. /\ Running /\ Top.kind = "invoke" /\ UNCHANGED tx
        /\ StaysRunning /\ \A n \in 1..Len(invs) : n # Top.inv => invs'[n] = invs[n]
        /\ invs'[Top.inv].write \in {Inv.write, Written}
    BY <1>6 DEF Handled
  <2>2. /\ Len(stack) \in Invoking /\ Inv = Of(Len(stack)) /\ Inv = invs[Top.inv]
        /\ Top.inv \in 1..Len(invs)
    BY <1>1, <2>1, TopInvocation
  <2>3. \A i \in Invoking' : Of(i)'.req = Of(i).req /\ i \in Invoking
    BY <1>1, <2>1 DEF StaysRunning, SameInvs, Of
  <2>4. ASSUME NEW n \in 1..Len(invs), invs'[n].write = "open"
        PROVE  tx.phase = "active" /\ \A i \in Invoking : Of(i).req = invs[n].req
    <3>1. CASE n = Top.inv
      <4>1. tx.phase = "active"
        BY <1>1, <2>1, <2>2, <2>4, <3>1 DEF OpenWrites, Written
      <4>2. \A i \in Invoking : Of(i).req = invs[n].req
        BY <1>1, <2>2, <3>1 DEF Mdc, OneRequest
      <4> QED
        BY <4>1, <4>2
    <3>2. CASE n # Top.inv
      BY <1>1, <2>1, <2>4, <3>2 DEF OpenWrites
    <3> QED
      BY <3>1, <3>2
  <2> QED
    BY <2>1, <2>3, <2>4 DEF OpenWrites, StaysRunning, SameInvs
<1>7. CASE Settles
  <2>1. /\ SameInvs /\ Invoking' = Invoking
        /\ \A i \in Invoking : stack'[i].inv = stack[i].inv
        /\ \/ UNCHANGED <<invs, tx>>
           \/ \A n \in 1..Len(invs) : invs'[n].write # "open"
    BY <1>1, <1>7, SettledWrites
  <2>2. CASE UNCHANGED <<invs, tx>>
    BY <1>2, <2>1, <2>2
  <2>3. CASE \A n \in 1..Len(invs) : invs'[n].write # "open"
    BY <2>1, <2>3 DEF OpenWrites, SameInvs
  <2> QED
    BY <2>1, <2>2, <2>3
<1>8. ASSUME NEW saved \in BOOLEAN, Invoke(saved)
      PROVE  OpenWrites'
  <2>1. PICK k : k = Len(stack) + 1
    OBVIOUS
  <2>2. /\ Len(invs') = Len(invs) + 1 /\ \A n \in 1..Len(invs) : invs'[n] = invs[n]
        /\ invs'[Len(invs) + 1].write = "none" /\ invs'[Len(invs) + 1].req = mdc'
        /\ Invoking' = Invoking \cup {k}
        /\ \A i \in Invoking : stack'[i].inv = stack[i].inv
        /\ stack'[k].inv = Len(invs) + 1 /\ MayCall
        /\ mdc' = IF mdc # 0 THEN mdc ELSE ids + 1
        /\ IF ~InTransaction THEN Begin ELSE UNCHANGED tx
    BY <1>1, <1>8, <2>1, InvokeEffect DEF NewInvocation
  <2>3. ASSUME NEW n \in 1..(Len(invs) + 1), invs'[n].write = "open"
        PROVE  tx'.phase = "active" /\ \A i \in Invoking' : Of(i)'.req = invs'[n].req
    <3>1. n \in 1..Len(invs) /\ invs[n].write = "open" /\ invs'[n] = invs[n]
      BY <1>1, <2>2, <2>3
    <3>2. tx.phase = "active" /\ \A i \in Invoking : Of(i).req = invs[n].req
      BY <1>1, <3>1 DEF OpenWrites
    <3>3. UNCHANGED tx /\ Invoking # {}
      BY <1>1, <2>2, <3>2, CallablePhase DEF InTransaction
    <3>4. mdc # 0 /\ \A i \in Invoking : mdc = Of(i).req
      BY <1>1, <2>2, <3>3, CallableMdc
    <3>5. \A i \in Invoking : Of(i)' = Of(i)
      BY <1>1, <2>2 DEF Of
    <3>6. Of(k)'.req = mdc
      BY <2>2, <3>4 DEF Of
    <3>7. mdc = invs[n].req
      BY <3>2, <3>3, <3>4
    <3> QED
      BY <2>2, <3>1, <3>2, <3>3, <3>5, <3>6, <3>7
  <2> QED
    BY <2>2, <2>3 DEF OpenWrites
<1>9. ASSUME NEW s \in {"return", "throw"}, Finish(s)
      PROVE  OpenWrites'
  <2>1. /\ Running /\ Top.kind = "invoke" /\ invs' = Ended(s) /\ UNCHANGED tx
    BY <1>9 DEF Finish, At
  <2>2. EndInvocation /\ SameInvs /\ \A n \in 1..Len(invs) : invs'[n].write = invs[n].write
    <3>1. invs'[Top.inv].write = invs[Top.inv].write
      BY <1>1, <2>1, EndedInvs DEF Inv
    <3> QED
      BY <1>1, <1>9, <2>1, <3>1, EndedInvs, FinishInvocation
  <2> QED
    BY <1>2, <2>1, <2>2 DEF EndInvocation
<1>10. CASE Crash
  <2>1. SameInvs /\ \A n \in 1..Len(invs) : invs'[n].write # "open"
    BY <1>1, <1>10, CrashInvs
  <2> QED
    BY <2>1 DEF OpenWrites, SameInvs
<1> QED
  BY <1>3, <1>4, <1>5, <1>6, <1>7, <1>8, <1>9, <1>10, StepKinds

\* Only a commit makes writes committed, and they stay so.
LEMMA CommittedStep ==
  ASSUME ChainInv, FrameWrites, [Next]_vars, ~Commits
  PROVE  /\ \A n \in 1..Len(invs) : invs'[n].write = "committed" <=> invs[n].write = "committed"
         /\ SameInvs \/ \E saved \in BOOLEAN : Invoke(saved)
<1>1. TypeInv
  BY DEF ChainInv
<1>2. CASE UNCHANGED invs
  BY <1>2 DEF SameInvs
<1>3. CASE Handled
  <2>1. /\ Running /\ ~exc /\ Top.kind = "invoke" /\ Top.step = "handle" /\ SameInvs
        /\ \A n \in 1..Len(invs) : n # Top.inv => invs'[n] = invs[n]
        /\ invs'[Top.inv].write \in {Inv.write, Written}
    BY <1>3 DEF Handled, StaysRunning
  <2>2. Fits("handle", Inv, FALSE) /\ Inv = invs[Top.inv]
    BY <2>1, TopFits
  <2>3. Inv.write = "none" /\ Written # "committed"
    BY <2>2 DEF Fits, Written
  <2> QED
    BY <2>1, <2>2, <2>3
<1>4. CASE Settles
  <2>1. /\ SameInvs
        /\ \/ UNCHANGED invs
           \/ \A n \in 1..Len(invs) :
                 invs'[n].write = IF invs[n].write = "open" THEN "rolledBack"
                                  ELSE invs[n].write
    BY <1>1, <1>4, SettledWrites
  <2> QED
    BY <2>1
<1>5. ASSUME NEW saved \in BOOLEAN, Invoke(saved)
      PROVE  \A n \in 1..Len(invs) : invs'[n] = invs[n]
  BY <1>1, <1>5, InvokeEffect
<1>6. ASSUME NEW s \in {"return", "throw"}, Finish(s)
      PROVE  SameInvs /\ \A n \in 1..Len(invs) : invs'[n].write = invs[n].write
  <2>1. Running /\ Top.kind = "invoke" /\ invs' = Ended(s)
    BY <1>6 DEF Finish, At
  <2>2. invs'[Top.inv].write = invs[Top.inv].write
    BY <1>1, <2>1, EndedInvs DEF Inv
  <2> QED
    BY <1>1, <2>1, <2>2, EndedInvs
<1>7. CASE Crash
  <2>1. /\ SameInvs
        /\ \A n \in 1..Len(invs) :
              invs'[n].write = IF invs[n].write = "open" THEN "rolledBack" ELSE invs[n].write
    BY <1>1, <1>7, CrashInvs
  <2> QED
    BY <2>1
<1> QED
  BY <1>2, <1>3, <1>4, <1>5, <1>6, <1>7, StepKinds DEF Untouched, Onwards, vars

\* What a commit does: the writes that were open, those of the last invocation
\* among them, are committed.
LEMMA CommitsEffect ==
  ASSUME ChainInv, FrameWrites, Commits
  PROVE  /\ SameInvs /\ Inv.write = "open" /\ Inv.opens /\ Inv = invs[Top.inv]
         /\ Top.inv \in 1..Len(invs) /\ Running /\ Top.kind = "invoke" /\ Top.step = "commit"
         /\ Len(stack) \in Invoking /\ Inv = Of(Len(stack))
         /\ \A n \in 1..Len(invs) :
               /\ invs'[n].write = IF invs[n].write = "open" THEN "committed" ELSE invs[n].write
               /\ invs'[n].outcome = invs[n].outcome
<1>1. Settle("committed") /\ "committed" \in Writes /\ invs \in Seq(InvType)
  BY DEF Commits, Writes, ChainInv, TypeInv, HistoryOK
<1>2. Running /\ ~exc /\ Top.kind = "invoke" /\ Top.step = "commit"
  BY DEF Commits, At
<1>3. /\ Len(stack) \in Invoking /\ Inv = Of(Len(stack)) /\ Inv = invs[Top.inv]
      /\ Top.inv \in 1..Len(invs) /\ Fits("commit", Inv, FALSE) /\ Inv.opens
  BY <1>2, TopFits
<1>4. Inv.write = "open"
  BY <1>3 DEF Fits
<1> QED
  BY <1>1, <1>2, <1>3, <1>4, SettleInvs

\* Committed writes of a request come with those of its top-level invocation: that
\* is the only one of the request to open a transaction, hence to commit.
LEMMA CommittedTogetherStep ==
  ASSUME ChainInv, Requests, Writing, [Next]_vars
  PROVE  CommittedTogether'
<1>1. /\ TypeInv /\ FrameWrites /\ OpenWrites /\ CommittedTogether
      /\ Len(invs) \in Nat /\ ids \in Nat
      /\ \A n \in 1..Len(invs) : invs[n].req \in Nat /\ invs[n].req <= ids
  BY ReqTypes DEF Writing, Requests, IdsDrawn
<1>2. CASE SameInvs /\ ~Commits
  <2>1. \A n \in 1..Len(invs) : invs'[n].write = "committed" <=> invs[n].write = "committed"
    BY <1>1, <1>2, CommittedStep
  <2> QED
    BY <1>1, <1>2, <2>1 DEF SameInvs, CommittedTogether
<1>3. CASE Commits
  <2>1. /\ SameInvs /\ Inv.write = "open" /\ Inv.opens /\ Inv = invs[Top.inv]
        /\ Top.inv \in 1..Len(invs) /\ Len(stack) \in Invoking /\ Inv = Of(Len(stack))
        /\ \A n \in 1..Len(invs) :
              invs'[n].write = IF invs[n].write = "open" THEN "committed" ELSE invs[n].write
    BY <1>1, <1>3, CommitsEffect
  <2>2. ASSUME NEW m \in 1..Len(invs), NEW n \in 1..Len(invs), ~invs[m].nested,
               invs[n].req = invs[m].req, invs[n].write \in {"open", "committed"}
        PROVE  invs'[m].write = "committed"
    <3>1. CASE invs[n].write = "committed"
      BY <1>1, <2>1, <2>2, <3>1 DEF CommittedTogether
    <3>2. CASE invs[n].write = "open"
      <4>1. Inv.req = invs[n].req
        BY <1>1, <2>1, <3>2 DEF OpenWrites
      <4>2. Top.inv = m
        BY <2>1, <2>2, <4>1 DEF Requests, SoleOpener
      <4> QED
        BY <2>1, <4>2
    <3> QED
      BY <2>2, <3>1, <3>2
  <2> QED
    BY <2>1, <2>2 DEF CommittedTogether, SameInvs
<1>4. ASSUME NEW saved \in BOOLEAN, Invoke(saved)
      PROVE  CommittedTogether'
  <2>1. PICK N \in Nat : N = Len(invs)
    BY <1>1
  <2>2. /\ Len(invs') = N + 1 /\ \A n \in 1..N : invs'[n] = invs[n]
        /\ invs'[N + 1].req = mdc' /\ invs'[N + 1].nested = (mdc # 0)
        /\ invs'[N + 1].write = "none"
        /\ mdc' = IF mdc # 0 THEN mdc ELSE ids + 1
    BY <1>1, <1>4, <2>1, InvokeEffect
  <2>3. SUFFICES ASSUME NEW m \in 1..(N + 1), NEW n \in 1..(N + 1), ~invs'[m].nested,
                        invs'[n].req = invs'[m].req, invs'[n].write = "committed"
                 PROVE  invs'[m].write = "committed"
    BY <2>2 DEF CommittedTogether
  <2>4. n \in 1..N /\ invs'[n] = invs[n]
    BY <2>2, <2>3
  <2>5. CASE m = N + 1
    <3>1. mdc = 0
      BY <2>2, <2>3, <2>5
    <3>2. invs[n].req = ids + 1
      BY <2>2, <2>3, <2>4, <2>5, <3>1
    <3> QED
      BY <1>1, <2>1, <2>4, <3>2
  <2>6. CASE m # N + 1
    <3>1. m \in 1..N /\ invs'[m] = invs[m]
      BY <2>2, <2>6
    <3> QED
      BY <1>1, <2>1, <2>3, <2>4, <3>1 DEF CommittedTogether
  <2> QED
    BY <2>5, <2>6
<1> QED
  BY <1>1, <1>2, <1>3, <1>4, CommittedStep

\* Only code inside a handler marks the transaction rollback-only.
LEMMA NotMarkedStep ==
  ASSUME TypeInv, NotMarked, [Next]_vars
  PROVE  NotMarked'
<1>1. TxOK
  BY DEF TypeInv
<1>2. ASSUME \/ UNCHANGED tx \/ Begin \/ End \/ EnterAfterCommit \/ EnterAfterCompletion
             \/ CallbackTaken \/ ListenerTaken
             \/ (\E c : RegisterCallback(c)) \/ \E d : DeferListener(d)
      PROVE  NotMarked'
  BY <1>1, <1>2, TxFields DEF NotMarked
<1>3. CASE UNCHANGED vars
  BY <1>2, <1>3 DEF vars
<1>4. CASE Proceed
  <2>1. CASE \/ HandlerThrows \/ RegisterDeferred \/ StampSuccess \/ StampSuccessThrows \/ Commits
             \/ CommitThrows \/ UnexpectedRollback \/ RunCallback \/ CallbacksDone \/ Completed
             \/ Abort \/ StampFailure \/ MarkEventsFailed \/ FailureStampThrows \/ PublishRaw
             \/ PublishDone \/ PublishThrows \/ PolicyReturns \/ PolicyThrows \/ PolicyCatches
             \/ HandlerCatches
    BY <1>2, <2>1 DEF HandlerThrows, RegisterDeferred, StampSuccess, StampSuccessThrows, Commits,
          CommitThrows, UnexpectedRollback, RunCallback, CallbacksDone, Completed, Abort,
          StampFailure, MarkEventsFailed, FailureStampThrows, PublishRaw, PublishDone,
          PublishThrows, PolicyReturns, PolicyThrows, PolicyCatches, HandlerCatches
  <2>2. CASE \/ \E nNow, nLater \in 0..MaxEvents : HandlerReturns(nNow, nLater)
             \/ \E s \in {"return", "throw"} : Finish(s)
             \/ \E saved \in BOOLEAN : LogDeferred(saved) \/ PublishWrapper(saved)
    BY <1>2, <2>2 DEF HandlerReturns, Finish, LogDeferred, PublishWrapper
  <2> QED
    BY <1>4, <2>1, <2>2 DEF Proceed
<1>5. CASE Call
  <2>1. CASE ParticipantFails
    BY <2>1 DEF ParticipantFails, NotMarked
  <2>2. CASE \/ \E saved \in BOOLEAN : Invoke(saved)
             \/ \E timing \in Publishes : PublishExternal(timing)
    BY <1>2, <2>2 DEF Invoke, PublishExternal
  <2> QED
    BY <1>5, <2>1, <2>2 DEF Call
<1>6. CASE Crash
  BY <1>2, <1>6 DEF Crash
<1> QED
  BY <1>3, <1>4, <1>5, <1>6 DEF Next

\* The parts are inductive, together with those before.
LEMMA WritingStep == ChainInv /\ Requests /\ Writing /\ [Next]_vars => Writing'
<1> SUFFICES ASSUME ChainInv, Requests, Writing, [Next]_vars PROVE Writing'
  OBVIOUS
<1>1. TypeInv /\ OnStack /\ NotMarked
  BY DEF ChainInv, Requests, Writing
<1> QED
  BY <1>1, FrameWritesStep, EndedWritesStep, OpenWritesStep, CommittedTogetherStep, NotMarkedStep
     DEF Writing

\* The inductive invariant so far.
OutcomeInv == ChainInv /\ Requests /\ Writing

\* Before the first call.
LEMMA InitOutcome == Init => OutcomeInv
<1> SUFFICES ASSUME Init PROVE OutcomeInv
  OBVIOUS
<1>1. /\ Len(<<>>) = 0 /\ stack = <<>> /\ invs = <<>> /\ mdc = 0 /\ ids = 0
      /\ tx.rollbackOnly = FALSE
  BY DEF Init, NoTx
<1>2. Invoking = {}
  BY <1>1 DEF Invoking
<1>3. Requests
  BY <1>1, <1>2 DEF Requests, OnStack, IdsDrawn, Retired, SoleOpener
<1>4. Writing
  BY <1>1, <1>2 DEF Writing, FrameWrites, EndedWrites, OpenWrites, CommittedTogether, NotMarked
<1> QED
  BY <1>3, <1>4, InitChain DEF OutcomeInv

\* Every step keeps it.
LEMMA OutcomeStep == OutcomeInv /\ [Next]_vars => OutcomeInv'
  BY ChainStep, RequestsStep, WritingStep DEF OutcomeInv

\* Hence it always holds.
LEMMA OutcomeCorrect == Spec => []OutcomeInv
  BY InitOutcome, OutcomeStep, PTL DEF Spec

-----------------------------------------------------------------------------
\* An invocation that throws has not committed, whatever participants do to its
\* transaction: a caller that catches an exception of invoke may try again.
ThrowsUncommitted ==
    \A n \in 1..Len(invs) :
        invs[n].opens /\ invs[n].outcome = "threw" => invs[n].write # "committed"

\* invoke never throws once its own transaction has committed: what fails after the
\* commit, policies and the event logger's listeners, does not reach the caller.
THEOREM NoThrowAfterCommit == Spec => []ThrowsUncommitted
<1>1. OutcomeInv => ThrowsUncommitted
  BY DEF OutcomeInv, Writing, EndedWrites, ThrowsUncommitted
<1> QED
  BY <1>1, OutcomeCorrect, PTL

\* As long as nobody marks a transaction rollback-only from inside a handler, invoke
\* returns exactly when the transaction it opened committed.
THEOREM CallerIsToldTheTruth ==
  ASSUME ~ParticipantsFail
  PROVE  Spec => []OutcomeIsTruthful
<1>1. OutcomeInv => OutcomeIsTruthful
  <2> SUFFICES ASSUME OutcomeInv, NEW n \in 1..Len(invs), invs[n].opens, Finished(n)
               PROVE  invs[n].outcome = "returned" <=> invs[n].write = "committed"
    BY DEF OutcomeIsTruthful
  <2>1. invs[n].outcome \in {"returned", "threw"}
    BY DEF Finished
  <2> QED
    BY <2>1 DEF OutcomeInv, Writing, EndedWrites
<1> QED
  BY <1>1, OutcomeCorrect, PTL

-----------------------------------------------------------------------------
(***************************************************************************)
(* The rows.  Every invocation has a command row of its own, and the row   *)
(* of one that is about to commit has been stamped successful.             *)
(***************************************************************************)
CommandRows ==
    /\ \A n \in 1..Len(invs) :
          /\ rows[invs[n].row].kind = "command" /\ rows[invs[n].row].of = n
          /\ rows[invs[n].row].req = invs[n].req
    /\ \A i \in 1..Len(rows) : rows[i].kind = "command" =>
          rows[i].of \in 1..Len(invs) /\ invs[rows[i].of].row = i

ReadyRow ==
    \A i \in Invoking : stack[i].step = "commit" /\ rows[Of(i).row].saved => rows[Of(i).row].ok

\* The row that a step adds is the command row of the invocation it adds, or an
\* event's row.
LEMMA RowAdded ==
  ASSUME ChainInv, Emitted, [Next]_vars
  PROVE  /\ SameRowsSoFar /\ Len(rows) \in Nat
         /\ \/ SameInvs /\ Len(rows') = Len(rows)
            \/ /\ SameInvs /\ Len(rows') = Len(rows) + 1
               /\ rows'[Len(rows) + 1].kind = "event" /\ rows'[Len(rows) + 1].ok = TRUE
               /\ \A i \in Invoking : Of(i).req = rows'[Len(rows) + 1].req
            \/ \E saved \in BOOLEAN :
                  /\ Invoke(saved) /\ Len(rows') = Len(rows) + 1
                  /\ rows'[Len(rows) + 1].kind = "command"
                  /\ rows'[Len(rows) + 1].of = Len(invs) + 1
                  /\ rows'[Len(rows) + 1].req = mdc' /\ rows'[Len(rows) + 1].ok = FALSE
<1>1. TypeInv /\ TrailTypeOK /\ RowsExist /\ Len(rows) \in Nat /\ Len(invs) \in Nat
  BY DEF ChainInv, TypeInv, TrailTypeOK, HistoryOK
<1>2. SameRowsSoFar
  <2>1. CASE Next
    BY <1>1, <2>1, RowsStep
  <2>2. CASE UNCHANGED vars
    BY <1>1, <2>2 DEF vars, trail, SameRowsSoFar
  <2> QED
    BY <2>1, <2>2
<1>3. ASSUME NEW saved \in BOOLEAN, Invoke(saved)
      PROVE  /\ Len(rows') = Len(rows) + 1
             /\ rows'[Len(rows) + 1].kind = "command"
             /\ rows'[Len(rows) + 1].of = Len(invs) + 1
             /\ rows'[Len(rows) + 1].req = mdc' /\ rows'[Len(rows) + 1].ok = FALSE
  <2>1. Record("command", Len(invs) + 1, mdc', FALSE, saved)
    BY <1>1, <1>3, InvokeEffect
  <2>2. \E r : /\ rows' = Append(rows, r)
               /\ r.kind = "command" /\ r.of = Len(invs) + 1 /\ r.req = mdc' /\ r.ok = FALSE
    BY <2>1 DEF Record
  <2>3. rows \in Seq(RowType)
    BY <1>1 DEF TrailTypeOK
  <2> QED
    BY <2>2, <2>3
<1>4. SameInvs \/ \E saved \in BOOLEAN : Invoke(saved)
  <2>1. UNCHANGED vars => SameInvs
    BY <1>1 DEF vars, SameInvs
  <2> QED
    BY <1>1, <2>1, InvsStep
<1>5. CASE Len(rows') = Len(rows)
  BY <1>2, <1>1, <1>3, <1>4, <1>5
<1>6. CASE (\E saved \in BOOLEAN : LogDeferred(saved)) \/ \E saved \in BOOLEAN : PublishWrapper(saved)
  <2>1. SameInvs
    BY <1>6, EventRecorded, <1>1 DEF SameInvs
  <2>2. CASE UNCHANGED trail
    BY <1>5, <2>2 DEF trail
  <2>3. ASSUME NEW e \in Nat, NEW r \in RequestIds, NEW saved \in BOOLEAN,
               Record("event", e, r, TRUE, saved), \A i \in Invoking : Of(i).req = r
        PROVE  /\ Len(rows') = Len(rows) + 1
               /\ rows'[Len(rows) + 1].kind = "event" /\ rows'[Len(rows) + 1].ok = TRUE
               /\ \A i \in Invoking : Of(i).req = rows'[Len(rows) + 1].req
    <3>1. \E row : /\ rows' = Append(rows, row)
                   /\ row.kind = "event" /\ row.req = r /\ row.ok = TRUE
      BY <2>3 DEF Record
    <3>2. rows \in Seq(RowType)
      BY <1>1 DEF TrailTypeOK
    <3> QED
      BY <2>3, <3>1, <3>2
  <2> QED
    BY <1>1, <1>2, <1>6, <2>1, <2>2, <2>3, EventRecorded
<1>7. CASE StampSuccess \/ StampFailure \/ MarkEventsFailed
  BY <1>1, <1>5, <1>7, StampRows DEF SameRows
<1>8. CASE UNCHANGED rows
  BY <1>5, <1>8
<1>9. CASE \E saved \in BOOLEAN : Invoke(saved)
  BY <1>1, <1>2, <1>3, <1>9
<1> QED
  BY <1>6, <1>7, <1>8, <1>9, RowChanges

\* invoke adds the row of its invocation, and rows keep what they tell of.
LEMMA CommandRowsStep ==
  ASSUME ChainInv, Emitted, CommandRows, [Next]_vars
  PROVE  CommandRows'
<1>1. SameRowsSoFar /\ RowsExist /\ Len(rows) \in Nat /\ Len(invs) \in Nat /\ TypeInv
  <2>1. RowsExist /\ TypeInv /\ Len(invs) \in Nat
    BY DEF ChainInv, TypeInv, HistoryOK
  <2> QED
    BY <2>1, RowAdded
<1>2. ASSUME SameInvs,
             \A i \in 1..Len(rows') : rows'[i].kind = "command" => i \in 1..Len(rows)
      PROVE  CommandRows'
  <2>1. ASSUME NEW n \in 1..Len(invs')
        PROVE  /\ rows'[invs'[n].row].kind = "command" /\ rows'[invs'[n].row].of = n
               /\ rows'[invs'[n].row].req = invs'[n].req
    BY <1>1, <1>2 DEF SameInvs, SameRowsSoFar, CommandRows, RowsExist
  <2>2. ASSUME NEW i \in 1..Len(rows'), rows'[i].kind = "command"
        PROVE  rows'[i].of \in 1..Len(invs') /\ invs'[rows'[i].of].row = i
    BY <1>1, <1>2, <2>2 DEF SameInvs, SameRowsSoFar, CommandRows
  <2> QED
    BY <2>1, <2>2 DEF CommandRows
<1>3. CASE SameInvs /\ \/ Len(rows') = Len(rows)
                       \/ Len(rows') = Len(rows) + 1 /\ rows'[Len(rows) + 1].kind = "event"
  <2>1. \A i \in 1..Len(rows') : i \in 1..Len(rows) \/ i = Len(rows) + 1
    BY <1>1, <1>3
  <2> QED
    BY <1>1, <1>2, <1>3, <2>1
<1>4. ASSUME NEW saved \in BOOLEAN, Invoke(saved), Len(rows') = Len(rows) + 1,
             rows'[Len(rows) + 1].kind = "command", rows'[Len(rows) + 1].of = Len(invs) + 1,
             rows'[Len(rows) + 1].req = mdc'
      PROVE  CommandRows'
  <2>1. /\ Len(invs') = Len(invs) + 1 /\ \A n \in 1..Len(invs) : invs'[n] = invs[n]
        /\ invs'[Len(invs) + 1].req = mdc' /\ invs'[Len(invs) + 1].row = Len(rows) + 1
    BY <1>1, <1>4, InvokeEffect
  <2>2. /\ \A i \in 1..Len(rows') : i \in 1..Len(rows) \/ i = Len(rows) + 1
        /\ \A n \in 1..Len(invs') : n \in 1..Len(invs) \/ n = Len(invs) + 1
        /\ \A n \in 1..Len(invs) : n \in 1..Len(invs') /\ n # Len(invs) + 1
        /\ Len(invs) + 1 \in 1..Len(invs')
    BY <1>1, <1>4, <2>1
  <2>3. ASSUME NEW n \in 1..Len(invs')
        PROVE  /\ rows'[invs'[n].row].kind = "command" /\ rows'[invs'[n].row].of = n
               /\ rows'[invs'[n].row].req = invs'[n].req
    BY <1>1, <1>4, <2>1, <2>2 DEF SameRowsSoFar, CommandRows, RowsExist
  <2>4. ASSUME NEW i \in 1..Len(rows'), rows'[i].kind = "command"
        PROVE  rows'[i].of \in 1..Len(invs') /\ invs'[rows'[i].of].row = i
    BY <1>1, <1>4, <2>1, <2>2, <2>4 DEF SameRowsSoFar, CommandRows
  <2> QED
    BY <2>3, <2>4 DEF CommandRows
<1> QED
  BY <1>3, <1>4, RowAdded

\* Only with its success stamped does an invocation reach its commit.
LEMMA BeforeCommit ==
  ASSUME ChainInv, Next, NEW i \in Invoking', stack'[i].step = "commit"
  PROVE  /\ StampSuccess /\ Running /\ Top.kind = "invoke"
         /\ i = Len(stack) /\ i \in Invoking /\ stack'[i].inv = stack[i].inv
<1>1. TypeInv /\ Shape /\ Txn
  BY DEF ChainInv
<1>2. \A j \in Invoking : j # Len(stack) => stack[j].step \in {"handle", "register", "afterCommit"}
  BY <1>1, WaitingInvocation
<1>3. ASSUME NEW s \in InvokeSteps, MoveInvocation(s)
      PROVE  s = "commit" /\ i = Len(stack) /\ i \in Invoking /\ stack'[i].inv = stack[i].inv
  BY <1>2, <1>3 DEF MoveInvocation
<1>4. CASE Untouched
  <2>1. i \in Invoking /\ stack[i].step = "commit"
    BY <1>4 DEF Untouched, SameInvocations
  <2>2. i = Len(stack) /\ stack[i].kind = "invoke" /\ stack[i] = Top /\ Running
    BY <1>1, <1>2, <2>1, TopFrame DEF Invoking, Running, Top, Last, TypeInv, StackOK
  <2> QED
    BY <1>4, <2>1, <2>2 DEF Untouched
<1>5. ASSUME NEW s \in InvokeSteps, Onwards(s)
      PROVE  StampSuccess /\ Running /\ Top.kind = "invoke" /\ s = "commit"
             /\ i = Len(stack) /\ i \in Invoking /\ stack'[i].inv = stack[i].inv
  <2>1. MoveInvocation(s) /\ Running /\ Top.kind = "invoke"
    BY <1>1, <1>5, MovesInvocation DEF Onwards
  <2>2. s = "commit"
    BY <1>3, <2>1
  <2> QED
    BY <1>3, <1>5, <2>1, <2>2 DEF Onwards
<1>6. CASE Handled
  <2>1. MoveInvocation("register") /\ "register" \in InvokeSteps
    BY <1>6 DEF Handled, InvokeSteps
  <2> QED
    BY <1>3, <2>1
<1>7. CASE Settles
  <2>1. PICK s \in {"afterCommit", "stampFailure", "return"} :
           Running /\ Top.kind = "invoke" /\ Goto(s)
    BY <1>7 DEF Settles, Commits, CommitThrows, UnexpectedRollback, Abort, At
  <2>2. s \in InvokeSteps /\ s # "commit"
    BY DEF InvokeSteps
  <2>3. MoveInvocation(s)
    BY <1>1, <2>1, <2>2, MovesInvocation
  <2> QED
    BY <1>3, <2>2, <2>3
<1>8. ASSUME NEW saved \in BOOLEAN, Invoke(saved)
      PROVE  FALSE
  <2>1. NewInvocation /\ MayCall
    BY <1>1, <1>8, InvokeEffect
  <2>2. \A j \in Invoking : stack[j].step \in {"handle", "register", "afterCommit"}
    BY <1>1, <2>1, CallableInvocation
  <2> QED
    BY <2>1, <2>2 DEF NewInvocation
<1>9. ASSUME NEW s \in {"return", "throw"}, Finish(s)
      PROVE  FALSE
  <2>1. EndInvocation
    BY <1>1, <1>9, FinishInvocation
  <2> QED
    BY <1>2, <2>1 DEF EndInvocation
<1>10. CASE Crash
  <2>1. stack' = <<>> /\ Len(<<>>) = 0
    BY <1>10 DEF Crash
  <2> QED
    BY <2>1 DEF Invoking
<1> QED
  BY <1>4, <1>5, <1>6, <1>7, <1>8, <1>9, <1>10, StepKinds

\* Nothing unstamps the row of an invocation that is about to commit.
LEMMA ReadyRowStep ==
  ASSUME ChainInv, ReadyRow, [Next]_vars
  PROVE  ReadyRow'
<1>1. TypeInv /\ TrailTypeOK /\ RowsExist
  BY DEF ChainInv, TypeInv
<1>2. CASE UNCHANGED vars
  BY <1>2 DEF vars, trail, ReadyRow, Invoking, Of
<1>3. ASSUME Next, NEW i \in Invoking', stack'[i].step = "commit", rows'[Of(i)'.row].saved
      PROVE  rows'[Of(i)'.row].ok
  <2>1. /\ StampSuccess /\ Running /\ Top.kind = "invoke"
        /\ i = Len(stack) /\ i \in Invoking /\ stack'[i].inv = stack[i].inv
    BY <1>3, BeforeCommit
  <2>2. Inv = Of(i) /\ Inv = invs[Top.inv] /\ Top.inv \in 1..Len(invs)
    BY <1>1, <2>1, TopInvocation
  <2>3. UNCHANGED invs /\ Stamp(Inv.row, TRUE)
    BY <2>1 DEF StampSuccess
  <2>4. Of(i)' = Of(i) /\ Inv.row \in 1..Len(rows)
    BY <1>1, <2>1, <2>2, <2>3 DEF Of, RowsExist
  <2>5. SameRows /\ rows'[Inv.row].ok = IF rows[Inv.row].saved THEN TRUE ELSE rows[Inv.row].ok
    BY <1>1, <2>3, <2>4, StampTrail
  <2>6. rows[Inv.row].saved
    BY <1>3, <2>2, <2>4, <2>5 DEF SameRows
  <2> QED
    BY <2>2, <2>4, <2>5, <2>6
<1> QED
  BY <1>2, <1>3 DEF ReadyRow

\* A row that turns failed is of nobody's committed work: a stamp touches the row of
\* a command that has not committed, and markEventsFailed the rows of a request
\* whose top-level command has not.
LEMMA FailedRow ==
  ASSUME OutcomeInv, Emitted, CommandRows, [Next]_vars, NEW i \in 1..Len(rows),
         rows[i].ok = TRUE, rows'[i].ok # TRUE, By(i) # 0
  PROVE  invs[By(i)].write # "committed"
<1>1. /\ ChainInv /\ TypeInv /\ TrailTypeOK /\ RowsExist /\ FrameWrites /\ CommittedTogether
      /\ rows \in Seq(RowType)
  BY DEF OutcomeInv, ChainInv, Writing, TypeInv, TrailTypeOK
<1>2. CASE UNCHANGED rows
  BY <1>2
<1>3. CASE StampSuccess
  <2>1. Running /\ Top.kind = "invoke" /\ Stamp(Inv.row, TRUE)
    BY <1>3 DEF StampSuccess, At
  <2>2. Inv.row \in 1..Len(rows)
    BY <1>1, <2>1, TopInvocation DEF RowsExist
  <2>3. rows'[i].ok = TRUE
    <3>1. CASE i # Inv.row
      BY <1>1, <2>1, <2>2, <3>1, StampTrail
    <3>2. CASE i = Inv.row
      <4>1. rows'[i].ok = IF rows[i].saved THEN TRUE ELSE rows[i].ok
        BY <1>1, <2>1, <2>2, <3>2, StampTrail
      <4> QED
        BY <4>1
    <3> QED
      BY <3>1, <3>2
  <2> QED
    BY <2>3
<1>4. CASE StampFailure
  <2>1. Running /\ ~exc /\ Top.kind = "invoke" /\ Top.step = "stampFailure" /\ Stamp(Inv.row, FALSE)
    BY <1>4 DEF StampFailure, At
  <2>2. /\ Top.inv \in 1..Len(invs) /\ Inv = invs[Top.inv] /\ Inv.row \in 1..Len(rows)
        /\ Fits("stampFailure", Inv, FALSE)
    BY <1>1, <2>1, TopFits DEF RowsExist
  <2>3. Inv.write # "committed"
    BY <2>2 DEF Fits
  <2>4. i = Inv.row
    BY <1>1, <2>1, <2>2, StampTrail
  <2>5. By(i) = Top.inv
    BY <2>2, <2>4 DEF CommandRows, By
  <2> QED
    BY <2>2, <2>3, <2>5
<1>5. CASE MarkEventsFailed
  <2>1. Running /\ ~exc /\ Top.kind = "invoke" /\ Top.step = "markFailed" /\ MarkFailed(Inv.req)
    BY <1>5 DEF MarkEventsFailed, At
  <2>2. /\ Top.inv \in 1..Len(invs) /\ Inv = invs[Top.inv] /\ Inv.req \in RequestIds
        /\ Fits("markFailed", Inv, FALSE)
    BY <1>1, <2>1, TopFits, TopInvocation
  <2>3. Inv.write # "committed" /\ ~Inv.nested
    BY <2>2 DEF Fits
  <2>4. rows[i].req = Inv.req
    BY <1>1, <2>1, <2>2, MarkFailedTrail
  <2>5. By(i) \in 1..Len(invs) /\ invs[By(i)].req = rows[i].req
    <3>1. CASE rows[i].kind = "command"
      BY <3>1 DEF By, CommandRows
    <3>2. CASE rows[i].kind = "event"
      BY <3>2 DEF By, Emitted, EventRows, From, Tells
    <3>3. rows[i] \in RowType
      BY <1>1
    <3> QED
      BY <3>1, <3>2, <3>3 DEF RowType
  <2> QED
    BY <1>1, <2>2, <2>3, <2>4, <2>5 DEF CommittedTogether
<1>6. CASE \/ \E saved \in BOOLEAN : Invoke(saved)
           \/ \E saved \in BOOLEAN : LogDeferred(saved)
           \/ \E saved \in BOOLEAN : PublishWrapper(saved)
  <2>1. UNCHANGED rows \/ \E row : rows' = Append(rows, row)
    BY <1>6 DEF Invoke, LogDeferred, PublishWrapper, Record, trail
  <2>2. rows'[i] = rows[i]
    BY <1>1, <2>1
  <2> QED
    BY <2>2
<1> QED
  BY <1>2, <1>3, <1>4, <1>5, <1>6, RowChanges

\* The inductive invariant, with the rows.
AuditInv == OutcomeInv /\ Emitted /\ CommandRows /\ ReadyRow

\* It always holds.
LEMMA AuditCorrect == Spec => []AuditInv
<1>1. Init => AuditInv
  <2> SUFFICES ASSUME Init PROVE CommandRows /\ ReadyRow
    BY InitOutcome, InitEmitted DEF AuditInv
  <2>1. Len(<<>>) = 0
    OBVIOUS
  <2>2. Len(stack) = 0 /\ Len(invs) = 0 /\ Len(rows) = 0
    BY <2>1 DEF Init, TrailInit
  <2> QED
    BY <2>2 DEF CommandRows, ReadyRow, Invoking
<1>2. AuditInv /\ [Next]_vars => AuditInv'
  BY OutcomeStep, EmittedStep, CommandRowsStep, ReadyRowStep DEF AuditInv, OutcomeInv
<1> QED
  BY <1>1, <1>2, PTL DEF Spec

\* A commit finds its row stamped, and no row of committed work turns failed.
LEMMA CommitRowStep ==
  ASSUME AuditInv, NoCommitWithoutSuccessRow, [Next]_vars
  PROVE  NoCommitWithoutSuccessRow'
<1>1. /\ OutcomeInv /\ Emitted /\ CommandRows /\ ReadyRow
      /\ ChainInv /\ FrameWrites /\ EndedWrites /\ OnStack /\ TypeInv /\ RowsExist
      /\ Len(invs) \in Nat /\ invs \in Seq(InvType) /\ rows \in Seq(RowType)
  BY DEF AuditInv, OutcomeInv, Writing, Requests, ChainInv, TypeInv, HistoryOK, TrailTypeOK
<1>2. CASE Commits
  <2>1. UNCHANGED rows
    BY <1>2 DEF Commits, trail
  <2>2. ASSUME NEW n \in 1..Len(invs), invs[n].opens, invs'[n].write = "committed",
               rows[invs[n].row].saved
        PROVE  rows[invs[n].row].ok
    <3>1. CASE invs[n].write = "committed"
      BY <2>2, <3>1 DEF NoCommitWithoutSuccessRow
    <3>2. CASE invs[n].write = "open"
      <4>1. invs[n] \in InvType /\ invs[n].outcome = "running"
        BY <1>1, <2>2, <3>2 DEF EndedWrites
      <4>2. n = Top.inv /\ Inv = Of(Len(stack)) /\ Len(stack) \in Invoking
            /\ stack[Len(stack)].step = "commit" /\ Inv = invs[Top.inv]
        BY <1>1, <1>2, <4>1, CommitsEffect, TopRuns, TopInvocation
      <4> QED
        BY <1>1, <2>2, <4>2 DEF ReadyRow
    <3> QED
      BY <1>1, <1>2, <2>2, <3>1, <3>2, CommitsEffect
  <2>3. SameInvs
    BY <1>1, <1>2, CommitsEffect
  <2> QED
    BY <2>1, <2>2, <2>3 DEF NoCommitWithoutSuccessRow, SameInvs
<1>3. CASE ~Commits
  <2>1. SUFFICES ASSUME NEW n \in 1..Len(invs'), invs'[n].opens, invs'[n].write = "committed",
                        rows'[invs'[n].row].saved
                 PROVE  rows'[invs'[n].row].ok
    BY DEF NoCommitWithoutSuccessRow
  <2>2. n \in 1..Len(invs) /\ invs[n].opens /\ invs'[n].row = invs[n].row /\ invs[n].write = "committed"
    <3>1. CASE SameInvs
      BY <1>1, <1>3, <2>1, <3>1, CommittedStep DEF SameInvs
    <3>2. ASSUME NEW saved \in BOOLEAN, Invoke(saved)
          PROVE  n \in 1..Len(invs) /\ invs'[n] = invs[n]
      <4>1. n \in 1..Len(invs) \/ n = Len(invs) + 1
        <5>1. Len(invs') = Len(invs) + 1
          BY <1>1, <3>2, InvokeEffect
        <5> QED
          BY <1>1, <2>1, <5>1
      <4> QED
        BY <1>1, <2>1, <3>2, <4>1, InvokeEffect
    <3> QED
      BY <1>1, <1>3, <2>1, <3>1, <3>2, CommittedStep
  <2>3. invs[n].row \in 1..Len(rows) /\ rows[invs[n].row].saved /\ By(invs[n].row) = n
    BY <1>1, <2>1, <2>2, RowAdded DEF SameRowsSoFar, RowsExist, CommandRows, By
  <2>4. rows[invs[n].row].ok
    BY <2>2, <2>3 DEF NoCommitWithoutSuccessRow
  <2>5. rows[invs[n].row] \in RowType
    BY <1>1, <2>3
  <2>6. rows[invs[n].row].ok = TRUE
    BY <2>4, <2>5 DEF RowType
  <2>7. PICK i \in 1..Len(rows) : i = invs[n].row
    BY <2>3
  <2>8. By(i) = n /\ By(i) # 0 /\ rows[i].ok = TRUE
    BY <2>2, <2>3, <2>6, <2>7
  <2>9. rows'[i].ok = TRUE
    BY <1>1, <2>2, <2>8, FailedRow
  <2> QED
    BY <2>2, <2>7, <2>9
<1> QED
  BY <1>2, <1>3

\* Whatever fails, and at whatever point the process dies: business data is committed
\* only together with a row that calls its command successful, if that row's insert
\* was not lost.
THEOREM CommittedWorkIsAudited == Spec => []NoCommitWithoutSuccessRow
<1>1. Init => NoCommitWithoutSuccessRow
  <2>1. Len(<<>>) = 0
    OBVIOUS
  <2> QED
    BY <2>1 DEF Init, NoCommitWithoutSuccessRow
<1>2. AuditInv /\ NoCommitWithoutSuccessRow /\ [Next]_vars => NoCommitWithoutSuccessRow'
  BY CommitRowStep
<1> QED
  BY <1>1, <1>2, AuditCorrect, PTL DEF Spec

\* No failure, of a nested command, of the commit, of a policy or of a listener after
\* the commit, turns a row of committed work into a failed one.
THEOREM CommittedWorkStaysSuccessful == Spec => NeverRetroactivelyFailed
<1> DEFINE A == \A i \in 1..Len(rows) :
                   rows[i].saved /\ rows[i].ok /\ ~rows'[i].ok /\ By(i) # 0 =>
                       invs[By(i)].write # "committed"
<1>1. AuditInv /\ [Next]_vars => [A]_vars
  <2> SUFFICES ASSUME AuditInv, [Next]_vars, NEW i \in 1..Len(rows),
                      rows[i].ok, ~rows'[i].ok, By(i) # 0
               PROVE  invs[By(i)].write # "committed"
    OBVIOUS
  <2>1. rows \in Seq(RowType)
    BY DEF AuditInv, OutcomeInv, ChainInv, TypeInv, TrailTypeOK
  <2>2. rows[i].ok = TRUE /\ rows'[i].ok # TRUE
    BY <2>1 DEF RowType
  <2> QED
    BY <2>2, FailedRow DEF AuditInv
<1> QED
  BY <1>1, AuditCorrect, PTL DEF Spec, NeverRetroactivelyFailed

-----------------------------------------------------------------------------
(***************************************************************************)
(* The snapshots.  Each is of a top-level invocation that has ended, no    *)
(* two of the same one, and every such invocation has one.                 *)
(***************************************************************************)
Over(v) == v.outcome \in {"returned", "threw"}
SnapshotType == [inv : Nat, committed : BOOLEAN, rows : Seq([row : Nat, ok : BOOLEAN])]

Snaps ==
    /\ snapshots \in Seq(SnapshotType)
    /\ \A k \in 1..Len(snapshots) :
          LET n == snapshots[k].inv IN n \in 1..Len(invs) /\ ~invs[n].nested /\ Over(invs[n])
    /\ \A k, l \in 1..Len(snapshots) : snapshots[k].inv = snapshots[l].inv => k = l
    /\ \A n \in 1..Len(invs) : ~invs[n].nested /\ Over(invs[n]) =>
          \E k \in 1..Len(snapshots) : snapshots[k].inv = n

\* Only the end of an invocation takes a snapshot.
LEMMA SnapshotsStep ==
  ASSUME [Next]_vars
  PROVE  UNCHANGED snapshots \/ \E s \in {"return", "throw"} : Finish(s)
<1>1. CASE UNCHANGED history
  BY <1>1 DEF history
<1>2. CASE Proceed
  <2>1. CASE \/ HandlerThrows \/ RegisterDeferred \/ StampSuccess \/ StampSuccessThrows \/ Commits
             \/ CommitThrows \/ UnexpectedRollback \/ RunCallback \/ CallbacksDone \/ Completed
             \/ Abort \/ StampFailure \/ MarkEventsFailed \/ FailureStampThrows \/ PublishRaw
             \/ PublishDone \/ PublishThrows \/ PolicyReturns \/ PolicyThrows \/ PolicyCatches
             \/ HandlerCatches
    BY <1>1, <2>1 DEF HandlerThrows, RegisterDeferred, StampSuccess, StampSuccessThrows, Commits,
          CommitThrows, UnexpectedRollback, RunCallback, CallbacksDone, Completed, Abort,
          StampFailure, MarkEventsFailed, FailureStampThrows, PublishRaw, PublishDone,
          PublishThrows, PolicyReturns, PolicyThrows, PolicyCatches, HandlerCatches
  <2>2. CASE \/ \E nNow, nLater \in 0..MaxEvents : HandlerReturns(nNow, nLater)
             \/ \E saved \in BOOLEAN : LogDeferred(saved) \/ PublishWrapper(saved)
    BY <1>1, <2>2 DEF HandlerReturns, LogDeferred, PublishWrapper
  <2> QED
    BY <1>2, <2>1, <2>2 DEF Proceed
<1>3. CASE Call
  BY <1>1, <1>3 DEF Call, Invoke, PublishExternal, ParticipantFails
<1>4. CASE Crash
  BY <1>4 DEF Crash
<1> QED
  BY <1>1, <1>2, <1>3, <1>4 DEF Next, vars

\* What Finish hands to the after-transaction handler.
LEMMA SnapshotTaken ==
  ASSUME TypeInv, snapshots \in Seq(SnapshotType), NEW s \in {"return", "throw"}, Finish(s)
  PROVE  IF Inv.nested THEN UNCHANGED snapshots
         ELSE /\ snapshots' \in Seq(SnapshotType) /\ Len(snapshots') = Len(snapshots) + 1
              /\ \A k \in 1..Len(snapshots) : snapshots'[k] = snapshots[k]
              /\ snapshots'[Len(snapshots) + 1].inv = Top.inv
<1>1. Running /\ Top.kind = "invoke"
  BY DEF Finish, At
<1>2. CASE Inv.nested
  BY <1>2 DEF Finish
<1>3. CASE ~Inv.nested
  <2> DEFINE shown == [k \in 1..Len(pending[Inv.req]) |->
                          [row |-> pending[Inv.req][k], ok |-> rows[pending[Inv.req][k]].mem]]
             new == [inv |-> Top.inv, committed |-> (s = "return"), rows |-> shown]
  <2>1. snapshots' = Append(snapshots, new)
    BY <1>3 DEF Finish, Snapshot
  <2>2. Top.inv \in Nat /\ Inv.req \in RequestIds
    BY <1>1, TopInvocation DEF TypeInv, HistoryOK
  <2>3. pending[Inv.req] \in Seq(1..Len(rows)) /\ rows \in Seq(RowType)
    BY <2>2 DEF TypeInv, TrailTypeOK
  <2>4. shown \in Seq([row : Nat, ok : BOOLEAN])
    <3> DEFINE m == Len(pending[Inv.req])
               item(k) == [row |-> pending[Inv.req][k], ok |-> rows[pending[Inv.req][k]].mem]
    <3>1. ASSUME NEW k \in 1..m
          PROVE  item(k) \in [row : Nat, ok : BOOLEAN]
      <4>1. pending[Inv.req][k] \in 1..Len(rows)
        BY <2>3
      <4>2. rows[pending[Inv.req][k]] \in RowType
        BY <2>3, <4>1
      <4> QED
        BY <4>1, <4>2 DEF RowType
    <3>2. shown = [k \in 1..m |-> item(k)] /\ m \in Nat
      BY <2>3
    <3> HIDE DEF item, m, shown
    <3> QED
      BY <3>1, <3>2
  <2> HIDE DEF shown
  <2>5. new \in SnapshotType /\ new.inv = Top.inv
    BY <2>2, <2>4 DEF SnapshotType
  <2> HIDE DEF new
  <2> QED
    BY <1>3, <2>1, <2>5, AppendProperties
<1> QED
  BY <1>2, <1>3

\* The end of a top-level invocation adds its snapshot.
LEMMA SnapsStep ==
  ASSUME ChainInv, OnStack, Snaps, [Next]_vars
  PROVE  Snaps'
<1>1. TypeInv /\ invs \in Seq(InvType) /\ Len(invs) \in Nat /\ Len(snapshots) \in Nat
      /\ snapshots \in Seq(SnapshotType)
  BY DEF ChainInv, TypeInv, HistoryOK, Snaps
<1>2. CASE StaysRunning /\ UNCHANGED snapshots
  BY <1>1, <1>2 DEF StaysRunning, SameInvs, Snaps, Over
<1>3. ASSUME NEW saved \in BOOLEAN, Invoke(saved)
      PROVE  Snaps'
  <2>1. /\ Len(invs') = Len(invs) + 1 /\ \A n \in 1..Len(invs) : invs'[n] = invs[n]
        /\ invs'[Len(invs) + 1].outcome = "running" /\ UNCHANGED snapshots
    BY <1>1, <1>3, InvokeEffect
  <2>2. \A n \in 1..Len(invs') : n \in 1..Len(invs) \/ n = Len(invs) + 1
    BY <1>1, <2>1
  <2>3. \A n \in 1..Len(invs) : n \in 1..Len(invs') /\ (Over(invs'[n]) <=> Over(invs[n]))
    BY <1>1, <2>1 DEF Over
  <2>4. ~Over(invs'[Len(invs) + 1])
    BY <2>1 DEF Over
  <2> QED
    BY <1>1, <2>1, <2>2, <2>3, <2>4 DEF Snaps, Over
<1>4. CASE Crash
  <2>1. /\ SameInvs /\ UNCHANGED snapshots
        /\ \A n \in 1..Len(invs) : invs'[n].outcome =
              IF invs[n].outcome = "running" THEN "crashed" ELSE invs[n].outcome
    BY <1>1, <1>4, CrashInvs DEF Crash
  <2>2. \A n \in 1..Len(invs) : Over(invs'[n]) <=> Over(invs[n])
    BY <2>1 DEF Over
  <2> QED
    BY <2>1, <2>2 DEF Snaps, SameInvs, Over
<1>5. ASSUME NEW s \in {"return", "throw"}, Finish(s)
      PROVE  Snaps'
  <2>1. Running /\ Top.kind = "invoke" /\ invs' = Ended(s)
    BY <1>5 DEF Finish, At
  <2>2. /\ SameInvs /\ \A n \in 1..Len(invs) : n # Top.inv => invs'[n] = invs[n]
        /\ invs'[Top.inv].outcome \in {"returned", "threw"}
    BY <1>1, <2>1, EndedInvs
  <2>3. Top.inv \in 1..Len(invs) /\ Inv = invs[Top.inv] /\ Inv.outcome = "running"
    BY <1>1, <2>1, TopRuns, TopInvocation
  <2>4. /\ ~Over(invs[Top.inv]) /\ Over(invs'[Top.inv])
        /\ \A n \in 1..Len(invs) : n # Top.inv => (Over(invs'[n]) <=> Over(invs[n]))
    BY <2>2, <2>3 DEF Over
  <2>5. \A k \in 1..Len(snapshots) : snapshots[k].inv # Top.inv
    BY <2>4 DEF Snaps
  <2>6. CASE Inv.nested
    <3>1. UNCHANGED snapshots
      BY <1>1, <1>5, <2>6, SnapshotTaken
    <3> QED
      BY <2>2, <2>3, <2>4, <2>5, <2>6, <3>1 DEF Snaps, SameInvs, Over
  <2>7. CASE ~Inv.nested
    <3>1. /\ snapshots' \in Seq(SnapshotType) /\ Len(snapshots') = Len(snapshots) + 1
          /\ \A k \in 1..Len(snapshots) : snapshots'[k] = snapshots[k]
          /\ snapshots'[Len(snapshots) + 1].inv = Top.inv
      BY <1>1, <1>5, <2>7, SnapshotTaken
    <3>2. /\ \A k \in 1..Len(snapshots') : k \in 1..Len(snapshots) \/ k = Len(snapshots) + 1
          /\ \A k \in 1..Len(snapshots) : k \in 1..Len(snapshots')
          /\ Len(snapshots) + 1 \in 1..Len(snapshots')
      BY <1>1, <3>1
    <3>3. ASSUME NEW k \in 1..Len(snapshots')
          PROVE  LET n == snapshots'[k].inv
                 IN  n \in 1..Len(invs') /\ ~invs'[n].nested /\ Over(invs'[n])
      BY <2>2, <2>3, <2>4, <2>5, <2>7, <3>1, <3>2 DEF Snaps, SameInvs
    <3>4. ASSUME NEW k \in 1..Len(snapshots'), NEW l \in 1..Len(snapshots'),
                 snapshots'[k].inv = snapshots'[l].inv
          PROVE  k = l
      BY <2>5, <3>1, <3>2, <3>4 DEF Snaps
    <3>5. ASSUME NEW n \in 1..Len(invs'), ~invs'[n].nested, Over(invs'[n])
          PROVE  \E k \in 1..Len(snapshots') : snapshots'[k].inv = n
      BY <2>2, <2>4, <3>1, <3>2, <3>5 DEF Snaps, SameInvs
    <3> QED
      BY <3>1, <3>3, <3>4, <3>5 DEF Snaps, Over
  <2> QED
    BY <2>6, <2>7
<1> QED
  BY <1>1, <1>2, <1>3, <1>4, <1>5, OutcomesStep, SnapshotsStep DEF Crash

\* That is always so.
LEMMA SnapsCorrect == Spec => []Snaps
<1>1. Init => Snaps
  <2> SUFFICES ASSUME Init PROVE Snaps
    OBVIOUS
  <2>1. Len(<<>>) = 0 /\ <<>> \in Seq(SnapshotType)
    OBVIOUS
  <2> QED
    BY <2>1 DEF Init, Snaps
<1>2. OutcomeInv /\ Snaps /\ [Next]_vars => Snaps'
  BY SnapsStep DEF OutcomeInv, Requests
<1> QED
  BY <1>1, <1>2, OutcomeCorrect, PTL DEF Spec

\* The after-transaction handler runs exactly once for a top-level command that ended,
\* by return or by exception, and not at all for a nested one, one still running or
\* one whose process died.
THEOREM HandlerRunsOnce == Spec => []OneSnapshotPerTopLevel
<1>1. Snaps => OneSnapshotPerTopLevel
  <2> SUFFICES ASSUME Snaps, NEW n \in 1..Len(invs)
               PROVE  Cardinality({k \in 1..Len(snapshots) : snapshots[k].inv = n}) =
                         IF ~invs[n].nested /\ Finished(n) THEN 1 ELSE 0
    BY DEF OneSnapshotPerTopLevel
  <2> DEFINE taken == {k \in 1..Len(snapshots) : snapshots[k].inv = n}
  <2>1. CASE ~invs[n].nested /\ Finished(n)
    <3>1. PICK k \in 1..Len(snapshots) : snapshots[k].inv = n
      BY <2>1 DEF Snaps, Finished, Over
    <3>2. taken = {k}
      BY <3>1 DEF Snaps
    <3> QED
      BY <2>1, <3>2, FS_Singleton
  <2>2. CASE ~(~invs[n].nested /\ Finished(n))
    <3>1. taken = {}
      BY <2>2 DEF Snaps, Finished, Over
    <3> QED
      BY <2>2, <3>1, FS_EmptySet
  <2> QED
    BY <2>1, <2>2
<1> QED
  BY <1>1, SnapsCorrect, PTL

-----------------------------------------------------------------------------
(***************************************************************************)
(* An external publication publishes one event, and MDC holds its request  *)
(* until that event's policies run.                                        *)
(***************************************************************************)
External ==
    \A i \in Publishing : stack[i].mode = "external" =>
        /\ Len(stack[i].todo) <= 1
        /\ i # Len(stack) => stack[i].todo = <<>>
        /\ i = Len(stack) /\ stack[i].todo # <<>> => mdc # 0

\* A publication stays, waits or ends, or is a new one, which has taken its request
\* from MDC or put it there.
LEMMA ExternalStep ==
  ASSUME ChainInv, External, [Next]_vars
  PROVE  External'
<1>1. TypeInv /\ Mdc /\ StackKept /\ (Pushing \/ Len(stack') <= Len(stack))
  BY StackStep DEF ChainInv
<1>2. PICK n \in Nat : n = Len(stack)
  BY <1>1 DEF TypeInv, StackOK
<1>3. SUFFICES ASSUME NEW i \in Publishing', stack'[i].mode = "external"
               PROVE  /\ Len(stack'[i].todo) <= 1
                      /\ i # Len(stack') => stack'[i].todo = <<>>
                      /\ i = Len(stack') /\ stack'[i].todo # <<>> => mdc' # 0
  BY DEF External
<1>4. i \in 1..Len(stack') /\ stack'[i].kind = "publish" /\ stack \in Seq(FrameType)
  BY <1>1 DEF Publishing, TypeInv, StackOK
<1>5. ASSUME i \in 1..(n - 1), stack'[i] = stack[i]
      PROVE  stack'[i].todo = <<>> /\ Len(<<>>) = 0
  BY <1>2, <1>3, <1>4, <1>5 DEF External, Publishing
<1>6. CASE UNCHANGED <<stack, mdc>>
  BY <1>3, <1>6 DEF External, Publishing
<1>7. CASE Running /\ Top.kind = "invoke" /\ \E s \in InvokeSteps : Goto(s)
  <2>1. /\ Len(stack') = n /\ \A j \in 1..n : j # n => stack'[j] = stack[j]
        /\ stack'[n].kind = "invoke"
    BY <1>2, <1>4, <1>7, GotoStack
  <2>2. i \in 1..(n - 1) /\ stack'[i] = stack[i]
    BY <1>2, <1>4, <2>1
  <2> QED
    BY <1>5, <2>2
<1>8. CASE Running /\ \E throws \in BOOLEAN : Leave(throws)
  <2>1. Len(stack') = n - 1 /\ \A j \in 1..(n - 1) : stack'[j] = stack[j]
    BY <1>2, <1>4, <1>8, LeaveStack
  <2> QED
    BY <1>4, <1>5, <2>1
<1>9. CASE \E saved \in BOOLEAN : PublishWrapper(saved)
  <2>1. /\ WrapperFrames /\ Running /\ Top.kind = "publish" /\ mdc' = mdc
    BY <1>1, <1>9, PublishWrapperEffect DEF PublishWrapper, At
  <2>2. Top = stack[n] /\ n \in Publishing
    BY <1>1, <1>2, <2>1, TopPublication
  <2>3. CASE i = n
    BY <1>2, <1>3, <2>1, <2>2, <2>3 DEF WrapperFrames, External
  <2>4. CASE i # n
    BY <1>2, <1>4, <1>5, <2>1, <2>4 DEF WrapperFrames
  <2> QED
    BY <2>3, <2>4
<1>10. CASE PublishRaw
  <2>1. ListenFrames /\ Running /\ Top.kind = "publish" /\ Top.step = "raw"
    BY <1>1, <1>10, PublishRawEffect DEF PublishRaw, At
  <2>2. Top = stack[n] /\ n \in Publishing /\ Top.todo \in Seq(Nat) /\ Top.todo # <<>>
    BY <1>1, <1>2, <2>1, TopPublication
  <2>3. CASE i = n
    <3>1. stack'[i].todo = Tail(Top.todo) /\ Top.mode = "external"
      BY <1>2, <1>3, <2>1, <2>3 DEF ListenFrames
    <3>2. Len(Top.todo) <= 1
      BY <2>2, <3>1 DEF External
    <3>3. Tail(Top.todo) = <<>> /\ Len(<<>>) = 0
      BY <2>2, <3>2
    <3>4. Len(stack') = n + 1 /\ i # Len(stack')
      BY <1>2, <2>1, <2>3 DEF ListenFrames
    <3>5. stack'[i].todo = <<>>
      BY <3>1, <3>3
    <3>6. Len(stack'[i].todo) = 0
      BY <3>3, <3>5
    <3> QED
      BY <3>4, <3>5, <3>6
  <2>4. CASE i # n
    <3>1. Len(stack') = n + 1 /\ stack'[n + 1].kind = "policy"
      BY <1>2, <2>1 DEF ListenFrames
    <3>2. i \in 1..(n - 1)
      BY <1>2, <1>4, <2>4, <3>1
    <3>3. stack'[i] = stack[i]
      BY <1>2, <2>1, <3>2 DEF ListenFrames
    <3> QED
      BY <1>5, <3>2, <3>3
  <2> QED
    BY <2>3, <2>4
<1>11. ASSUME NEW nNow \in 0..MaxEvents, NEW nLater \in 0..MaxEvents, HandlerReturns(nNow, nLater)
       PROVE  i \in 1..(n - 1) /\ stack'[i] = stack[i]
  <2>1. DispatchFrames(nNow, nLater)
    BY <1>1, <1>11, HandlerReturnsEffect
  <2> QED
    BY <1>2, <1>3, <1>4, <2>1 DEF DispatchFrames
<1>12. CASE \/ RunCallback \/ \E saved \in BOOLEAN : Invoke(saved)
            \/ \E timing \in Publishes : PublishExternal(timing)
  <2>1. \E f : /\ Push(f)
               /\ f.kind = "publish" /\ f.mode = "external" =>
                     f.todo = <<Len(events) + 1>> /\ f.req = mdc' /\ mdc' # 0
    <3>1. CASE RunCallback
      BY <3>1 DEF RunCallback
    <3>2. CASE \E saved \in BOOLEAN : Invoke(saved)
      BY <3>2 DEF Invoke
    <3>3. CASE \E timing \in Publishes : PublishExternal(timing)
      <4>1. ids + 1 # 0
        BY <1>1 DEF TypeInv, HistoryOK
      <4> QED
        BY <3>3, <4>1 DEF PublishExternal
    <3> QED
      BY <1>12, <3>1, <3>2, <3>3
  <2>2. Running => Top.kind # "publish"
    BY <1>12 DEF RunCallback, Invoke, PublishExternal, MayCall, At
  <2>3. /\ Len(stack') = n + 1 /\ \A j \in 1..n : stack'[j] = stack[j]
        /\ stack'[n + 1].kind = "publish" /\ stack'[n + 1].mode = "external" =>
              stack'[n + 1].todo = <<Len(events) + 1>> /\ mdc' # 0
    BY <1>1, <1>2, <2>1, PushFrames
  <2>4. CASE i <= n
    <3>1. i # n
      <4>1. n # 0 => Top = stack[n]
        BY <1>2, <1>4 DEF Top, Last
      <4>2. Running <=> n # 0
        BY <1>2, <1>4 DEF Running
      <4> QED
        BY <1>2, <1>4, <2>2, <2>3, <2>4, <4>1, <4>2
    <3> QED
      BY <1>2, <1>4, <1>5, <2>3, <2>4, <3>1
  <2>5. CASE i = n + 1
    <3>1. Len(<<Len(events) + 1>>) = 1
      OBVIOUS
    <3>2. stack'[i].todo = <<Len(events) + 1>> /\ mdc' # 0 /\ i = Len(stack')
      BY <1>2, <1>3, <1>4, <2>3, <2>5
    <3> QED
      BY <3>1, <3>2
  <2> QED
    BY <1>2, <1>4, <2>3, <2>4, <2>5
<1>13. CASE stack' = <<>>
  <2>1. Len(stack') = 0
    BY <1>13
  <2> QED
    BY <1>4, <2>1
<1> QED
  BY <1>5, <1>6, <1>7, <1>8, <1>9, <1>10, <1>11, <1>12, <1>13, StackMoves DEF Pushing, Dispatching

\* The event logger finds a request id in MDC whenever it is called: the one it falls
\* back on, of the event's own context, is never needed.
LEMMA WrapperMdc ==
  ASSUME ChainInv, External, NEW saved \in BOOLEAN, PublishWrapper(saved)
  PROVE  mdc # 0
<1>1. TypeInv /\ Shape /\ Mdc /\ Running /\ Top.kind = "publish" /\ Top.todo # <<>>
  BY DEF ChainInv, PublishWrapper, At
<1>2. PICK n \in Nat : n = Len(stack)
  BY <1>1 DEF TypeInv, StackOK
<1>3. n \in Publishing /\ Top = stack[n] /\ Top \in PublishFrame /\ n >= 1
  BY <1>1, <1>2, TopPublication
<1>4. CASE Invoking # {}
  BY <1>1, <1>4 DEF Mdc, MdcCleared
<1>5. CASE Invoking = {}
  <2>1. Top.mode = "external"
    <3>1. CASE n = 1
      BY <1>1, <1>3, <3>1 DEF Shape, Bottom
    <3>2. CASE n # 1
      <4>1. n - 1 \in 1..(n - 1) /\ n - 1 \in 1..n
        BY <1>3, <3>2
      <4>2. Rests(stack[n - 1], stack[n])
        <5>1. Rests(stack[n - 1], stack[n - 1 + 1])
          BY <1>1, <1>2, <4>1 DEF Shape, Adjacent
        <5> QED
          BY <5>1
      <4>3. stack[n - 1].kind # "invoke"
        BY <1>2, <1>5, <4>1 DEF Invoking
      <4> QED
        BY <1>1, <1>3, <4>2, <4>3 DEF Rests, PublishFrame
    <3> QED
      BY <3>1, <3>2
  <2> QED
    BY <1>1, <1>2, <1>3, <2>1 DEF External
<1> QED
  BY <1>4, <1>5

\* It always holds.
LEMMA ExternalCorrect == Spec => []External
<1>1. Init => External
  BY DEF Init, External, Publishing
<1>2. ChainInv /\ External /\ [Next]_vars => External'
  BY ExternalStep
<1> QED
  BY <1>1, <1>2, ChainCorrect, PTL DEF Spec

-----------------------------------------------------------------------------
(***************************************************************************)
(* The ledger of a request: its numbers and its remembered rows are right  *)
(* as long as the request is live, which it is while MDC holds its id or   *)
(* one of its commands runs.  A request that is over is never live again.  *)
(***************************************************************************)
LiveIn(m, is, r) == r = m \/ \E n \in 1..Len(is) : is[n].outcome = "running" /\ is[n].req = r
Live(r) == LiveIn(mdc, invs, r)

\* The requests that are live after a step were so before it, but for one that the
\* step opens.
LEMMA LiveStep ==
  ASSUME ChainInv, Requests, [Next]_vars, NEW r \in RequestIds, LiveIn(mdc', invs', r)
  PROVE  (Live(r) \/ r = ids + 1) /\ r <= ids'
<1>1. TypeInv /\ Mdc /\ ids \in Nat /\ Len(invs) \in Nat /\ IdsDrawn' /\ r # 0
  BY IdsDrawnStep, RequestIdsAssumption DEF ChainInv, TypeInv, HistoryOK, Requests
<1>2. r <= ids'
  BY <1>1 DEF LiveIn, IdsDrawn
<1> SUFFICES Live(r) \/ r = ids + 1
  BY <1>2
<1>3. CASE \E n \in 1..Len(invs') : invs'[n].outcome = "running" /\ invs'[n].req = r
  <2>1. PICK n \in 1..Len(invs') : invs'[n].outcome = "running" /\ invs'[n].req = r
    BY <1>3
  <2>2. ASSUME n \in 1..Len(invs), invs[n].outcome = "running", invs[n].req = r
        PROVE  Live(r)
    BY <2>2 DEF Live, LiveIn
  <2>3. CASE StaysRunning
    BY <2>1, <2>2, <2>3 DEF StaysRunning, SameInvs
  <2>4. CASE \E saved \in BOOLEAN : Invoke(saved)
    <3>1. /\ Len(invs') = Len(invs) + 1 /\ \A m \in 1..Len(invs) : invs'[m] = invs[m]
          /\ invs'[Len(invs) + 1].req = mdc' /\ mdc' = IF mdc # 0 THEN mdc ELSE ids + 1
      BY <1>1, <2>4, InvokeEffect
    <3>2. CASE n = Len(invs) + 1
      BY <2>1, <3>1, <3>2 DEF Live, LiveIn
    <3>3. CASE n # Len(invs) + 1
      BY <1>1, <2>1, <2>2, <3>1, <3>3
    <3> QED
      BY <3>2, <3>3
  <2>5. CASE \E s \in {"return", "throw"} : Finish(s)
    <3>1. PICK s \in {"return", "throw"} : Finish(s)
      BY <2>5
    <3>2. /\ Running /\ Top.kind = "invoke" /\ invs' = Ended(s)
      BY <3>1 DEF Finish, At
    <3>3. /\ SameInvs /\ \A m \in 1..Len(invs) : m # Top.inv => invs'[m] = invs[m]
          /\ invs'[Top.inv].outcome # "running"
      BY <1>1, <3>2, EndedInvs
    <3> QED
      BY <2>1, <2>2, <3>3 DEF SameInvs
  <2>6. CASE Crash
    BY <1>1, <2>1, <2>2, <2>6, CrashInvs DEF SameInvs
  <2> QED
    BY <2>3, <2>4, <2>5, <2>6, OutcomesStep
<1>4. CASE r = mdc'
  <2>1. ASSUME NEW i \in Invoking
        PROVE  Live(Of(i).req)
    <3>1. stack[i].inv \in 1..Len(invs) /\ invs[stack[i].inv].outcome = "running"
      BY <1>1, <2>1 DEF TypeInv, StackOK, Requests, OnStack
    <3> QED
      BY <3>1 DEF Live, LiveIn, Of
  <2>2. CASE \E saved \in BOOLEAN : Invoke(saved)
    <3>1. mdc' = IF mdc # 0 THEN mdc ELSE ids + 1
      BY <1>1, <2>2, InvokeEffect
    <3> QED
      BY <1>4, <3>1 DEF Live, LiveIn
  <2> QED
    BY <1>1, <1>4, <2>1, <2>2, IdsStep DEF Live, LiveIn
<1> QED
  BY <1>2, <1>3, <1>4 DEF LiveIn

\* What a step does to the trail, and for which requests.
Recorded == \E kind \in {"command", "event"}, of \in Nat, r \in RequestIds,
               ok \in BOOLEAN, saved \in BOOLEAN :
                  Record(kind, of, r, ok, saved) /\ LiveIn(mdc', invs', r)
Drained == \E r \in RequestIds : Drain(r) /\ ~LiveIn(mdc', invs', r)
Forgotten == Forget /\ \A r \in RequestIds : ~LiveIn(mdc', invs', r)

\* A row is recorded for a request that is live, and the rows of a request are
\* handed over when it is over.
LEMMA TrailStep ==
  ASSUME ChainInv, Requests, External, [Next]_vars
  PROVE  \/ UNCHANGED trail
         \/ Recorded
         \/ \E i \in 1..Len(rows), ok \in BOOLEAN : Stamp(i, ok)
         \/ \E r \in RequestIds : MarkFailed(r)
         \/ Drained
         \/ Forgotten
<1>1. /\ TypeInv /\ Mdc /\ RowsExist /\ OnStack /\ 0 \notin RequestIds
      /\ mdc \in RequestIds \cup {0} /\ Len(invs) \in Nat
  BY RequestIdsAssumption DEF ChainInv, Requests, TypeInv, HistoryOK
<1>2. CASE \E saved \in BOOLEAN : Invoke(saved)
  <2>1. PICK saved \in BOOLEAN : Record("command", Len(invs) + 1, mdc', FALSE, saved)
    BY <1>1, <1>2, InvokeEffect
  <2>2. mdc' \in RequestIds
    <3>1. mdc' = IF mdc # 0 THEN mdc ELSE ids + 1
      BY <1>1, <1>2, InvokeEffect
    <3>2. TypeInv'
      BY <1>1, <1>2, InvokeTypes
    <3>3. mdc' # 0
      BY <1>1, <3>1 DEF TypeInv, HistoryOK
    <3> QED
      BY <3>2, <3>3 DEF TypeInv, HistoryOK
  <2>3. LiveIn(mdc', invs', mdc')
    BY DEF LiveIn
  <2>5. Len(invs) + 1 \in Nat
    BY <1>1
  <2>4. FALSE \in BOOLEAN /\ "command" \in {"command", "event"}
    OBVIOUS
  <2> QED
    BY <2>1, <2>2, <2>3, <2>4, <2>5 DEF Recorded
<1>3. CASE \E saved \in BOOLEAN : LogDeferred(saved)
  <2>1. PICK saved \in BOOLEAN :
           Record("event", Head(tx.listeners).event,
                  IF mdc # 0 THEN mdc ELSE Head(tx.listeners).req, TRUE, saved)
    BY <1>3 DEF LogDeferred
  <2>2. Running /\ Top.kind = "invoke" /\ tx.listeners # <<>> /\ UNCHANGED <<mdc, invs>>
    BY <1>3 DEF LogDeferred, At
  <2>3. tx.listeners \in Seq(ListenerType)
    BY <1>1 DEF TypeInv, TxOK, TxType
  <2>4. 1 \in 1..Len(tx.listeners) /\ Head(tx.listeners) = tx.listeners[1]
        /\ Head(tx.listeners) \in ListenerType
    BY <2>2, <2>3
  <2>5. /\ Inv.req \in RequestIds /\ Inv.outcome = "running" /\ Top.inv \in 1..Len(invs)
        /\ Inv = invs[Top.inv] /\ Len(stack) \in Invoking /\ Inv = Of(Len(stack))
    BY <1>1, <2>2, TopInvocation, TopRuns
  <2>6. (IF mdc # 0 THEN mdc ELSE Head(tx.listeners).req) = Inv.req
    BY <1>1, <2>4, <2>5 DEF Mdc, OneRequest, TxReqs
  <2>7. LiveIn(mdc', invs', Inv.req)
    BY <2>2, <2>5 DEF LiveIn
  <2>8. Head(tx.listeners).event \in Nat /\ TRUE \in BOOLEAN /\ "event" \in {"command", "event"}
    BY <2>4 DEF ListenerType
  <2> QED
    BY <2>1, <2>5, <2>6, <2>7, <2>8 DEF Recorded
<1>4. CASE \E saved \in BOOLEAN : PublishWrapper(saved)
  <2>1. PICK saved \in BOOLEAN : PublishWrapper(saved)
    BY <1>4
  <2>2. mdc # 0 /\ mdc \in RequestIds
    BY <1>1, <2>1, WrapperMdc
  <2>3. \/ UNCHANGED trail
        \/ Record("event", Head(Top.todo), mdc, TRUE, saved) /\ UNCHANGED <<mdc, invs>>
    BY <2>1, <2>2 DEF PublishWrapper
  <2>4. Head(Top.todo) \in Nat
    <3>1. Running /\ Top.kind = "publish" /\ Top.todo # <<>>
      BY <2>1 DEF PublishWrapper, At
    <3> QED
      BY <1>1, <3>1, TopPublication
  <2>5. UNCHANGED <<mdc, invs>> => LiveIn(mdc', invs', mdc)
    BY DEF LiveIn
  <2> QED
    BY <2>2, <2>3, <2>4, <2>5 DEF Recorded
<1>5. CASE StampSuccess \/ StampFailure
  <2>1. Running /\ Top.kind = "invoke" /\ \E ok \in BOOLEAN : Stamp(Inv.row, ok)
    BY <1>5 DEF StampSuccess, StampFailure, At
  <2>2. Inv.row \in 1..Len(rows)
    BY <1>1, <2>1, TopInvocation DEF RowsExist
  <2> QED
    BY <2>1, <2>2
<1>6. CASE MarkEventsFailed
  <2>1. Running /\ Top.kind = "invoke" /\ MarkFailed(Inv.req)
    BY <1>6 DEF MarkEventsFailed, At
  <2> QED
    BY <1>1, <2>1, TopInvocation
<1>7. CASE \E s \in {"return", "throw"} : Finish(s)
  <2>1. PICK s \in {"return", "throw"} : Finish(s)
    BY <1>7
  <2>2. /\ Running /\ Top.kind = "invoke" /\ invs' = Ended(s)
        /\ IF Inv.nested THEN UNCHANGED trail ELSE Drain(Inv.req) /\ mdc' = 0
    BY <2>1 DEF Finish, At
  <2>3. CASE ~Inv.nested
    <3>1. /\ SameInvs /\ \A m \in 1..Len(invs) : m # Top.inv => invs'[m] = invs[m]
          /\ invs'[Top.inv].outcome # "running" /\ Inv.req \in RequestIds
      BY <1>1, <2>2, EndedInvs, TopInvocation
    <3>2. \A m \in 1..Len(invs) : invs[m].outcome = "running" => m = Top.inv
      BY <1>1, <2>2, <2>3, TopRuns
    <3>3. ~LiveIn(mdc', invs', Inv.req)
      BY <1>1, <2>2, <2>3, <3>1, <3>2 DEF LiveIn, SameInvs
    <3> QED
      BY <2>2, <2>3, <3>1, <3>3 DEF Drained
  <2> QED
    BY <2>2, <2>3
<1>8. CASE Crash
  <2>1. Forget /\ mdc' = 0
    BY <1>8 DEF Crash
  <2>2. \A n \in 1..Len(invs') : invs'[n].outcome # "running"
    BY <1>1, <1>8, CrashInvs DEF SameInvs
  <2> QED
    BY <1>1, <2>1, <2>2 DEF LiveIn, Forgotten
<1>9. CASE UNCHANGED vars
  BY <1>9 DEF vars
<1>10. CASE Next
  <2>1. CASE \E nNow, nLater \in 0..MaxEvents : HandlerReturns(nNow, nLater)
    BY <2>1 DEF HandlerReturns
  <2>2. CASE \/ RegisterDeferred \/ HandlerThrows \/ StampSuccessThrows \/ RunCallback
             \/ CallbacksDone \/ Completed \/ Commits \/ CommitThrows \/ UnexpectedRollback
             \/ Abort \/ FailureStampThrows \/ PublishRaw
             \/ PolicyReturns \/ PolicyThrows \/ PolicyCatches \/ HandlerCatches
             \/ PublishDone \/ PublishThrows \/ ParticipantFails
             \/ \E timing \in Publishes : PublishExternal(timing)
    BY <2>2 DEF RegisterDeferred, HandlerThrows, StampSuccessThrows, RunCallback,
          CallbacksDone, Completed, Commits, CommitThrows, UnexpectedRollback, Abort,
          FailureStampThrows, PublishRaw, PolicyReturns, PolicyThrows,
          PolicyCatches, HandlerCatches, PublishDone, PublishThrows, ParticipantFails,
          PublishExternal
  <2> QED
    BY <1>2, <1>3, <1>4, <1>5, <1>6, <1>7, <1>8, <1>10, <2>1, <2>2 DEF Next, Proceed, Call
<1> QED
  BY <1>9, <1>10

\* Numbers grow along the rows of a request that have one, and the next is beyond them.
RowIds == \A i \in 1..Len(rows) : rows[i].req <= ids
Numbered ==
    /\ \A i, j \in 1..Len(rows) :
           i < j /\ rows[i].req = rows[j].req /\ rows[j].order # 0 =>
               rows[i].order < rows[j].order
    /\ \A i \in 1..Len(rows) : Live(rows[i].req) => rows[i].order <= orders[rows[i].req]

\* What is remembered for a request are rows built for it, in their order and as they
\* are in the database; for a live request, all of them.
Holds(r, i) == \E k \in 1..Len(pending[r]) : pending[r][k] = i
Sound(r) ==
    \A k \in 1..Len(pending[r]) :
        LET i == pending[r][k]
        IN  /\ i \in RowsOf(r)
            /\ rows[i].saved => rows[i].mem = rows[i].ok
            /\ \A l \in 1..Len(pending[r]) : k < l => i < pending[r][l]
Remembered ==
    \A r \in RequestIds :
        Sound(r) /\ (Live(r) => \A i \in RowsOf(r) : Holds(r, i))

Ledger == RowIds /\ Numbered /\ Remembered

\* What recording remembers of a row that could be built.
LEMMA RecordPending ==
  ASSUME TrailTypeOK, NEW req \in RequestIds,
         orders' = [orders EXCEPT ![req] = @ + 1],
         pending' = [pending EXCEPT ![req] = Append(@, Len(rows) + 1)]
  PROVE  /\ Len(rows) \in Nat /\ Len(pending[req]) \in Nat
         /\ \A r \in RequestIds : r # req => pending'[r] = pending[r] /\ orders'[r] = orders[r]
         /\ Len(pending'[req]) = Len(pending[req]) + 1
         /\ \A k \in 1..Len(pending[req]) : pending'[req][k] = pending[req][k]
         /\ pending'[req][Len(pending[req]) + 1] = Len(rows) + 1
         /\ orders'[req] = orders[req] + 1 /\ orders[req] \in Nat
<1>1. /\ orders \in [RequestIds -> Nat] /\ Len(rows) \in Nat
      /\ pending \in [RequestIds -> Seq(1..Len(rows))]
  BY DEF TrailTypeOK
<1>2. /\ pending[req] \in Seq(1..Len(rows)) /\ pending'[req] = Append(pending[req], Len(rows) + 1)
  BY <1>1
<1> QED
  BY <1>1, <1>2

\* What a stamp and markEventsFailed do to the rows in memory.
LEMMA StampMem ==
  ASSUME TrailTypeOK, NEW n \in 1..Len(rows), NEW ok \in BOOLEAN, Stamp(n, ok)
  PROVE  /\ pending' = pending /\ orders' = orders
         /\ Holds(rows[n].req, n) /\ rows[n].saved => rows'[n].mem = ok /\ rows'[n].ok = ok
         /\ ~rows[n].saved => rows' = rows
<1>1. rows \in Seq(RowType) /\ rows[n] \in RowType /\ pending' = pending /\ orders' = orders
  BY DEF TrailTypeOK, Stamp
<1>2. ASSUME Holds(rows[n].req, n), rows[n].saved
      PROVE  rows'[n].mem = ok /\ rows'[n].ok = ok
  <2>1. Contains(pending[rows[n].req], n)
    BY <1>2 DEF Holds, Contains
  <2> DEFINE row == [[rows[n] EXCEPT !.ok = ok] EXCEPT !.mem = ok]
  <2>2. rows' = [rows EXCEPT ![n] = row]
    BY <1>1, <1>2, <2>1 DEF Stamp, RowType
  <2>3. row.ok = ok /\ row.mem = ok
    BY <1>1 DEF RowType
  <2> HIDE DEF row
  <2>4. rows'[n] = row
    BY <1>1, <2>2
  <2> QED
    BY <2>3, <2>4
<1> QED
  BY <1>1, <1>2 DEF Stamp

\* markEventsFailed turns every remembered row of the request failed in memory.
LEMMA MarkFailedMem ==
  ASSUME TrailTypeOK, NEW req \in RequestIds, MarkFailed(req)
  PROVE  /\ pending' = pending /\ orders' = orders
         /\ \A i \in 1..Len(rows) : /\ rows'[i].mem = (rows[i].mem /\ ~Holds(req, i))
<1> DEFINE ok(i)  == rows[i].ok /\ ~(rows[i].req = req /\ rows[i].saved)
           mem(i) == rows[i].mem /\ ~Contains(pending[req], i)
           row(i) == [rows[i] EXCEPT !.ok = ok(i), !.mem = mem(i)]
<1>1. /\ rows \in Seq(RowType) /\ \A i \in 1..Len(rows) : rows[i] \in RowType
  BY DEF TrailTypeOK
<1>2. pending' = pending /\ orders' = orders /\ rows' = [i \in 1..Len(rows) |-> row(i)]
  BY DEF MarkFailed
<1>3. ASSUME NEW i \in 1..Len(rows)
      PROVE  row(i).mem = mem(i)
  <2>1. rows[i] \in RowType
    BY <1>1
  <2> HIDE DEF ok, mem
  <2> QED
    BY <2>1 DEF RowType
<1> HIDE DEF row
<1>4. \A i \in 1..Len(rows) : rows'[i] = row(i)
  BY <1>2
<1> QED
  BY <1>2, <1>3, <1>4 DEF Holds, Contains

\* Numbers and remembered rows after a step that records nothing: rows keep their
\* identity, and no request becomes live that has rows.
LEMMA NothingRecorded ==
  ASSUME ChainInv, Requests, Ledger, [Next]_vars, SameRows, TrailTypeOK',
         \A r \in RequestIds :
            \/ pending'[r] = <<>> /\ ~LiveIn(mdc', invs', r)
            \/ /\ pending'[r] = pending[r] /\ orders'[r] = orders[r]
               /\ \A i \in 1..Len(rows) : Holds(r, i) /\ rows'[i].saved /\ rows[i].mem = rows[i].ok =>
                     rows'[i].mem = rows'[i].ok
            \/ ~LiveIn(mdc', invs', r) /\ pending'[r] = pending[r] /\ rows' = rows
  PROVE  Ledger'
<1>1. /\ TrailTypeOK /\ ids \in Nat /\ ids' \in Nat /\ ids' >= ids /\ Len(rows) \in Nat
      /\ pending \in [RequestIds -> Seq(1..Len(rows))]
  <2>1. TypeInv /\ Mdc /\ ids \in Nat /\ TrailTypeOK
    BY DEF ChainInv, TypeInv, HistoryOK
  <2>2. ASSUME NEW saved \in BOOLEAN, Invoke(saved)
        PROVE  ids' = IF mdc # 0 THEN ids ELSE ids + 1
    BY <2>1, <2>2, InvokeEffect
  <2>3. \/ \E saved \in BOOLEAN : Invoke(saved)
        \/ ids' = ids \/ ids' = ids + 1
    BY <2>1, IdsStep
  <2>4. ids' \in Nat /\ ids' >= ids
    BY <2>1, <2>2, <2>3
  <2>5. Len(rows) \in Nat /\ pending \in [RequestIds -> Seq(1..Len(rows))]
    BY <2>1 DEF TrailTypeOK
  <2> QED
    BY <2>1, <2>4, <2>5
<1>2. /\ rows \in Seq(RowType) /\ Len(rows') = Len(rows)
      /\ \A i \in 1..Len(rows) :
            /\ rows[i].req \in RequestIds /\ rows'[i].req = rows[i].req
            /\ rows'[i].order = rows[i].order /\ rows'[i].saved = rows[i].saved
            /\ rows[i].req <= ids
  <2>1. rows \in Seq(RowType) /\ \A i \in 1..Len(rows) : rows[i] \in RowType
    BY <1>1 DEF TrailTypeOK
  <2>2. \A i \in 1..Len(rows) : rows[i].req \in RequestIds
    BY <2>1 DEF RowType
  <2> QED
    BY <2>1, <2>2 DEF SameRows, Ledger, RowIds
<1>3. ASSUME NEW i \in 1..Len(rows), LiveIn(mdc', invs', rows[i].req)
      PROVE  Live(rows[i].req)
  <2>1. rows[i].req \in RequestIds /\ rows[i].req \in Nat /\ rows[i].req <= ids
    BY <1>2, RequestIdsAssumption
  <2> QED
    BY <1>1, <1>3, <2>1, LiveStep
<1>4. RowIds'
  <2> SUFFICES ASSUME NEW i \in 1..Len(rows')
               PROVE  rows'[i].req <= ids'
    BY DEF RowIds
  <2>1. rows'[i].req = rows[i].req /\ rows[i].req \in Nat /\ rows[i].req <= ids
    BY <1>2, RequestIdsAssumption
  <2> QED
    BY <1>1, <2>1
<1>5. Numbered'
  <2>1. ASSUME NEW i \in 1..Len(rows'), NEW j \in 1..Len(rows'), i < j, rows'[i].req = rows'[j].req,
               rows'[j].order # 0
        PROVE  rows'[i].order < rows'[j].order
    BY <1>2, <2>1 DEF Ledger, Numbered
  <2>2. ASSUME NEW i \in 1..Len(rows'), LiveIn(mdc', invs', rows'[i].req)
        PROVE  rows'[i].order <= orders'[rows'[i].req]
    <3>1. Live(rows[i].req) /\ rows'[i].req = rows[i].req /\ rows'[i].order = rows[i].order
      BY <1>2, <1>3, <2>2
    <3>2. rows[i].order <= orders[rows[i].req]
      BY <1>2, <3>1 DEF Ledger, Numbered
    <3>3. orders'[rows[i].req] = orders[rows[i].req]
      BY <1>2, <2>2, <3>1
    <3> QED
      BY <3>1, <3>2, <3>3
  <2> QED
    BY <2>1, <2>2 DEF Numbered, Live
<1>6. ASSUME NEW r \in RequestIds
      PROVE  Sound(r)'
  <2> SUFFICES ASSUME NEW k \in 1..Len(pending'[r])
               PROVE  /\ pending'[r][k] \in RowsOf(r)'
                      /\ rows'[pending'[r][k]].saved => rows'[pending'[r][k]].mem = rows'[pending'[r][k]].ok
                      /\ \A l \in 1..Len(pending'[r]) : k < l => pending'[r][k] < pending'[r][l]
    BY DEF Sound
  <2>0. Len(<<>>) = 0
    OBVIOUS
  <2>1. pending'[r] = pending[r]
    BY <1>6, <2>0
  <2>2. PICK i \in 1..Len(rows) : i = pending[r][k]
    BY <1>1, <2>1
  <2>3. /\ i \in RowsOf(r) /\ (rows[i].saved => rows[i].mem = rows[i].ok)
        /\ \A l \in 1..Len(pending[r]) : k < l => i < pending[r][l]
    BY <2>1, <2>2 DEF Ledger, Remembered, Sound
  <2>4. Holds(r, i)
    BY <2>1, <2>2 DEF Holds
  <2>5. rows'[i].saved => rows'[i].mem = rows'[i].ok
    BY <1>2, <2>0, <2>1, <2>2, <2>3, <2>4
  <2>6. i \in RowsOf(r)'
    BY <1>2, <2>3 DEF RowsOf
  <2> QED
    BY <2>1, <2>2, <2>3, <2>5, <2>6
<1>7. ASSUME NEW r \in RequestIds, LiveIn(mdc', invs', r), NEW i \in RowsOf(r)'
      PROVE  \E k \in 1..Len(pending'[r]) : pending'[r][k] = i
  <2>1. i \in RowsOf(r) /\ i \in 1..Len(rows) /\ rows[i].req = r
    BY <1>2, <1>7 DEF RowsOf
  <2>2. Holds(r, i)
    BY <1>3, <1>7, <2>1 DEF Ledger, Remembered
  <2>3. pending'[r] = pending[r]
    BY <1>7
  <2> QED
    BY <2>2, <2>3 DEF Holds
<1>8. Remembered'
  BY <1>6, <1>7 DEF Remembered, Live, Holds
<1> QED
  BY <1>4, <1>5, <1>8 DEF Ledger

\* After a row has been recorded for a live request.
LEMMA RowRecorded ==
  ASSUME ChainInv, Requests, Ledger, [Next]_vars, Recorded
  PROVE  Ledger'
<1>1. PICK kind \in {"command", "event"}, of \in Nat, r \in RequestIds,
           ok \in BOOLEAN, saved \in BOOLEAN :
                  Record(kind, of, r, ok, saved) /\ LiveIn(mdc', invs', r)
  BY DEF Recorded
<1>2. PICK n \in Nat : n = Len(rows)
  BY DEF ChainInv, TypeInv, TrailTypeOK
<1>3. /\ TrailTypeOK /\ ids \in Nat /\ ids' \in Nat /\ ids' >= ids
      /\ pending \in [RequestIds -> Seq(1..n)] /\ rows \in Seq(RowType)
      /\ RequestIds \subseteq Nat
  <2>1. TypeInv /\ Mdc /\ ids \in Nat /\ TrailTypeOK
    BY DEF ChainInv, TypeInv, HistoryOK
  <2>2. ASSUME NEW s \in BOOLEAN, Invoke(s)
        PROVE  ids' = IF mdc # 0 THEN ids ELSE ids + 1
    BY <2>1, <2>2, InvokeEffect
  <2> QED
    BY <1>2, <2>1, <2>2, IdsStep, RequestIdsAssumption DEF TrailTypeOK
<1>4. /\ Len(rows') = n + 1 /\ \A i \in 1..n : rows'[i] = rows[i]
      /\ LET row == rows'[n + 1]
         IN  /\ row.req = r /\ row.mem = ok /\ row.ok = ok /\ row.saved = saved
             /\ \/ /\ row.order = orders[r] + 1
                   /\ orders' = [orders EXCEPT ![r] = @ + 1]
                   /\ pending' = [pending EXCEPT ![r] = Append(@, Len(rows) + 1)]
                \/ row.order = 0 /\ pending' = pending /\ orders' = orders
  <2>1. /\ Len(rows') = Len(rows) + 1
        /\ \A i \in 1..Len(rows) : rows'[i] = rows[i]
        /\ rows'[Len(rows) + 1].req = r /\ rows'[Len(rows) + 1].saved = saved
        /\ rows'[Len(rows) + 1].ok = ok /\ rows'[Len(rows) + 1].mem = ok
        /\ \/ /\ rows'[Len(rows) + 1].order = orders[r] + 1
              /\ orders' = [orders EXCEPT ![r] = @ + 1]
              /\ pending' = [pending EXCEPT ![r] = Append(@, Len(rows) + 1)]
           \/ rows'[Len(rows) + 1].order = 0 /\ pending' = pending /\ orders' = orders
    BY <1>1, <1>3, RecordFate
  <2> QED
    BY <1>2, <2>1
<1>5. orders \in [RequestIds -> Nat]
  BY <1>3 DEF TrailTypeOK
<1>6. \A i \in 1..n : /\ rows[i].req \in RequestIds /\ rows[i].req \in Nat /\ rows[i].req <= ids
                      /\ rows[i].order \in Nat
  <2>1. \A i \in 1..n : rows[i] \in RowType
    BY <1>2, <1>3
  <2>2. \A i \in 1..n : rows[i].req \in RequestIds /\ rows[i].order \in Nat
    BY <2>1 DEF RowType
  <2> QED
    BY <1>2, <1>3, <2>2 DEF Ledger, RowIds
<1>7. ASSUME NEW i \in 1..n, LiveIn(mdc', invs', rows[i].req)
      PROVE  Live(rows[i].req)
  BY <1>3, <1>6, <1>7, LiveStep
<1>8. RowIds'
  <2> SUFFICES ASSUME NEW i \in 1..Len(rows')
               PROVE  rows'[i].req <= ids'
    BY DEF RowIds
  <2>1. r \in Nat /\ r <= ids'
    BY <1>1, <1>3, LiveStep
  <2>2. CASE i = n + 1
    BY <1>4, <2>1, <2>2
  <2>3. CASE i \in 1..n
    <3>1. rows'[i].req = rows[i].req /\ rows[i].req \in Nat /\ rows[i].req <= ids
      BY <1>4, <1>6, <2>3
    <3> QED
      BY <1>3, <3>1
  <2> QED
    BY <1>2, <1>4, <2>2, <2>3
<1>9. CASE /\ rows'[n + 1].order = orders[r] + 1
             /\ orders' = [orders EXCEPT ![r] = @ + 1]
             /\ pending' = [pending EXCEPT ![r] = Append(@, Len(rows) + 1)]
  <2>1. /\ Len(pending[r]) \in Nat
        /\ \A q \in RequestIds : q # r => pending'[q] = pending[q] /\ orders'[q] = orders[q]
        /\ Len(pending'[r]) = Len(pending[r]) + 1
        /\ \A k \in 1..Len(pending[r]) : pending'[r][k] = pending[r][k]
        /\ pending'[r][Len(pending[r]) + 1] = n + 1
        /\ orders'[r] = orders[r] + 1 /\ orders[r] \in Nat
    BY <1>2, <1>3, <1>9, RecordPending
  <2>2. Numbered'
    <3>1. ASSUME NEW i \in 1..Len(rows'), NEW j \in 1..Len(rows'), i < j, rows'[i].req = rows'[j].req,
                 rows'[j].order # 0
          PROVE  rows'[i].order < rows'[j].order
      <4>1. i \in 1..n /\ rows'[i] = rows[i]
        BY <1>4, <3>1
      <4>2. CASE j \in 1..n
        BY <1>2, <1>4, <3>1, <4>1, <4>2 DEF Ledger, Numbered
      <4>3. CASE j = n + 1
        <5>1. rows[i].req = r /\ rows'[j].order = orders[r] + 1
          BY <1>4, <1>9, <3>1, <4>1, <4>3
        <5>2. Live(rows[i].req)
          BY <1>1, <1>7, <4>1, <5>1
        <5>3. rows[i].order <= orders[r]
          BY <1>2, <4>1, <5>1, <5>2 DEF Ledger, Numbered
        <5> QED
          <6>1. orders[r] \in Nat /\ rows[i].order \in Nat
            BY <1>5, <1>6, <4>1
          <6> QED
            BY <4>1, <5>1, <5>3, <6>1
      <4> QED
        BY <1>4, <4>2, <4>3
    <3>2. ASSUME NEW i \in 1..Len(rows'), LiveIn(mdc', invs', rows'[i].req)
          PROVE  rows'[i].order <= orders'[rows'[i].req]
      <4>1. CASE i = n + 1
        BY <1>4, <1>9, <2>1, <4>1
      <4>2. CASE i \in 1..n
        <5>1. rows[i].order <= orders[rows[i].req] /\ rows'[i] = rows[i]
          BY <1>2, <1>4, <1>7, <3>2, <4>2 DEF Ledger, Numbered
        <5> QED
          BY <2>1, <1>6, <4>2, <5>1
      <4> QED
        BY <1>4, <4>1, <4>2
    <3> QED
      BY <3>1, <3>2 DEF Numbered, Live
  <2>3. ASSUME NEW q \in RequestIds
         PROVE  Sound(q)'
    <3> SUFFICES ASSUME NEW k \in 1..Len(pending'[q])
                 PROVE  /\ pending'[q][k] \in RowsOf(q)'
                        /\ rows'[pending'[q][k]].saved => rows'[pending'[q][k]].mem = rows'[pending'[q][k]].ok
                        /\ \A l \in 1..Len(pending'[q]) : k < l => pending'[q][k] < pending'[q][l]
      BY DEF Sound
    <3>1. CASE k \in 1..Len(pending[q])
      <4>1. pending'[q][k] = pending[q][k] /\ pending[q][k] \in 1..n
        <5>1. pending[q] \in Seq(1..n)
          BY <1>3
        <5>2. pending'[q][k] = pending[q][k]
          BY <2>1, <3>1
        <5> QED
          BY <3>1, <5>1, <5>2
      <4>2. PICK i \in 1..n : i = pending[q][k]
        BY <4>1
      <4>3. /\ i \in RowsOf(q) /\ (rows[i].saved => rows[i].mem = rows[i].ok)
            /\ \A l \in 1..Len(pending[q]) : k < l => i < pending[q][l]
        BY <3>1, <4>2 DEF Ledger, Remembered, Sound
      <4>4. ASSUME NEW l \in 1..Len(pending'[q]), k < l
            PROVE  i < pending'[q][l]
        <5>1. CASE q # r
          BY <2>1, <4>3, <4>4, <5>1
        <5>2. CASE q = r
          <6>1. CASE l = Len(pending[r]) + 1
            BY <2>1, <5>2, <6>1
          <6>2. CASE l \in 1..Len(pending[r])
            BY <2>1, <4>3, <4>4, <5>2, <6>2
          <6> QED
            BY <2>1, <4>4, <5>2, <6>1, <6>2
        <5> QED
          BY <5>1, <5>2
      <4> QED
        BY <1>2, <1>4, <4>1, <4>2, <4>3, <4>4 DEF RowsOf
    <3>2. CASE k \notin 1..Len(pending[q])
      <4>1. q = r /\ k = Len(pending[r]) + 1 /\ pending'[q][k] = n + 1
        BY <2>1, <3>2
      <4> QED
        BY <1>4, <1>9, <2>1, <4>1 DEF RowsOf
    <3> QED
      BY <3>1, <3>2
  <2>4. ASSUME NEW q \in RequestIds, LiveIn(mdc', invs', q), NEW i \in RowsOf(q)'
         PROVE  \E k \in 1..Len(pending'[q]) : pending'[q][k] = i
    <3>1. CASE i = n + 1
      BY <1>4, <1>9, <2>1, <2>4, <3>1 DEF RowsOf
    <3>2. CASE i \in 1..n
      <4>1. Holds(q, i)
        BY <1>2, <1>4, <1>7, <2>4, <3>2 DEF Ledger, Remembered, RowsOf
      <4>2. PICK k \in 1..Len(pending[q]) : pending[q][k] = i
        BY <4>1 DEF Holds
      <4> QED
        BY <2>1, <4>2
    <3> QED
      BY <1>4, <2>4, <3>1, <3>2 DEF RowsOf
  <2>5. Remembered'
    BY <2>3, <2>4 DEF Remembered, Live, Holds
  <2> QED
    BY <1>8, <2>2, <2>5 DEF Ledger
<1>10. CASE rows'[n + 1].order = 0 /\ pending' = pending /\ orders' = orders
  <2>1. \A q \in RequestIds : RowsOf(q)' = RowsOf(q)
    BY <1>2, <1>4, <1>10 DEF RowsOf
  <2>2. Numbered'
    <3>1. ASSUME NEW i \in 1..Len(rows'), NEW j \in 1..Len(rows'), i < j,
                 rows'[i].req = rows'[j].req, rows'[j].order # 0
          PROVE  rows'[i].order < rows'[j].order
      <4>1. i \in 1..n /\ j \in 1..n
        BY <1>4, <1>10, <3>1
      <4> QED
        BY <1>2, <1>4, <3>1, <4>1 DEF Ledger, Numbered
    <3>2. ASSUME NEW i \in 1..Len(rows'), LiveIn(mdc', invs', rows'[i].req)
          PROVE  rows'[i].order <= orders'[rows'[i].req]
      <4>1. CASE i = n + 1
        BY <1>4, <1>5, <1>10, <4>1
      <4>2. CASE i \in 1..n
        BY <1>2, <1>4, <1>7, <1>10, <3>2, <4>2 DEF Ledger, Numbered
      <4> QED
        BY <1>4, <4>1, <4>2
    <3> QED
      BY <3>1, <3>2 DEF Numbered, Live
  <2>3. ASSUME NEW q \in RequestIds
        PROVE  Sound(q)'
    <3>1. \A k \in 1..Len(pending[q]) : pending[q][k] \in 1..n
      <4>1. pending[q] \in Seq(1..n)
        BY <1>3
      <4> QED
        BY <4>1
    <3>2. Sound(q)
      BY DEF Ledger, Remembered
    <3> QED
      BY <1>4, <1>10, <2>1, <3>1, <3>2 DEF Sound
  <2>4. ASSUME NEW q \in RequestIds, LiveIn(mdc', invs', q), NEW i \in RowsOf(q)
        PROVE  Holds(q, i)
    <3>1. i \in 1..n /\ rows[i].req = q
      BY <1>2 DEF RowsOf
    <3> QED
      BY <1>7, <2>4, <3>1 DEF Ledger, Remembered
  <2>5. Remembered'
    BY <1>10, <2>1, <2>3, <2>4 DEF Remembered, Live, Holds
  <2> QED
    BY <1>8, <2>2, <2>5 DEF Ledger
<1> QED
  BY <1>4, <1>9, <1>10

\* Every step keeps the ledger.
LEMMA LedgerStep ==
  ASSUME ChainInv, Requests, External, Ledger, [Next]_vars
  PROVE  Ledger'
<1>1. /\ TrailTypeOK /\ rows \in Seq(RowType) /\ Len(rows) \in Nat
      /\ pending \in [RequestIds -> Seq(1..Len(rows))]
  BY DEF ChainInv, TypeInv, TrailTypeOK
<1>2. CASE UNCHANGED trail
  <2>1. SameRows /\ TrailTypeOK' /\ UNCHANGED <<rows, pending, orders>>
    BY <1>1, <1>2, SameTrail DEF trail, SameRows
  <2> QED
    BY <2>1, NothingRecorded
<1>3. ASSUME NEW n \in 1..Len(rows), NEW ok \in BOOLEAN, Stamp(n, ok)
      PROVE  Ledger'
  <2>1. SameRows /\ TrailTypeOK' /\ \A i \in 1..Len(rows) : i # n => rows'[i] = rows[i]
    BY <1>1, <1>3, StampTrail
  <2>2. /\ pending' = pending /\ orders' = orders
        /\ Holds(rows[n].req, n) /\ rows[n].saved => rows'[n].mem = ok /\ rows'[n].ok = ok
        /\ ~rows[n].saved => rows' = rows
    BY <1>1, <1>3, StampMem
  <2>3. ASSUME NEW r \in RequestIds, NEW i \in 1..Len(rows), Holds(r, i), rows'[i].saved,
               rows[i].mem = rows[i].ok
        PROVE  rows'[i].mem = rows'[i].ok
    <3>1. CASE i # n
      BY <2>1, <2>3, <3>1
    <3>2. CASE i = n
      <4>1. rows[n].saved
        BY <2>1, <2>3, <3>2 DEF SameRows
      <4>2. rows[n].req = r
        BY <2>3, <3>2 DEF Ledger, Remembered, Sound, Holds, RowsOf
      <4> QED
        BY <2>2, <2>3, <3>2, <4>1, <4>2
    <3> QED
      BY <3>1, <3>2
  <2> QED
    BY <2>1, <2>2, <2>3, NothingRecorded
<1>4. ASSUME NEW q \in RequestIds, MarkFailed(q)
      PROVE  Ledger'
  <2>1. /\ SameRows /\ TrailTypeOK'
        /\ \A i \in 1..Len(rows) : rows'[i].ok = (rows[i].ok /\ ~(rows[i].req = q /\ rows[i].saved))
    BY <1>1, <1>4, MarkFailedTrail
  <2>2. /\ pending' = pending /\ orders' = orders
        /\ \A i \in 1..Len(rows) : rows'[i].mem = (rows[i].mem /\ ~Holds(q, i))
    BY <1>1, <1>4, MarkFailedMem
  <2>3. ASSUME NEW r \in RequestIds, NEW i \in 1..Len(rows), Holds(r, i), rows'[i].saved,
               rows[i].mem = rows[i].ok
        PROVE  rows'[i].mem = rows'[i].ok
    <3>1. rows[i].saved
      BY <2>1, <2>3 DEF SameRows
    <3>2. rows[i].req = r /\ (Holds(q, i) => rows[i].req = q)
      BY <2>3 DEF Ledger, Remembered, Sound, Holds, RowsOf
    <3>3. Holds(q, i) <=> rows[i].req = q
      BY <2>3, <3>2
    <3> QED
      BY <2>1, <2>2, <2>3, <3>1, <3>3
  <2> QED
    BY <2>1, <2>2, <2>3, NothingRecorded
<1>5. CASE Drained
  <2>1. PICK q \in RequestIds : Drain(q) /\ ~LiveIn(mdc', invs', q)
    BY <1>5 DEF Drained
  <2>2. TrailTypeOK' /\ rows' = rows /\ orders' = orders /\ SameRows
    BY <1>1, <2>1, DrainTrail DEF SameRows
  <2>3. pending'[q] = <<>> /\ \A r \in RequestIds : r # q => pending'[r] = pending[r]
    BY <1>1, <2>1 DEF Drain
  <2> QED
    BY <2>1, <2>2, <2>3, NothingRecorded
<1>6. CASE Forgotten
  <2>1. TrailTypeOK' /\ rows' = rows /\ SameRows
    BY <1>1, <1>6, ForgetTrail DEF SameRows, Forgotten
  <2>2. \A r \in RequestIds : pending'[r] = <<>> /\ ~LiveIn(mdc', invs', r)
    BY <1>6 DEF Forgotten, Forget
  <2> QED
    BY <2>1, <2>2, NothingRecorded
<1> QED
  BY <1>2, <1>3, <1>4, <1>5, <1>6, RowRecorded, TrailStep

\* It always holds.
LEMMA LedgerCorrect == Spec => []Ledger
<1>1. Init => Ledger
  <2>1. Len(<<>>) = 0
    OBVIOUS
  <2> SUFFICES ASSUME Init
               PROVE  Ledger
    OBVIOUS
  <2>2. rows = <<>> /\ \A r \in RequestIds : pending[r] = <<>>
    BY DEF Init, TrailInit
  <2> QED
    BY <2>1, <2>2 DEF Ledger, RowIds, Numbered, Remembered, Sound, RowsOf
<1>2. ChainInv /\ Requests /\ External /\ Ledger /\ [Next]_vars => Ledger'
  BY LedgerStep
<1>3. Spec => []Requests
  BY OutcomeCorrect, PTL DEF OutcomeInv
<1> QED
  BY <1>1, <1>2, <1>3, ChainCorrect, ExternalCorrect, PTL DEF Spec

-----------------------------------------------------------------------------
\* A failed top-level command has marked what is remembered of its request.
Thrown ==
    \A i \in Invoking : stack[i].step = "throw" /\ ~Of(i).nested =>
        \A k \in 1..Len(pending[Of(i).req]) : rows[pending[Of(i).req][k]].mem = FALSE

\* Only the failure path leads to a throw.
LEMMA BeforeThrow ==
  ASSUME ChainInv, Next, NEW i \in Invoking', stack'[i].step = "throw"
  PROVE  /\ StampFailure \/ MarkEventsFailed \/ FailureStampThrows
         /\ Running /\ Top.kind = "invoke" /\ i = Len(stack) /\ i \in Invoking
         /\ Goto("throw")
<1>1. TypeInv /\ Shape /\ Txn
  BY DEF ChainInv
<1>2. \A j \in Invoking : j # Len(stack) => stack[j].step \in {"handle", "register", "afterCommit"}
  BY <1>1, WaitingInvocation
<1>3. ASSUME NEW s \in InvokeSteps, MoveInvocation(s)
      PROVE  s = "throw" /\ i = Len(stack) /\ i \in Invoking
  BY <1>2, <1>3 DEF MoveInvocation
<1>4. CASE Untouched
  <2>1. i \in Invoking /\ stack[i].step = "throw"
    BY <1>4 DEF Untouched, SameInvocations
  <2>2. i = Len(stack) /\ stack[i].kind = "invoke" /\ stack[i] = Top /\ Running
    BY <1>1, <1>2, <2>1, TopFrame DEF Invoking, Running, Top, Last, TypeInv, StackOK
  <2> QED
    BY <1>4, <2>1, <2>2 DEF Untouched
<1>5. ASSUME NEW s \in InvokeSteps, Onwards(s)
      PROVE  /\ StampFailure \/ MarkEventsFailed \/ FailureStampThrows
             /\ Running /\ Top.kind = "invoke" /\ i = Len(stack) /\ i \in Invoking
             /\ Goto("throw")
  <2>1. MoveInvocation(s) /\ Running /\ Top.kind = "invoke" /\ Goto(s)
    BY <1>1, <1>5, MovesInvocation DEF Onwards
  <2>2. s = "throw" /\ i = Len(stack) /\ i \in Invoking
    BY <1>3, <2>1
  <2>3. ~exc /\ Top.step \in {"stampFailure", "markFailed"}
    BY <1>5, <2>2 DEF Onwards
  <2>4. stack' # <<>>
    <3>1. Len(<<>>) = 0
      OBVIOUS
    <3> QED
      BY <3>1 DEF Invoking
  <2>5. ~MayCall /\ ~ParticipantFails /\ ~Crash
    BY <2>1, <2>3, <2>4 DEF MayCall, At, ParticipantFails, Crash
  <2>6. Proceed
    BY <2>5 DEF Next, Call, Invoke, PublishExternal
  <2>7. StampFailure \/ MarkEventsFailed \/ FailureStampThrows
    BY <2>1, <2>3, <2>6 DEF Proceed, At, HandlerReturns, HandlerThrows, RegisterDeferred,
          StampSuccess, StampSuccessThrows, Commits, CommitThrows, UnexpectedRollback,
          RunCallback, CallbacksDone, LogDeferred, Completed, Abort, Finish, PublishWrapper,
          PublishRaw, PublishDone, PublishThrows, PolicyReturns, PolicyThrows, PolicyCatches,
          HandlerCatches
  <2> QED
    BY <2>1, <2>2, <2>7
<1>6. CASE Handled
  <2>1. MoveInvocation("register") /\ "register" \in InvokeSteps
    BY <1>6 DEF Handled, InvokeSteps
  <2> QED
    BY <1>3, <2>1
<1>7. CASE Settles
  <2>1. PICK s \in {"afterCommit", "stampFailure", "return"} :
           Running /\ Top.kind = "invoke" /\ Goto(s)
    BY <1>7 DEF Settles, Commits, CommitThrows, UnexpectedRollback, Abort, At
  <2>2. s \in InvokeSteps /\ s # "throw"
    BY DEF InvokeSteps
  <2>3. MoveInvocation(s)
    BY <1>1, <2>1, <2>2, MovesInvocation
  <2> QED
    BY <1>3, <2>2, <2>3
<1>8. ASSUME NEW saved \in BOOLEAN, Invoke(saved)
      PROVE  FALSE
  <2>1. NewInvocation /\ MayCall
    BY <1>1, <1>8, InvokeEffect
  <2>2. \A j \in Invoking : stack[j].step \in {"handle", "register", "afterCommit"}
    BY <1>1, <2>1, CallableInvocation
  <2> QED
    BY <2>1, <2>2 DEF NewInvocation
<1>9. ASSUME NEW s \in {"return", "throw"}, Finish(s)
      PROVE  FALSE
  <2>1. EndInvocation
    BY <1>1, <1>9, FinishInvocation
  <2> QED
    BY <1>2, <2>1 DEF EndInvocation
<1>10. CASE Crash
  <2>1. stack' = <<>> /\ Len(<<>>) = 0
    BY <1>10 DEF Crash
  <2> QED
    BY <2>1 DEF Invoking
<1> QED
  BY <1>4, <1>5, <1>6, <1>7, <1>8, <1>9, <1>10, StepKinds

\* If no stamp fails, a top-level command gets there by markEventsFailed.
LEMMA ThrownStep ==
  ASSUME ~StampsFail, ChainInv, Ledger, Thrown, [Next]_vars
  PROVE  Thrown'
<1>1. CASE UNCHANGED vars
  BY <1>1 DEF vars, trail, Thrown, Invoking, Of
<1>2. CASE Next
  <2> SUFFICES ASSUME NEW i \in Invoking', stack'[i].step = "throw", ~Of(i)'.nested,
                      NEW k \in 1..Len(pending'[Of(i)'.req])
               PROVE  rows'[pending'[Of(i)'.req][k]].mem = FALSE
    BY DEF Thrown
  <2>1. /\ StampFailure \/ MarkEventsFailed \/ FailureStampThrows
        /\ Running /\ Top.kind = "invoke" /\ i = Len(stack) /\ i \in Invoking /\ Goto("throw")
    BY <1>2, BeforeThrow
  <2>2. /\ TypeInv /\ Inv = Of(i) /\ Inv.req \in RequestIds /\ TrailTypeOK
        /\ KnownInvs
    BY <1>2, <2>1, TopInvocation, KnownInvsStep DEF ChainInv, TypeInv
  <2>3. stack'[i].inv = stack[i].inv
    BY <2>1, <2>2, MovesInvocation DEF MoveInvocation, InvokeSteps
  <2>4. Of(i)'.req = Inv.req /\ ~Inv.nested
    BY <2>1, <2>2, <2>3, KnownOf
  <2>5. MarkEventsFailed
    <3>1. ~FailureStampThrows
      BY DEF FailureStampThrows
    <3>2. ASSUME StampFailure
          PROVE  FALSE
      <4>1. Goto("markFailed")
        BY <2>4, <3>2 DEF StampFailure
      <4>2. MoveInvocation("markFailed")
        BY <2>1, <2>2, <4>1, MovesInvocation DEF InvokeSteps
      <4> QED
        BY <2>1, <4>2 DEF MoveInvocation
    <3> QED
      BY <2>1, <3>1, <3>2
  <2>6. /\ pending' = pending
        /\ \A j \in 1..Len(rows) : rows'[j].mem = (rows[j].mem /\ ~Holds(Inv.req, j))
    BY <2>2, <2>5, MarkFailedMem DEF MarkEventsFailed
  <2>7. pending'[Inv.req][k] \in 1..Len(rows) /\ Holds(Inv.req, pending'[Inv.req][k])
    BY <2>2, <2>4, <2>6 DEF TrailTypeOK, Holds
  <2> QED
    BY <2>4, <2>6, <2>7
<1> QED
  BY <1>1, <1>2

\* Everything a snapshot depends on.
TrailInv == ChainInv /\ Requests /\ Ledger /\ Snaps

\* It always holds.
LEMMA TrailCorrect == Spec => []TrailInv
BY ChainCorrect, OutcomeCorrect, LedgerCorrect, SnapsCorrect, PTL DEF OutcomeInv, TrailInv

\* It always holds, if no stamp fails.
LEMMA ThrownCorrect ==
  ASSUME ~StampsFail
  PROVE  Spec => []Thrown
<1>1. Init => Thrown
  <2>1. Len(<<>>) = 0
    OBVIOUS
  <2> QED
    BY <2>1 DEF Init, Thrown, Invoking
<1>2. TrailInv /\ Thrown /\ [Next]_vars => Thrown'
  BY ThrownStep DEF TrailInv
<1> QED
  BY <1>1, <1>2, TrailCorrect, PTL DEF Spec

\* What is handed to the after-transaction handler.
LEMMA SnapshotShown ==
  ASSUME TrailInv, Thrown, [Next]_vars, snapshots' # snapshots
  PROVE  LET s == Last(snapshots')
             shown == {s.rows[k].row : k \in 1..Len(s.rows)}
         IN  /\ shown = RowsOf(invs[s.inv].req)
             /\ \A k \in 1..Len(s.rows) :
                    /\ k > 1 => s.rows[k - 1].row < s.rows[k].row
                    /\ rows[s.rows[k].row].saved => s.rows[k].ok = rows[s.rows[k].row].ok
                    /\ s.rows[k].ok => s.committed
<1>1. PICK s \in {"return", "throw"} : Finish(s)
  BY SnapshotsStep
<1>2. /\ TypeInv /\ Running /\ Top.kind = "invoke" /\ Top.step = s /\ ~exc
      /\ snapshots \in Seq(SnapshotType)
  BY <1>1 DEF Finish, At, TrailInv, ChainInv, Snaps
<1>3. ~Inv.nested /\ snapshots' = Snapshot(s = "return")
  BY <1>1 DEF Finish
<1>4. /\ Top.inv \in 1..Len(invs) /\ Inv = invs[Top.inv] /\ Inv.req \in RequestIds
      /\ Len(stack) \in Invoking /\ Inv = Of(Len(stack)) /\ Top = stack[Len(stack)]
      /\ Inv.outcome = "running"
  BY <1>2, TopInvocation, TopRuns DEF TrailInv, Requests
<1> DEFINE p == pending[Inv.req]
           m == Len(p)
           shown == [k \in 1..m |-> [row |-> p[k], ok |-> rows[p[k]].mem]]
           new == [inv |-> Top.inv, committed |-> (s = "return"), rows |-> shown]
<1>5. snapshots' = Append(snapshots, new)
  BY <1>3 DEF Snapshot
<1>6. p \in Seq(1..Len(rows)) /\ m \in Nat /\ rows \in Seq(RowType)
  BY <1>2, <1>4 DEF TypeInv, TrailTypeOK
<1>7. new.inv = Top.inv /\ new.rows = shown /\ new.committed = (s = "return")
  OBVIOUS
<1>8. Len(shown) = m /\ \A k \in 1..m : shown[k].row = p[k] /\ shown[k].ok = rows[p[k]].mem
  <2>1. \A k \in 1..m : shown[k].row = p[k] /\ shown[k].ok = rows[p[k]].mem
    OBVIOUS
  <2>2. Len(shown) = m
    <3> DEFINE item(k) == [row |-> p[k], ok |-> rows[p[k]].mem]
    <3>1. shown = [k \in 1..m |-> item(k)] /\ m \in Nat
      BY <1>6
    <3> HIDE DEF item, m, shown
    <3> QED
      BY <3>1
  <2> QED
    BY <2>1, <2>2
<1> HIDE DEF shown, new
<1>9. Last(snapshots') = new
  <2>1. Len(snapshots) \in Nat
    BY <1>2
  <2>2. Len(snapshots') = Len(snapshots) + 1 /\ snapshots'[Len(snapshots) + 1] = new
    BY <1>2, <1>5, <2>1
  <2> QED
    BY <2>2 DEF Last
<1>10. /\ Live(Inv.req) /\ Sound(Inv.req)
       /\ \A i \in RowsOf(Inv.req) : Holds(Inv.req, i)
  <2>1. Live(Inv.req)
    BY <1>4 DEF Live, LiveIn
  <2> QED
    BY <1>4, <2>1 DEF TrailInv, Ledger, Remembered
<1>11. {shown[k].row : k \in 1..m} = RowsOf(Inv.req)
  <2>1. ASSUME NEW k \in 1..m
        PROVE  shown[k].row \in RowsOf(Inv.req)
    <3>1. p[k] \in RowsOf(Inv.req)
      BY <1>10 DEF Sound
    <3> QED
      BY <1>8, <3>1
  <2>2. ASSUME NEW i \in RowsOf(Inv.req)
        PROVE  \E k \in 1..m : shown[k].row = i
    <3>1. PICK k \in 1..m : p[k] = i
      BY <1>10 DEF Holds
    <3> QED
      BY <1>8, <3>1
  <2> QED
    BY <2>1, <2>2
<1>12. ASSUME NEW k \in 1..m
       PROVE  /\ k > 1 => shown[k - 1].row < shown[k].row
              /\ rows[shown[k].row].saved => shown[k].ok = rows[shown[k].row].ok
              /\ shown[k].ok => s = "return"
  <2>1. shown[k].row = p[k] /\ shown[k].ok = rows[p[k]].mem
    BY <1>8
  <2>2. rows[p[k]].saved => rows[p[k]].mem = rows[p[k]].ok
    BY <1>10 DEF Sound
  <2>3. k > 1 => shown[k - 1].row < shown[k].row
    <3>1. CASE k > 1
      <4>1. k - 1 \in 1..m /\ k - 1 < k
        BY <1>6, <3>1
      <4>2. p[k - 1] < p[k]
        BY <1>10, <4>1 DEF Sound
      <4> QED
        BY <1>8, <2>1, <4>1, <4>2
    <3> QED
      BY <3>1
  <2>4. CASE s = "throw"
    <3>1. rows[p[k]].mem = FALSE
      BY <1>2, <1>3, <1>4, <2>4 DEF Thrown
    <3> QED
      BY <2>1, <2>2, <2>3, <3>1
  <2>5. CASE s = "return"
    BY <2>1, <2>2, <2>3, <2>5
  <2> QED
    BY <2>4, <2>5
<1> QED
  BY <1>4, <1>7, <1>8, <1>9, <1>11, <1>12

\* If no stamp fails, the after-transaction handler of a top-level command gets every
\* row of the chain, in order and as it stands in the database, and a failed chain has
\* no row that is called successful.
THEOREM HandlerGetsTheTrail ==
  ASSUME ~StampsFail
  PROVE  Spec => SnapshotIsTheTrail
<1> DEFINE A == snapshots' # snapshots =>
              LET s == Last(snapshots')
                  shown == {s.rows[k].row : k \in 1..Len(s.rows)}
              IN  /\ shown = RowsOf(invs[s.inv].req)
                  /\ \A k \in 1..Len(s.rows) :
                         /\ k > 1 => s.rows[k - 1].row < s.rows[k].row
                         /\ rows[s.rows[k].row].saved => s.rows[k].ok = rows[s.rows[k].row].ok
                         /\ s.rows[k].ok => s.committed
<1>1. TrailInv /\ Thrown /\ [Next]_vars => [A]_vars
  BY SnapshotShown
<1>2. Spec => []Thrown
  BY ThrownCorrect
<1> QED
  BY <1>1, <1>2, TrailCorrect, PTL DEF Spec, SnapshotIsTheTrail

(***************************************************************************)
(* Deferred events wait for their transaction.  Wherever one is published, *)
(* told of or delivered, the writes of its command are committed; the ones *)
(* registered for after the commit are of commands whose writes are open   *)
(* until then.                                                             *)
(***************************************************************************)
FinalIn(evs, is, e) == evs[e].by # 0 /\ evs[e].timing = "deferred" =>
                           is[evs[e].by].write = "committed"
Final(e) == FinalIn(events, invs, e)
Emitter == \A e \in 1..Len(events) : events[e].by \in 0..Len(invs)

Released ==
    /\ \A i \in Publishing : \A k \in 1..Len(stack[i].todo) : Final(stack[i].todo[k])
    /\ \A e \in 1..Len(events) : Told(e) \/ events[e].delivered # 0 => Final(e)

OwnQueue == \A i \in Invoking : \A k \in 1..Len(stack[i].deferred) :
                events[stack[i].deferred[k]].by = stack[i].inv
RegisterOpen == \A i \in Invoking : stack[i].step = "register" /\ tx.phase = "active" =>
                    Of(i).write = "open" \/ (i = Len(stack) /\ exc = TRUE)
\* The events of callback b, and of the first c callbacks, are of commands with writes w.
Bears(b, w) == \A k \in 1..Len(tx.callbacks[b].events) :
                   LET n == events[tx.callbacks[b].events[k]].by
                   IN  n \in 1..Len(invs) /\ invs[n].write = w
Registered(c, w) == \A b \in 1..Len(tx.callbacks) : b <= c => Bears(b, w)
Awaiting == /\ tx.phase = "active" => Registered(Len(tx.callbacks), "open")
            /\ tx.phase = "afterCommit" => Registered(tx.due, "committed")

Deferring == Emitter /\ Released /\ OwnQueue /\ RegisterOpen /\ Awaiting

\* What a step does to the callbacks while there is a transaction to wait for.
LEMMA CallbacksStep ==
  ASSUME ChainInv, [Next]_vars
  PROVE  \/ tx'.phase \notin {"active", "afterCommit"}
         \/ tx'.phase = tx.phase /\ tx'.callbacks = tx.callbacks /\ tx'.due = tx.due
         \/ /\ RegisterDeferred /\ tx'.phase = tx.phase /\ tx'.due = tx.due
            /\ \E d : d.events = Top.deferred /\ tx'.callbacks = Append(tx.callbacks, d)
         \/ /\ RunCallback /\ tx'.phase = tx.phase /\ tx.due > 0 /\ tx'.due = tx.due - 1
            /\ tx'.callbacks = Tail(tx.callbacks)
         \/ /\ Commits /\ tx.phase = "active" /\ tx'.phase = "afterCommit"
            /\ tx'.callbacks = tx.callbacks /\ tx'.due = Len(tx.callbacks)
         \/ /\ \E saved \in BOOLEAN : Invoke(saved)
            /\ tx.phase = "none" /\ tx'.phase = "active" /\ tx'.callbacks = <<>>
<1>1. TypeInv /\ Txn /\ TxOK /\ tx \in TxType
  BY DEF ChainInv, TypeInv, TxOK
<1>2. CASE UNCHANGED tx
  BY <1>2
<1>3. CASE RegisterDeferred /\ ~UNCHANGED tx
  <2>1. \E d : d.events = Top.deferred /\ RegisterCallback(d)
    BY <1>3 DEF RegisterDeferred
  <2>2. \A d : RegisterCallback(d) => tx'.due = tx.due
    BY <1>1 DEF RegisterCallback, TxType
  <2> QED
    BY <1>1, <1>3, <2>1, <2>2, TxFields
<1>4. CASE RunCallback
  <2>1. CallbackTaken /\ tx.due > 0
    BY <1>4 DEF RunCallback
  <2>2. tx'.due = tx.due - 1
    BY <1>1, <2>1 DEF CallbackTaken, TxType
  <2> QED
    BY <1>1, <1>4, <2>1, <2>2, TxFields
<1>5. CASE Commits
  <2>1. EnterAfterCommit /\ Running /\ Top.kind = "invoke" /\ Top.step = "commit"
    BY <1>5 DEF Commits, At
  <2>2. tx'.due = Len(tx.callbacks)
    BY <1>1, <2>1 DEF EnterAfterCommit, TxType
  <2>3. Len(stack) \in Invoking /\ Top = stack[Len(stack)] /\ Inv = Of(Len(stack))
    BY <1>1, <2>1, TopInvocation
  <2>4. tx.phase = "active"
    BY <1>1, <2>1, <2>3 DEF Txn, Phased, PhaseAt
  <2> QED
    BY <1>1, <1>5, <2>1, <2>2, <2>4, TxFields
<1>6. ASSUME NEW saved \in BOOLEAN, Invoke(saved), ~UNCHANGED tx
      PROVE  tx.phase = "none" /\ tx'.phase = "active" /\ tx'.callbacks = <<>>
  <2>1. Begin /\ ~InTransaction
    BY <1>6 DEF Invoke
  <2> QED
    BY <1>1, <2>1, TxFields DEF InTransaction
<1>7. CASE CommitThrows \/ UnexpectedRollback \/ CallbacksDone \/ Completed \/ Abort \/ Crash
  <2>1. End \/ EnterAfterCompletion \/ UNCHANGED tx
    BY <1>7 DEF CommitThrows, UnexpectedRollback, CallbacksDone, Completed, Abort, Crash
  <2> QED
    BY <1>1, <1>2, <2>1, TxFields
<1>8. CASE \/ ParticipantFails \/ Wrapping \/ \E saved \in BOOLEAN : LogDeferred(saved)
  <2>1. SetRollbackOnly \/ (\E e : DeferListener(e)) \/ ListenerTaken \/ UNCHANGED tx
    BY <1>8 DEF ParticipantFails, Wrapping, PublishWrapper, LogDeferred
  <2>2. SetRollbackOnly \/ (\E e : DeferListener(e)) \/ ListenerTaken => tx'.due = tx.due
    BY <1>1 DEF SetRollbackOnly, DeferListener, ListenerTaken, TxType
  <2> QED
    BY <1>1, <1>2, <2>1, <2>2, TxFields
<1>9. \/ UNCHANGED tx \/ RegisterDeferred \/ RunCallback \/ Commits
      \/ \E saved \in BOOLEAN : Invoke(saved)
      \/ CommitThrows \/ UnexpectedRollback \/ CallbacksDone \/ Completed \/ Abort \/ Crash
      \/ ParticipantFails \/ Wrapping \/ \E saved \in BOOLEAN : LogDeferred(saved)
  BY DEF Next, Proceed, Call, vars, HandlerReturns, HandlerThrows, StampSuccess,
     StampSuccessThrows, StampFailure, MarkEventsFailed, FailureStampThrows, Finish, Wrapping,
     PublishRaw, PublishDone, PublishThrows, PublishExternal, PolicyReturns, PolicyThrows,
     PolicyCatches, HandlerCatches
<1> QED
  BY <1>2, <1>3, <1>4, <1>5, <1>6, <1>7, <1>8, <1>9

\* Committed writes stay committed.
LEMMA StayCommitted ==
  ASSUME ChainInv, FrameWrites, [Next]_vars, NEW n \in 1..Len(invs), invs[n].write = "committed"
  PROVE  invs'[n].write = "committed"
BY CommittedStep, CommitsEffect

\* Open writes stay open as long as the transaction is active.
LEMMA StayOpen ==
  ASSUME ChainInv, FrameWrites, [Next]_vars, tx'.phase = "active",
         NEW n \in 1..Len(invs), invs[n].write = "open"
  PROVE  invs'[n].write = "open"
<1>1. TypeInv /\ TxOK
  BY DEF ChainInv, TypeInv
<1>2. CASE UNCHANGED invs
  BY <1>2
<1>3. CASE \E s \in InvokeSteps : Onwards(s)
  BY <1>2, <1>3 DEF Onwards
<1>4. CASE Handled
  <2>1. /\ Running /\ Top.kind = "invoke" /\ Top.step = "handle" /\ ~exc
        /\ \A j \in 1..Len(invs) : j # Top.inv => invs'[j] = invs[j]
    BY <1>4 DEF Handled
  <2>2. Inv.write = "none" /\ Inv = invs[Top.inv]
    BY <2>1, TopFits DEF Fits
  <2> QED
    BY <2>1, <2>2
<1>5. CASE Settles
  <2>1. EnterAfterCommit \/ End \/ UNCHANGED <<tx, invs>>
    BY <1>5 DEF Settles, Commits, CommitThrows, UnexpectedRollback, Abort
  <2> QED
    BY <1>1, <1>2, <2>1, TxFields
<1>6. ASSUME NEW saved \in BOOLEAN, Invoke(saved)
      PROVE  invs'[n].write = "open"
  BY <1>1, <1>6, InvokeEffect
<1>7. ASSUME NEW s \in {"return", "throw"}, Finish(s)
      PROVE  invs'[n].write = "open"
  <2>1. Running /\ Top.kind = "invoke" /\ invs' = Ended(s)
    BY <1>7 DEF Finish, At
  <2> QED
    BY <1>1, <2>1, EndedInvs DEF Inv
<1>8. CASE Crash
  BY <1>1, <1>8, TxFields DEF Crash
<1> QED
  BY <1>2, <1>3, <1>4, <1>5, <1>6, <1>7, <1>8, StepKinds DEF Untouched, vars

\* The emitter of an event stays known.
LEMMA EmitterStep ==
  ASSUME ChainInv, Emitter, [Next]_vars
  PROVE  Emitter'
<1>1. TypeInv /\ KnownEvents /\ Len(invs) \in Nat /\ events \in Seq(EventType) /\ Len(events) \in Nat
  BY KnownEventsStep DEF ChainInv, TypeInv, HistoryOK
<1>2. Len(invs') \in Nat /\ Len(invs') >= Len(invs)
  <2>1. Next => KnownInvs
    BY <1>1, KnownInvsStep
  <2>2. UNCHANGED vars => Len(invs') = Len(invs)
    BY DEF vars
  <2> QED
    BY <1>1, <2>1, <2>2 DEF KnownInvs
<1>3. CASE Len(events') = Len(events)
  BY <1>1, <1>2, <1>3 DEF KnownEvents, Emitter
<1>4. ASSUME NEW nNow \in 0..MaxEvents, NEW nLater \in 0..MaxEvents, HandlerReturns(nNow, nLater)
      PROVE  Emitter'
  <2>1. /\ NewEvents(Top.inv, nNow, nLater) /\ Top.inv \in 1..Len(invs)
    BY <1>1, <1>4, HandlerReturnsEffect, TopInvocation DEF HandlerReturns, At
  <2>2. \A e \in 1..Len(events') : e \in 1..Len(events) \/ e \in (Len(events) + 1)..Len(events')
    BY <1>1 DEF KnownEvents
  <2>3. \A e \in 1..Len(events') : events'[e].by = Top.inv \/ events'[e].by \in 0..Len(invs)
    BY <1>1, <2>1, <2>2 DEF NewEvents, Emitter, KnownEvents
  <2> QED
    BY <1>1, <1>2, <2>1, <2>3 DEF Emitter
<1>5. ASSUME NEW timing \in Publishes, PublishExternal(timing)
      PROVE  Emitter'
  <2> DEFINE v == [by |-> 0, timing |-> timing, delivered |-> 0]
  <2>1. events' = Append(events, v) /\ v.by = 0
    BY <1>5 DEF PublishExternal
  <2> HIDE DEF v
  <2>2. /\ Len(events') = Len(events) + 1 /\ \A e \in 1..Len(events) : events'[e] = events[e]
        /\ events'[Len(events) + 1] = v
    BY <1>1, <2>1, AppendProperties
  <2>3. \A e \in 1..Len(events') : e \in 1..Len(events) \/ e = Len(events) + 1
    BY <1>1, <2>2
  <2>4. \A e \in 1..Len(events') : events'[e].by = 0 \/ events'[e].by \in 0..Len(invs)
    BY <2>1, <2>2, <2>3 DEF Emitter
  <2> QED
    BY <1>1, <1>2, <2>4 DEF Emitter
<1>6. \/ PublishRaw \/ UNCHANGED events
      \/ \E nNow, nLater \in 0..MaxEvents : HandlerReturns(nNow, nLater)
      \/ \E timing \in Publishes : PublishExternal(timing)
  BY DEF Next, Proceed, Call, Invoke, ParticipantFails, HandlerThrows, RegisterDeferred,
     StampSuccess, StampSuccessThrows, Commits, CommitThrows, UnexpectedRollback, RunCallback,
     CallbacksDone, LogDeferred, Completed, Abort, StampFailure, MarkEventsFailed,
     FailureStampThrows, Finish, PublishWrapper, PublishDone, PublishThrows, PolicyReturns,
     PolicyThrows, PolicyCatches, HandlerCatches, Crash, vars
<1>7. PublishRaw => Len(events') = Len(events)
  BY DeliverStep
<1> QED
  BY <1>3, <1>4, <1>5, <1>6, <1>7

\* A step keeps what is final about an event.
LEMMA FinalKept ==
  ASSUME ChainInv, FrameWrites, Emitter, [Next]_vars, NEW e \in 1..Len(events), Final(e)
  PROVE  FinalIn(events', invs', e)
<1>1. KnownEvents /\ events[e].by \in 0..Len(invs)
  BY KnownEventsStep DEF ChainInv, Emitter
<1>2. events'[e].by = events[e].by /\ events'[e].timing = events[e].timing
  BY <1>1 DEF KnownEvents
<1>3. CASE events[e].by # 0 /\ events[e].timing = "deferred"
  <2>1. invs[events[e].by].write = "committed" /\ events[e].by \in 1..Len(invs)
    <3>1. Len(invs) \in Nat
      BY DEF ChainInv, TypeInv, HistoryOK
    <3> QED
      BY <1>1, <1>3, <3>1 DEF Final, FinalIn
  <2>2. invs'[events[e].by].write = "committed"
    BY <2>1, StayCommitted
  <2> QED
    BY <1>2, <2>2 DEF Final, FinalIn
<1> QED
  BY <1>2, <1>3 DEF Final, FinalIn

\* What an invocation has queued it emitted itself.
LEMMA OwnQueueStep ==
  ASSUME ChainInv, Emitted, OwnQueue, [Next]_vars
  PROVE  OwnQueue'
<1>1. TypeInv /\ KnownEvents /\ StackKept /\ Queued
  BY StackStep, KnownEventsStep DEF ChainInv, Emitted
<1>2. PICK n \in Nat : n = Len(stack)
  BY <1>1 DEF TypeInv, StackOK
<1>3. SUFFICES ASSUME NEW i \in Invoking', NEW k \in 1..Len(stack'[i].deferred)
               PROVE  events'[stack'[i].deferred[k]].by = stack'[i].inv
  BY DEF OwnQueue
<1>4. i \in 1..Len(stack') /\ stack'[i].kind = "invoke" /\ i <= n + 1
  BY <1>1, <1>2 DEF Invoking, StackKept
<1>5. ASSUME i <= n, stack'[i].deferred = stack[i].deferred
      PROVE  events'[stack'[i].deferred[k]].by = stack'[i].inv
  <2>1. Keeps(i)
    BY <1>1, <1>2, <1>4, <1>5 DEF StackKept
  <2>2. i \in Invoking /\ stack'[i].inv = stack[i].inv
    BY <1>4, <2>1 DEF Keeps, Invoking
  <2>3. /\ events[stack[i].deferred[k]].by = stack[i].inv
        /\ stack[i].deferred[k] \in 1..Len(events)
    BY <1>1, <1>5, <2>2 DEF OwnQueue, Queued, From, Tells
  <2> QED
    BY <1>1, <1>5, <2>2, <2>3 DEF KnownEvents
<1>6. CASE i <= n /\ ~Dispatching
  BY <1>1, <1>2, <1>5, <1>6 DEF StackKept
<1>7. ASSUME i <= n, NEW nNow \in 0..MaxEvents, NEW nLater \in 0..MaxEvents,
             HandlerReturns(nNow, nLater)
      PROVE  events'[stack'[i].deferred[k]].by = stack'[i].inv
  <2>1. /\ nNow \in Nat /\ nLater \in Nat /\ Len(events) \in Nat
        /\ NewEvents(Top.inv, nNow, nLater) /\ DispatchFrames(nNow, nLater)
    BY <1>1, <1>7, HandlerReturnsEffect
  <2>2. CASE i # n
    <3>1. i \in 1..(n - 1)
      BY <1>2, <1>4, <1>7, <2>2
    <3> QED
      BY <1>2, <1>5, <1>7, <2>1, <3>1 DEF DispatchFrames
  <2>3. CASE i = n
    <3>1. k \in 1..nLater /\ stack'[i].deferred[k] = Len(events) + nNow + k /\ stack'[i].inv = Top.inv
      BY <1>2, <1>3, <2>1, <2>3 DEF DispatchFrames
    <3>2. Len(events') = Len(events) + nNow + nLater
      BY <2>1 DEF NewEvents
    <3>3. Len(events) + nNow + k \in (Len(events) + 1)..Len(events')
      BY <2>1, <3>1, <3>2
    <3> QED
      BY <2>1, <3>1, <3>3 DEF NewEvents
  <2> QED
    BY <2>2, <2>3
<1>8. CASE i = n + 1
  <2>1. Pushing
    BY <1>1, <1>2, <1>4, <1>8, StackStep
  <2>2. stack'[i].deferred = <<>>
    BY <1>1, <1>2, <1>4, <1>8, <2>1, PushedFrame DEF Pushing
  <2>3. Len(stack'[i].deferred) = 0
    BY <2>2
  <2> QED
    BY <2>3
<1> QED
  BY <1>2, <1>4, <1>6, <1>7, <1>8 DEF Dispatching

\* An invocation about to register its queue in the active transaction has writes that
\* are open, or else it has just failed.
LEMMA RegisterOpenStep ==
  ASSUME ChainInv, OnStack, FrameWrites, RegisterOpen, [Next]_vars
  PROVE  RegisterOpen'
<1>1. TypeInv /\ TxOK /\ Shape /\ Txn
  BY DEF ChainInv, TypeInv
<1>2. PICK n \in Nat : n = Len(stack)
  BY <1>1 DEF TypeInv, StackOK
<1>3. SUFFICES ASSUME NEW i \in Invoking', stack'[i].step = "register", tx'.phase = "active"
               PROVE  Of(i)'.write = "open" \/ (i = Len(stack') /\ exc' = TRUE)
  BY DEF RegisterOpen
<1>4. tx.phase = "active" \/ \E saved \in BOOLEAN : Invoke(saved) /\ tx.phase = "none"
  BY <1>3, CallbacksStep
\* The frame was there before, in the same place.
<1>5. ASSUME tx.phase = "active", i \in Invoking, stack[i].step = "register",
             stack'[i].inv = stack[i].inv, invs'[stack[i].inv].write = invs[stack[i].inv].write,
             ~(i = Len(stack) /\ exc = TRUE)
      PROVE  Of(i)'.write = "open"
  <2>1. Of(i).write = "open"
    BY <1>5 DEF RegisterOpen
  <2> QED
    BY <1>5, <2>1 DEF Of
<1>6. CASE UNCHANGED vars
  BY <1>3, <1>4, <1>6 DEF vars, RegisterOpen, Of, Invoking, Invoke
<1>7. CASE Untouched
  <2>1. i \in Invoking /\ stack'[i].inv = stack[i].inv /\ stack[i].step = "register" /\ UNCHANGED invs
    BY <1>3, <1>7 DEF Untouched, SameInvocations
  <2>2. ~(i = Len(stack) /\ exc = TRUE)
    <3>1. SUFFICES ASSUME i = Len(stack), exc = TRUE PROVE FALSE
      OBVIOUS
    <3>2. Running /\ Top = stack[i] /\ Top.kind = "invoke" /\ Top.step = "register"
      BY <1>1, <2>1, <3>1, TopFrame DEF Invoking, TypeInv, StackOK
    <3> QED
      BY <1>7, <3>1, <3>2 DEF Untouched
  <2>3. tx.phase = "active"
    BY <1>3, <1>7 DEF Untouched
  <2> QED
    BY <1>5, <2>1, <2>2, <2>3
<1>8. ASSUME NEW s \in InvokeSteps, s # "register", Running, Top.kind = "invoke", Goto(s), UNCHANGED invs
      PROVE  Of(i)'.write = "open"
  <2>1. MoveInvocation(s)
    BY <1>1, <1>8, MovesInvocation
  <2>2. /\ i \in Invoking /\ i # Len(stack) /\ stack'[i].inv = stack[i].inv
        /\ stack[i].step = "register" /\ Len(stack) + 1 \notin Invoking'
    BY <1>2, <1>3, <1>8, <2>1 DEF MoveInvocation, Invoking
  <2>3. tx.phase = "active"
    BY <1>1, <1>2, <1>4, <2>2, InvokeInvocation DEF NewInvocation
  <2> QED
    BY <1>5, <1>8, <2>2, <2>3
<1>9. CASE \E s \in InvokeSteps : Onwards(s)
  <2>1. PICK s \in InvokeSteps : Onwards(s)
    BY <1>9
  <2>2. s # "register"
    BY <2>1 DEF Onwards
  <2> QED
    BY <1>8, <2>1, <2>2 DEF Onwards
<1>10. CASE Handled
  <2>1. /\ MoveInvocation("register") /\ Len(stack) \in Invoking /\ Invoking' = Invoking
        /\ stack'[i].inv = stack[i].inv /\ Top = stack[Len(stack)] /\ ~exc
        /\ \A m \in 1..Len(invs) : m # Top.inv => invs'[m] = invs[m]
    BY <1>1, <1>3, <1>10, TopInvocation DEF Handled, MoveInvocation
  <2>2. tx.phase = "active"
    BY <1>3, <1>10 DEF Handled
  <2>3. CASE i = Len(stack)
    <3>1. Of(i)' = invs'[Top.inv] /\ Written = "open"
      BY <2>1, <2>2, <2>3 DEF Of, Written
    <3> QED
      BY <1>10, <2>3, <3>1 DEF Handled
  <2>4. CASE i # Len(stack)
    <3>1. i \in Invoking /\ stack[i].inv # Top.inv /\ stack[i].inv \in 1..Len(invs)
      BY <1>1, <1>3, <2>1, <2>4 DEF OnStack, TypeInv, StackOK
    <3>2. stack[i].step = "register"
      BY <1>3, <2>1, <2>4 DEF MoveInvocation
    <3> QED
      BY <1>5, <2>1, <2>2, <2>4, <3>1, <3>2
  <2> QED
    BY <2>3, <2>4
<1>11. CASE Settles
  <2>1. ~EnterAfterCommit /\ ~End
    BY <1>1, <1>3, TxFields
  <2>2. Abort /\ UNCHANGED invs
    BY <1>11, <2>1 DEF Settles, Commits, CommitThrows, UnexpectedRollback, Abort
  <2>3. "stampFailure" \in InvokeSteps /\ Running /\ Top.kind = "invoke" /\ Goto("stampFailure")
    BY <2>2 DEF Abort, InvokeSteps
  <2> QED
    BY <1>8, <2>2, <2>3
<1>12. ASSUME NEW saved \in BOOLEAN, Invoke(saved)
       PROVE  Of(i)'.write = "open"
  <2>1. /\ NewInvocation /\ MayCall
        /\ \A m \in 1..Len(invs) : invs'[m] = invs[m]
    BY <1>1, <1>12, InvokeEffect
  <2>2. /\ i \in Invoking /\ stack'[i].inv = stack[i].inv /\ stack[i].step = "register"
    BY <1>3, <2>1 DEF NewInvocation
  <2>3. tx.phase = "active"
    BY <1>1, <1>4, <2>1, <2>2, CallablePhase
  <2>4. stack[i].inv \in 1..Len(invs) /\ ~exc
    BY <1>1, <2>1, <2>2 DEF TypeInv, StackOK, MayCall
  <2> QED
    BY <1>5, <2>1, <2>2, <2>3, <2>4
<1>13. ASSUME NEW s \in {"return", "throw"}, Finish(s)
       PROVE  Of(i)'.write = "open"
  <2>1. /\ EndInvocation /\ Running /\ ~exc /\ Top.kind = "invoke" /\ invs' = Ended(s) /\ UNCHANGED tx
    BY <1>1, <1>13, FinishInvocation DEF Finish, At
  <2>2. i \in Invoking /\ stack'[i].inv = stack[i].inv /\ stack[i].step = "register"
    BY <1>3, <2>1 DEF EndInvocation
  <2>3. stack[i].inv \in 1..Len(invs)
    BY <1>1, <2>2 DEF TypeInv, StackOK
  <2>4. \A m \in 1..Len(invs) : invs'[m].write = invs[m].write
    BY <1>1, <2>1, EndedInvs DEF Inv
  <2> QED
    BY <1>3, <1>5, <2>1, <2>2, <2>3, <2>4
<1>14. CASE Crash
  <2>1. stack' = <<>>
    BY <1>14 DEF Crash
  <2>2. Len(stack') = 0
    BY <2>1
  <2> QED
    BY <1>3, <2>2 DEF Invoking
<1> QED
  BY <1>6, <1>7, <1>9, <1>10, <1>11, <1>12, <1>13, <1>14, StepKinds

\* A callback that stays, as the writes of its commands turn from w into v.
LEMMA BearsKept ==
  ASSUME ChainInv, Emitted, [Next]_vars, NEW w, NEW v,
         \A n \in 1..Len(invs) : invs[n].write = w => invs'[n].write = v
  PROVE  \A b \in 1..Len(tx.callbacks) : Bears(b, w) =>
            \A d \in 1..Len(tx'.callbacks) : tx'.callbacks[d] = tx.callbacks[b] => Bears(d, v)'
<1>1. SUFFICES ASSUME NEW b \in 1..Len(tx.callbacks), Bears(b, w),
                      NEW d \in 1..Len(tx'.callbacks), tx'.callbacks[d] = tx.callbacks[b],
                      NEW k \in 1..Len(tx.callbacks[b].events)
               PROVE  LET n == events'[tx.callbacks[b].events[k]].by
                      IN  n \in 1..Len(invs') /\ invs'[n].write = v
  BY DEF Bears
<1> DEFINE e == tx.callbacks[b].events[k]
<1>2. KnownEvents /\ e \in 1..Len(events)
  <2>1. KnownEvents
    BY KnownEventsStep DEF ChainInv
  <2>2. From(e, tx.callbacks[b].req)
    BY DEF Emitted, PutOff
  <2> QED
    BY <2>1, <2>2 DEF From, Tells
<1>3. events[e].by \in 1..Len(invs) /\ invs[events[e].by].write = w
  BY <1>1 DEF Bears
<1>4. events'[e].by = events[e].by
  BY <1>2 DEF KnownEvents
<1>5. events[e].by \in 1..Len(invs')
  <2>1. TypeInv /\ Len(invs) \in Nat
    BY DEF ChainInv, TypeInv, HistoryOK
  <2>2. Len(invs') \in Nat /\ Len(invs') >= Len(invs)
    <3>1. Next => KnownInvs
      BY <2>1, KnownInvsStep
    <3>2. UNCHANGED vars => Len(invs') = Len(invs)
      BY DEF vars
    <3> QED
      BY <2>1, <3>1, <3>2 DEF KnownInvs
  <2> QED
    BY <1>3, <2>1, <2>2
<1> QED
  BY <1>3, <1>4, <1>5

\* What is registered for after the commit is of commands whose writes are open, and
\* then committed.
LEMMA AwaitingStep ==
  ASSUME ChainInv, Emitted, FrameWrites, OwnQueue, RegisterOpen, Awaiting, [Next]_vars
  PROVE  Awaiting'
<1>1. /\ TypeInv /\ TxOK /\ Txn /\ tx \in TxType /\ tx.callbacks \in Seq(CallbackType)
      /\ tx.due \in Nat /\ tx.due <= Len(tx.callbacks) /\ Len(tx.callbacks) \in Nat
  BY DEF ChainInv, TypeInv, TxOK, TxType
<1>2. \A d \in 1..Len(tx'.callbacks) : tx'.callbacks # <<>>
  <2>1. Len(<<>>) = 0
    OBVIOUS
  <2> QED
    BY <2>1
\* How the callback that is registered comes to be.
<1>3. ASSUME RegisterDeferred, NEW f, f.events = Top.deferred, tx'.callbacks = Append(tx.callbacks, f),
             NEW d \in 1..Len(tx'.callbacks)
      PROVE  \/ d \in 1..Len(tx.callbacks) /\ tx'.callbacks[d] = tx.callbacks[d]
             \/ d > Len(tx.callbacks) /\ (tx.phase = "active" => Bears(d, "open")')
  <2>1. /\ Len(tx'.callbacks) = Len(tx.callbacks) + 1
        /\ \A b \in 1..Len(tx.callbacks) : tx'.callbacks[b] = tx.callbacks[b]
        /\ tx'.callbacks[Len(tx.callbacks) + 1] = f
    BY <1>1, <1>3, AppendProperties
  <2>2. SUFFICES ASSUME d > Len(tx.callbacks), tx.phase = "active"
                 PROVE  Bears(d, "open")'
    BY <1>1, <2>1
  <2>3. tx'.callbacks[d] = f
    BY <1>1, <2>1, <2>2
  <2>4. /\ Len(stack) \in Invoking /\ Top = stack[Len(stack)] /\ Top.inv \in 1..Len(invs)
        /\ Inv = Of(Len(stack)) /\ Inv = invs[Top.inv] /\ Top.step = "register" /\ ~exc
        /\ UNCHANGED <<invs, events>>
    BY <1>1, <1>3, TopInvocation DEF RegisterDeferred, At
  <2>5. Inv.write = "open"
    BY <2>2, <2>4 DEF RegisterOpen
  <2>6. \A k \in 1..Len(Top.deferred) : events[Top.deferred[k]].by = Top.inv
    BY <2>4 DEF OwnQueue
  <2> QED
    BY <1>3, <2>3, <2>4, <2>5, <2>6 DEF Bears
<1>4. ASSUME tx'.phase = "active", NEW d \in 1..Len(tx'.callbacks)
      PROVE  Bears(d, "open")'
  <2>1. \A b \in 1..Len(tx.callbacks) : Bears(b, "open") =>
           (tx'.callbacks[d] = tx.callbacks[b] => Bears(d, "open")')
    <3>1. \A n \in 1..Len(invs) : invs[n].write = "open" => invs'[n].write = "open"
      BY <1>4, StayOpen
    <3> QED
      BY <3>1, BearsKept
  <2>2. tx.phase = "active" => \A b \in 1..Len(tx.callbacks) : Bears(b, "open")
    BY <1>1 DEF Awaiting, Registered
  <2>3. CASE tx'.phase = tx.phase /\ tx'.callbacks = tx.callbacks
    BY <1>4, <2>1, <2>2, <2>3
  <2>4. CASE /\ RegisterDeferred /\ tx'.phase = tx.phase
             /\ \E f : f.events = Top.deferred /\ tx'.callbacks = Append(tx.callbacks, f)
    BY <1>3, <1>4, <2>1, <2>2, <2>4
  <2>5. CASE RunCallback /\ tx'.phase = tx.phase
    <3>1. Running /\ Top.kind = "invoke" /\ Top.step = "afterCommit"
      BY <2>5 DEF RunCallback, At
    <3>2. Len(stack) \in Invoking /\ stack[Len(stack)].step = "afterCommit"
      BY <1>1, <3>1, TopInvocation
    <3>3. tx.phase = "afterCommit"
      BY <1>1, <3>2 DEF Txn, Phased, PhaseAt
    <3> QED
      BY <1>4, <2>5, <3>3
  <2> QED
    BY <1>2, <1>4, <2>3, <2>4, <2>5, CallbacksStep
<1>5. ASSUME tx'.phase = "afterCommit", NEW d \in 1..Len(tx'.callbacks), d <= tx'.due
      PROVE  Bears(d, "committed")'
  <2>1. \A b \in 1..Len(tx.callbacks) : Bears(b, "committed") =>
           (tx'.callbacks[d] = tx.callbacks[b] => Bears(d, "committed")')
    <3>1. \A n \in 1..Len(invs) : invs[n].write = "committed" => invs'[n].write = "committed"
      BY StayCommitted
    <3> QED
      BY <3>1, BearsKept
  <2>2. tx.phase = "afterCommit" =>
           \A b \in 1..Len(tx.callbacks) : b <= tx.due => Bears(b, "committed")
    BY DEF Awaiting, Registered
  <2>3. CASE tx'.phase = tx.phase /\ tx'.callbacks = tx.callbacks /\ tx'.due = tx.due
    BY <1>5, <2>1, <2>2, <2>3
  <2>4. CASE /\ RegisterDeferred /\ tx'.phase = tx.phase /\ tx'.due = tx.due
             /\ \E f : f.events = Top.deferred /\ tx'.callbacks = Append(tx.callbacks, f)
    <3>1. d \in 1..Len(tx.callbacks) /\ tx'.callbacks[d] = tx.callbacks[d]
      BY <1>1, <1>3, <1>5, <2>4
    <3> QED
      BY <1>5, <2>1, <2>2, <2>4, <3>1
  <2>5. CASE /\ tx'.phase = tx.phase /\ tx.due > 0 /\ tx'.due = tx.due - 1
             /\ tx'.callbacks = Tail(tx.callbacks)
    <3>1. tx.callbacks # <<>> /\ Len(tx'.callbacks) = Len(tx.callbacks) - 1
      BY <1>1, <2>5
    <3>2. d + 1 \in 1..Len(tx.callbacks) /\ tx'.callbacks[d] = tx.callbacks[d + 1] /\ d + 1 <= tx.due
      BY <1>1, <1>5, <2>5, <3>1
    <3> QED
      BY <1>5, <2>1, <2>2, <2>5, <3>2
  <2>6. CASE Commits /\ tx.phase = "active" /\ tx'.callbacks = tx.callbacks
    <3>1. \A n \in 1..Len(invs) : invs[n].write = "open" => invs'[n].write = "committed"
      BY <2>6, CommitsEffect
    <3>2. Bears(d, "open")
      BY <1>1, <2>6 DEF Awaiting, Registered
    <3> QED
      BY <2>6, <3>1, <3>2, BearsKept
  <2> QED
    BY <1>2, <1>5, <2>3, <2>4, <2>5, <2>6, CallbacksStep
<1> QED
  BY <1>4, <1>5 DEF Awaiting, Registered

\* Nothing is published, told of or delivered before it is final.
LEMMA ReleasedStep ==
  ASSUME ChainInv, Emitted, FrameWrites, Emitter, Released, Awaiting, [Next]_vars
  PROVE  Released'
<1>1. TypeInv /\ Txn /\ KnownEvents /\ StackKept /\ Len(events) \in Nat /\ Sending
  BY StackStep, KnownEventsStep DEF ChainInv, Emitted, TypeInv, HistoryOK
<1>2. PICK n \in Nat : n = Len(stack)
  BY <1>1 DEF TypeInv, StackOK
<1>3. \A i \in Publishing : \A k \in 1..Len(stack[i].todo) :
         stack[i].todo[k] \in 1..Len(events) /\ FinalIn(events', invs', stack[i].todo[k])
  <2>1. SUFFICES ASSUME NEW i \in Publishing, NEW k \in 1..Len(stack[i].todo)
                 PROVE  stack[i].todo[k] \in 1..Len(events) /\ FinalIn(events', invs', stack[i].todo[k])
    OBVIOUS
  <2> DEFINE e == stack[i].todo[k]
  <2>2. e \in 1..Len(events)
    BY <1>1 DEF Sending, Sent, Outside, From, Tells
  <2>3. Final(e)
    BY DEF Released
  <2> QED
    BY <2>2, <2>3, FinalKept
<1>4. ASSUME NEW i \in Publishing', NEW k \in 1..Len(stack'[i].todo)
      PROVE  FinalIn(events', invs', stack'[i].todo[k])
  <2>1. i \in 1..Len(stack') /\ stack'[i].kind = "publish" /\ i <= n + 1
    BY <1>1, <1>2 DEF Publishing, StackKept
  <2>2. CASE i <= n
    <3>1. Keeps(i)
      BY <1>1, <1>2, <2>1, <2>2 DEF StackKept
    <3>2. i \in Publishing
      BY <2>1, <3>1 DEF Keeps, Publishing
    <3>3. stack[i].todo \in Seq(Nat)
      <4>1. stack[i] \in PublishFrame
        BY <1>1, <3>2 DEF Publishing, TypeInv, StackOK, FrameType, InvokeFrame, PolicyFrame
      <4> QED
        BY <4>1 DEF PublishFrame
    <3>4. \E l \in 1..Len(stack[i].todo) : stack'[i].todo[k] = stack[i].todo[l]
      <4>1. CASE stack'[i].todo = stack[i].todo
        BY <4>1
      <4>2. CASE stack[i].todo # <<>> /\ stack'[i].todo = Tail(stack[i].todo)
        <5>1. k + 1 \in 1..Len(stack[i].todo) /\ stack'[i].todo[k] = stack[i].todo[k + 1]
          BY <3>3, <4>2
        <5> QED
          BY <5>1
      <4> QED
        BY <3>1, <3>2, <4>1, <4>2 DEF Keeps, Publishing
    <3> QED
      BY <1>3, <3>2, <3>4
  <2>3. CASE i = n + 1
    <3>1. Pushing
      BY <1>1, <1>2, <2>1, <2>3, StackStep
    <3>2. CASE RunCallback
      <4>1. stack'[i].todo = NextCallback.events
        BY <1>1, <1>2, <2>3, <3>1, <3>2, PushedFrame
      <4>2. Running /\ Top.kind = "invoke" /\ Top.step = "afterCommit" /\ tx.due > 0
        BY <3>2 DEF RunCallback, At
      <4>3. 1 \in 1..Len(tx.callbacks) /\ NextCallback = tx.callbacks[1] /\ 1 <= tx.due
        <5>1. tx.callbacks \in Seq(CallbackType) /\ tx.due \in Nat /\ tx.due <= Len(tx.callbacks)
          BY <1>1 DEF TypeInv, TxOK, TxType
        <5> QED
          BY <4>2, <5>1 DEF NextCallback
      <4>4. tx.phase = "afterCommit"
        <5>1. Len(stack) \in Invoking /\ stack[Len(stack)].step = "afterCommit"
          BY <1>1, <4>2, TopInvocation
        <5> QED
          BY <1>1, <5>1 DEF Txn, Phased, PhaseAt
      <4>5. Registered(tx.due, "committed")
        BY <4>4 DEF Awaiting
      <4>6. events[stack'[i].todo[k]].by \in 1..Len(invs)
            /\ invs[events[stack'[i].todo[k]].by].write = "committed"
        BY <4>1, <4>3, <4>5 DEF Registered, Bears
      <4>7. UNCHANGED <<events, invs>>
        BY <3>2 DEF RunCallback
      <4> QED
        BY <4>6, <4>7 DEF FinalIn
    <3>3. CASE \E timing \in Publishes : PublishExternal(timing)
      <4>1. stack'[i].todo = <<Len(events) + 1>>
        BY <1>1, <1>2, <2>3, <3>1, <3>3, PushedFrame
      <4>2. \E e : events' = Append(events, e) /\ e.by = 0
        BY <3>3 DEF PublishExternal
      <4>3. events \in Seq(EventType)
        BY <1>1 DEF TypeInv, HistoryOK
      <4>4. stack'[i].todo[k] = Len(events) + 1
        BY <1>4, <4>1
      <4>5. events'[Len(events) + 1].by = 0
        BY <4>2, <4>3
      <4> QED
        BY <4>4, <4>5 DEF FinalIn
    <3>4. ASSUME NEW nNow \in 0..MaxEvents, NEW nLater \in 0..MaxEvents, HandlerReturns(nNow, nLater)
          PROVE  events'[stack'[i].todo[k]].timing = "immediate"
      <4>1. /\ nNow \in Nat /\ nLater \in Nat
            /\ NewEvents(Top.inv, nNow, nLater) /\ DispatchFrames(nNow, nLater)
        BY <1>1, <3>4, HandlerReturnsEffect
      <4>2. Len(stack'[i].todo) = nNow /\ \A l \in 1..nNow : stack'[i].todo[l] = Len(events) + l
        BY <1>2, <2>3, <4>1 DEF DispatchFrames
      <4>3. k \in 1..nNow /\ stack'[i].todo[k] = Len(events) + k
        BY <1>4, <4>2
      <4>4. Len(events') = Len(events) + nNow + nLater
        BY <4>1 DEF NewEvents
      <4>5. Len(events) + k \in (Len(events) + 1)..Len(events') /\ Len(events) + k <= Len(events) + nNow
        BY <1>1, <4>1, <4>3, <4>4
      <4> QED
        BY <4>1, <4>3, <4>5 DEF NewEvents
    <3>5. ~PublishRaw /\ ~ \E saved \in BOOLEAN : Invoke(saved)
      BY <1>1, <1>2, <2>1, <2>3, <3>1, PushedFrame
    <3> QED
      BY <3>1, <3>2, <3>3, <3>4, <3>5 DEF Pushing, Dispatching, FinalIn
  <2> QED
    BY <1>2, <2>1, <2>2, <2>3
\* The event that is published next.
<1>5. PublishRaw \/ Wrapping => Head(Top.todo) \in 1..Len(events) /\ FinalIn(events', invs', Head(Top.todo))
  <2>1. SUFFICES ASSUME PublishRaw \/ Wrapping
                 PROVE  Head(Top.todo) \in 1..Len(events) /\ FinalIn(events', invs', Head(Top.todo))
    OBVIOUS
  <2>2. Running /\ Top.kind = "publish"
    BY <2>1 DEF PublishRaw, Wrapping, PublishWrapper, At
  <2>3. Len(stack) \in Publishing /\ Top = stack[Len(stack)]
    BY <1>1, <2>2, TopPublication
  <2>4. Head(Top.todo) = Top.todo[1] /\ 1 \in 1..Len(Top.todo)
    BY <1>1, <2>1, TopList
  <2> QED
    BY <1>3, <2>3, <2>4
<1>6. ASSUME NEW e \in 1..Len(events'), Told(e)' \/ events'[e].delivered # 0
      PROVE  FinalIn(events', invs', e)
  <2>1. CASE e \in 1..Len(events) /\ (Told(e) \/ events[e].delivered # 0)
    <3>1. Final(e)
      BY <2>1 DEF Released
    <3> QED
      BY <2>1, <3>1, FinalKept
  <2>2. CASE PublishRaw \/ Wrapping
    <3>1. CASE e = Head(Top.todo)
      BY <1>5, <2>2, <3>1
    <3>2. CASE e # Head(Top.todo)
      <4>1. Told(e)' => Told(e) /\ e \in 1..Len(events)
        BY <3>2, NewlyTold, ToldEvents
      <4>2. events'[e].delivered # 0 => e \in 1..Len(events) /\ events[e].delivered # 0
        BY <3>2, DeliverStep
      <4> QED
        BY <1>6, <2>1, <4>1, <4>2
    <3> QED
      BY <3>1, <3>2
  <2>3. CASE ~PublishRaw /\ ~Wrapping
    <3>1. Told(e)' => Told(e) /\ e \in 1..Len(events)
      BY <2>3, NewlyTold, ToldEvents
    <3>2. events'[e].delivered # 0 => e \in 1..Len(events) /\ events[e].delivered # 0
      BY <2>3, DeliverStep
    <3> QED
      BY <1>6, <2>1, <3>1, <3>2
  <2> QED
    BY <2>2, <2>3
<1> QED
  BY <1>4, <1>6 DEF Released, Final

\* It always holds.
LEMMA DeferringCorrect == Spec => []Deferring
<1>1. Init => Deferring
  <2>1. SUFFICES ASSUME Init PROVE Deferring
    OBVIOUS
  <2>2. /\ Len(stack) = 0 /\ Len(events) = 0 /\ tx.phase = "none"
    BY <2>1 DEF Init, NoTx
  <2> QED
    BY <2>2 DEF Deferring, Emitter, Released, OwnQueue, RegisterOpen, Awaiting, Invoking, Publishing
<1>2. OutcomeInv /\ Emitted /\ Deferring /\ [Next]_vars => Deferring'
  <2>1. SUFFICES ASSUME OutcomeInv, Emitted, Deferring, [Next]_vars
                 PROVE  Deferring'
    OBVIOUS
  <2>2. /\ ChainInv /\ OnStack /\ FrameWrites
        /\ Emitter /\ Released /\ OwnQueue /\ RegisterOpen /\ Awaiting
    BY <2>1 DEF OutcomeInv, Requests, Writing, Deferring
  <2> QED
    BY <2>1, <2>2, EmitterStep, ReleasedStep, OwnQueueStep, RegisterOpenStep, AwaitingStep
    DEF Deferring
<1> QED
  BY <1>1, <1>2, OutcomeCorrect, EmittedCorrect, PTL DEF Spec

\* A POST_COMMIT event of a command reaches its policies at most once, and the audit
\* trail at most once, and neither before the writes of that command are committed:
\* not if the transaction fails, not if a nested command's caller does, and not if the
\* process dies.
THEOREM DeferredWaitsForCommit == Spec => []DeferredOnlyAfterCommit
<1>1. ChainInv /\ Once /\ Deferring => DeferredOnlyAfterCommit
  <2>1. SUFFICES ASSUME ChainInv, Once, Deferring, NEW e \in 1..Len(events),
                        events[e].timing = "deferred", events[e].by # 0
                 PROVE  LET logged == {i \in 1..Len(rows) : rows[i].kind = "event" /\ rows[i].of = e}
                        IN  /\ events[e].delivered + Cardinality(logged) > 0 =>
                                  invs[events[e].by].write = "committed"
                            /\ events[e].delivered <= 1
                            /\ Cardinality(logged) <= 1
    BY DEF DeferredOnlyAfterCommit
  <2> DEFINE logged == {i \in 1..Len(rows) : rows[i].kind = "event" /\ rows[i].of = e}
  <2>2. events[e].delivered \in {0, 1}
    BY <2>1 DEF Once, DeliveredOnce
  <2>3. logged = {} \/ \E i \in 1..Len(rows) : logged = {i} /\ Told(e)
    <3>1. \A i, j \in logged : i = j
      BY <2>1 DEF Once, ToldOnce
    <3>2. \A i \in logged : i \in 1..Len(rows) /\ Told(e)
      BY DEF Told
    <3> HIDE DEF logged
    <3>3. ASSUME NEW i \in logged PROVE logged = {i}
      BY <3>1
    <3> QED
      BY <3>2, <3>3
  <2>4. Told(e) \/ events[e].delivered # 0 => invs[events[e].by].write = "committed"
    BY <2>1 DEF Deferring, Released, Final, FinalIn
  <2> HIDE DEF logged
  <2>5. CASE logged = {}
    <3>1. Cardinality(logged) = 0
      BY <2>5, FS_EmptySet
    <3> QED
      BY <2>2, <2>4, <3>1 DEF logged
  <2>6. CASE \E i \in 1..Len(rows) : logged = {i} /\ Told(e)
    <3>1. Cardinality(logged) = 1 /\ Told(e)
      BY <2>6, FS_Singleton
    <3> QED
      BY <2>2, <2>4, <3>1 DEF logged
  <2> QED
    BY <2>3, <2>5, <2>6
<1> QED
  BY <1>1, ChainCorrect, OnceCorrect, DeferringCorrect, PTL

(***************************************************************************)
(* The order of the rows.  An event's row comes after its command's, and   *)
(* before those of the commands that its policies run: they hear an event  *)
(* once it has left its list, and nothing is told of it after that, unless *)
(* it was put off to the end of the transaction.                           *)
(***************************************************************************)
Reached ==
    /\ \A i \in Listening : events[stack[i].event].delivered # 0
    /\ \A n \in 1..Len(invs) : invs[n].cause # 0 => events[invs[n].cause].delivered # 0
LateListeners ==
    \A k \in 1..Len(tx.listeners) : events[tx.listeners[k].event].timing = "deferred"
Before ==
    \A i \in 1..Len(rows) : rows[i].kind = "event" =>
        \A n \in 1..Len(invs) :
            /\ events[rows[i].of].by = n => invs[n].row < i
            /\ invs[n].cause = rows[i].of /\ events[rows[i].of].timing = "immediate" =>
                  i < invs[n].row

Ordered == Reached /\ LateListeners /\ Before

\* What has been delivered stays delivered.
LEMMA DeliveredStays ==
  ASSUME ChainInv, [Next]_vars, NEW e \in 1..Len(events), events[e].delivered # 0
  PROVE  e \in 1..Len(events') /\ events'[e].delivered # 0
<1>1. events[e].delivered \in Nat
  <2>1. events[e] \in EventType
    BY DEF ChainInv, TypeInv, HistoryOK
  <2> QED
    BY <2>1 DEF EventType
<1> QED
  BY <1>1, DeliverStep

\* Policies hear events that have been delivered, and so they do when they run commands.
LEMMA ReachedStep ==
  ASSUME ChainInv, Emitted, Reached, [Next]_vars
  PROVE  Reached'
<1>1. TypeInv /\ StackKept /\ Heard /\ Caused /\ Len(invs) \in Nat /\ events \in Seq(EventType)
  BY StackStep DEF ChainInv, Emitted, TypeInv, HistoryOK
<1>2. PICK n \in Nat : n = Len(stack)
  BY <1>1 DEF TypeInv, StackOK
<1>3. \A i \in Listening : stack[i].event \in 1..Len(events)
  BY <1>1 DEF Heard, Sent, Outside, From, Tells
<1>4. ASSUME NEW i \in Listening'
      PROVE  events'[stack'[i].event].delivered # 0
  <2>1. i \in 1..Len(stack') /\ stack'[i].kind = "policy" /\ i <= n + 1
    BY <1>1, <1>2 DEF Listening, StackKept
  <2>2. CASE i <= n
    <3>1. Keeps(i)
      BY <1>1, <1>2, <2>1, <2>2 DEF StackKept
    <3>2. i \in Listening /\ stack'[i].event = stack[i].event
      BY <2>1, <3>1 DEF Keeps, Listening
    <3> QED
      BY <1>3, <3>2, DeliveredStays DEF Reached
  <2>3. CASE i = n + 1
    <3>1. Pushing
      BY <1>1, <1>2, <2>1, <2>3, StackStep
    <3>2. PublishRaw /\ stack'[i].event = Head(Top.todo)
      BY <1>1, <1>2, <2>1, <2>3, <3>1, PushedFrame DEF Pushing
    <3>3. Head(Top.todo) \in 1..Len(events)
      <4>1. TopTodo \in Lists /\ 1 \in 1..Len(ListAt(TopTodo)) /\ Head(Top.todo) = ListAt(TopTodo)[1]
        BY <1>1, <3>2, TopList
      <4> QED
        BY <1>1, <4>1, ListedEvents
    <3>4. events'[Head(Top.todo)].delivered = events[Head(Top.todo)].delivered + 1
      BY <3>2, <3>3, DeliverStep
    <3>5. events[Head(Top.todo)].delivered \in Nat
      <4>1. events[Head(Top.todo)] \in EventType
        BY <1>1, <3>3
      <4> QED
        BY <4>1 DEF EventType
    <3> QED
      BY <3>2, <3>4, <3>5
  <2> QED
    BY <1>2, <2>1, <2>2, <2>3
<1>5. \A m \in 1..Len(invs) : invs[m].cause # 0 => events'[invs[m].cause].delivered # 0
  BY <1>1, DeliveredStays DEF Reached, Caused, From, Tells
<1>6. ASSUME NEW m \in 1..Len(invs'), invs'[m].cause # 0
      PROVE  events'[invs'[m].cause].delivered # 0
  <2>1. CASE SameInvs
    BY <1>5, <1>6, <2>1 DEF SameInvs
  <2>2. ASSUME NEW saved \in BOOLEAN, Invoke(saved)
        PROVE  events'[invs'[m].cause].delivered # 0
    <3>1. /\ Len(invs') = Len(invs) + 1 /\ \A l \in 1..Len(invs) : invs'[l] = invs[l]
          /\ invs'[Len(invs) + 1].cause = Cause /\ UNCHANGED events
      BY <1>1, <2>2, InvokeEffect
    <3>2. CASE m \in 1..Len(invs)
      BY <1>5, <1>6, <3>1, <3>2
    <3>3. CASE m = Len(invs) + 1
      <4>1. Running /\ Top.kind = "policy" /\ Cause = Top.event
        BY <1>6, <3>1, <3>3 DEF Cause
      <4>2. Len(stack) \in Listening /\ Top = stack[Len(stack)]
        BY <1>1, <4>1, TopFrame DEF TypeInv, StackOK
      <4> QED
        BY <3>1, <3>3, <4>1, <4>2 DEF Reached
    <3> QED
      BY <1>1, <1>6, <3>1, <3>2, <3>3
  <2>3. CASE UNCHANGED vars
    BY <1>5, <1>6, <2>3 DEF vars
  <2> QED
    BY <1>1, <2>1, <2>2, <2>3, InvsStep
<1> QED
  BY <1>4, <1>6 DEF Reached

\* The event logger puts off only events that are for after the commit.
LEMMA LateListenersStep ==
  ASSUME ChainInv, Emitted, LateListeners, [Next]_vars
  PROVE  LateListeners'
<1>1. TypeInv /\ TxOK /\ KnownEvents /\ PutOff /\ tx.listeners \in Seq(ListenerType)
  BY KnownEventsStep DEF ChainInv, Emitted, TypeInv, TxOK, TxType
<1>2. \A k \in 1..Len(tx.listeners) : events'[tx.listeners[k].event].timing = "deferred"
  BY <1>1 DEF LateListeners, PutOff, From, Tells, KnownEvents
<1>3. CASE FewerListeners
  <2>1. CASE tx'.listeners = tx.listeners
    BY <1>2, <2>1 DEF LateListeners
  <2>2. CASE tx'.listeners = <<>>
    <3>1. Len(tx'.listeners) = 0
      BY <2>2
    <3> QED
      BY <3>1 DEF LateListeners
  <2>3. CASE tx.listeners # <<>> /\ tx'.listeners = Tail(tx.listeners)
    <3>1. \A k \in 1..Len(tx'.listeners) :
             k + 1 \in 1..Len(tx.listeners) /\ tx'.listeners[k] = tx.listeners[k + 1]
      BY <1>1, <2>3
    <3> QED
      BY <1>2, <3>1 DEF LateListeners
  <2> QED
    BY <1>3, <2>1, <2>2, <2>3 DEF FewerListeners
<1>4. CASE UNCHANGED tx
  BY <1>2, <1>4 DEF LateListeners
<1>5. ASSUME Wrapping, ~UNCHANGED tx, Len(tx.listeners) \in Nat,
             Len(tx'.listeners) = Len(tx.listeners) + 1,
             \A k \in 1..Len(tx.listeners) : tx'.listeners[k] = tx.listeners[k],
             tx'.listeners[Len(tx.listeners) + 1].event = Head(Top.todo)
      PROVE  LateListeners'
  <2>1. events[Head(Top.todo)].timing = "deferred" /\ UNCHANGED events
    BY <1>5 DEF Wrapping, PublishWrapper
  <2>2. \A k \in 1..Len(tx'.listeners) : k \in 1..Len(tx.listeners) \/ k = Len(tx.listeners) + 1
    BY <1>5
  <2> QED
    BY <1>2, <1>5, <2>1, <2>2 DEF LateListeners
<1>6. CASE tx.listeners # <<>> /\ tx'.listeners = Tail(tx.listeners)
  BY <1>3, <1>6 DEF FewerListeners
<1> QED
  BY <1>3, <1>4, <1>5, <1>6, TellStep

\* Rows are added in the order of cause and effect.
LEMMA BeforeStep ==
  ASSUME ChainInv, Emitted, Once, Ordered, [Next]_vars
  PROVE  Before'
<1>1. /\ TypeInv /\ RowsExist /\ KnownEvents /\ EventRows /\ Caused /\ PutOff
      /\ Len(invs) \in Nat /\ Len(rows) \in Nat /\ SameRowsSoFar
      /\ Reached /\ LateListeners /\ Before
  <2>1. TypeInv /\ RowsExist /\ Len(invs) \in Nat
    BY DEF ChainInv, TypeInv, HistoryOK
  <2>2. KnownEvents
    BY <2>1, KnownEventsStep
  <2>3. Len(rows) \in Nat /\ SameRowsSoFar
    BY RowAdded
  <2> QED
    BY <2>1, <2>2, <2>3 DEF Emitted, Ordered
<1>2. \A i \in 1..Len(rows) : rows[i].kind = "event" =>
         /\ rows[i].of \in 1..Len(events) /\ events[rows[i].of].by \in 0..Len(invs)
         /\ events'[rows[i].of].by = events[rows[i].of].by
         /\ events'[rows[i].of].timing = events[rows[i].of].timing
  BY <1>1 DEF EventRows, From, Tells, KnownEvents
\* A row that was there.
<1>3. ASSUME NEW i \in 1..Len(rows), rows[i].kind = "event", NEW n \in 1..Len(invs')
      PROVE  /\ events'[rows[i].of].by = n => invs'[n].row < i
             /\ invs'[n].cause = rows[i].of /\ events'[rows[i].of].timing = "immediate" =>
                   i < invs'[n].row
  <2>1. CASE n \in 1..Len(invs) /\ invs'[n].row = invs[n].row /\ invs'[n].cause = invs[n].cause
    BY <1>1, <1>2, <1>3, <2>1 DEF Before
  <2>2. ASSUME NEW saved \in BOOLEAN, Invoke(saved)
        PROVE  \/ n \in 1..Len(invs) /\ invs'[n] = invs[n]
               \/ n = Len(invs) + 1 /\ invs'[n].row = Len(rows) + 1
    <3>1. /\ Len(invs') = Len(invs) + 1 /\ \A m \in 1..Len(invs) : invs'[m] = invs[m]
          /\ invs'[Len(invs) + 1].row = Len(rows) + 1
      BY <1>1, <2>2, InvokeEffect
    <3>2. n \in 1..Len(invs) \/ n = Len(invs) + 1
      BY <1>1, <3>1
    <3> QED
      BY <3>1, <3>2
  <2>3. CASE n = Len(invs) + 1 /\ invs'[n].row = Len(rows) + 1
    <3>1. i < invs'[n].row /\ events'[rows[i].of].by # n
      BY <1>1, <1>2, <1>3, <2>3
    <3> QED
      BY <3>1
  <2>4. UNCHANGED vars => SameInvs
    BY DEF vars, SameInvs
  <2> QED
    BY <1>1, <2>1, <2>2, <2>3, <2>4, InvsStep DEF SameInvs
<1>4. CASE NoEventRow
  BY <1>3, <1>4 DEF NoEventRow, Before
<1>5. ASSUME NEW e \in 1..Len(events), NewEventRow(e),
             \/ events[e].timing = "deferred"
             \/ \A n \in 1..Len(invs) : invs[n].cause # e
      PROVE  Before'
  <2>1. SameInvs
    <3>1. rows'[Len(rows) + 1].kind # "command"
      BY <1>5 DEF NewEventRow
    <3>2. Len(rows') # Len(rows)
      BY <1>1, <1>5 DEF NewEventRow
    <3> QED
      BY <3>1, <3>2, RowAdded
  <2>2. SUFFICES ASSUME NEW i \in 1..Len(rows'), rows'[i].kind = "event", NEW n \in 1..Len(invs')
                 PROVE  /\ events'[rows'[i].of].by = n => invs'[n].row < i
                        /\ invs'[n].cause = rows'[i].of /\ events'[rows'[i].of].timing = "immediate" =>
                              i < invs'[n].row
    BY DEF Before
  <2>3. CASE i \in 1..Len(rows)
    BY <1>3, <1>5, <2>2, <2>3 DEF NewEventRow
  <2>4. CASE i = Len(rows) + 1
    <3>1. rows'[i].of = e /\ events'[e].timing = events[e].timing
      BY <1>1, <1>5, <2>4 DEF NewEventRow, KnownEvents
    <3>2. /\ n \in 1..Len(invs) /\ invs'[n].row = invs[n].row /\ invs'[n].cause = invs[n].cause
          /\ invs[n].row \in 1..Len(rows)
      BY <1>1, <2>1, <2>2 DEF SameInvs, RowsExist
    <3>3. invs'[n].row < i
      BY <1>1, <2>4, <3>2
    <3> QED
      BY <1>5, <3>1, <3>2, <3>3
  <2> QED
    BY <1>1, <1>5, <2>2, <2>3, <2>4 DEF NewEventRow
<1>6. CASE Wrapping /\ NewEventRow(Head(Top.todo))
  <2>1. TopTodo \in Lists /\ 1 \in 1..Len(ListAt(TopTodo)) /\ Head(Top.todo) = ListAt(TopTodo)[1]
    BY <1>1, <1>6, TopList
  <2>2. Head(Top.todo) \in 1..Len(events) /\ events[Head(Top.todo)].delivered = 0
    BY <1>1, <2>1, ListedEvents DEF Once, Untold
  <2>3. \A n \in 1..Len(invs) : invs[n].cause # Head(Top.todo)
    BY <1>1, <2>2 DEF Reached
  <2> QED
    BY <1>5, <1>6, <2>2, <2>3
<1>7. CASE tx.listeners # <<>> /\ NewEventRow(Head(tx.listeners).event)
  <2>1. tx.listeners \in Seq(ListenerType)
    BY <1>1 DEF TypeInv, TxOK, TxType
  <2>2. 1 \in 1..Len(tx.listeners) /\ Head(tx.listeners) = tx.listeners[1]
    BY <1>7, <2>1
  <2>3. /\ Head(tx.listeners).event \in 1..Len(events)
        /\ events[Head(tx.listeners).event].timing = "deferred"
    BY <1>1, <2>2 DEF PutOff, From, Tells, LateListeners
  <2> QED
    BY <1>5, <1>7, <2>3
<1> QED
  BY <1>4, <1>6, <1>7, TellStep

\* It always holds.
LEMMA OrderedCorrect == Spec => []Ordered
<1>1. Init => Ordered
  <2>1. Len(<<>>) = 0
    OBVIOUS
  <2> QED
    BY <2>1 DEF Init, NoTx, TrailInit, Ordered, Reached, LateListeners, Before, Listening
<1>2. ChainInv /\ Emitted /\ Once /\ Ordered /\ [Next]_vars => Ordered'
  BY ReachedStep, LateListenersStep, BeforeStep DEF Ordered
<1> QED
  BY <1>1, <1>2, ChainCorrect, EmittedCorrect, OnceCorrect, PTL DEF Spec

\* event_order along causes within a request, and numbers that are not shared, for the
\* rows that have one.
OrderInRequests ==
    \A i, j \in 1..Len(rows) :
        /\ Causes(i, j) => i < j
        /\ rows[i].req = rows[j].req /\ rows[i].order # 0 /\ rows[j].order # 0 =>
              /\ Causes(i, j) => rows[i].order < rows[j].order
              /\ i # j => rows[i].order # rows[j].order

\* Whoever publishes what: within a request event_order follows causality.
THEOREM OrderFollowsCauses == Spec => []OrderInRequests
<1>1. ChainInv /\ Emitted /\ CommandRows /\ Ordered /\ Ledger => OrderInRequests
  <2>1. SUFFICES ASSUME ChainInv, Emitted, CommandRows, Ordered, Ledger,
                        NEW i \in 1..Len(rows), NEW j \in 1..Len(rows)
                 PROVE  /\ Causes(i, j) => i < j
                        /\ rows[i].req = rows[j].req /\ rows[i].order # 0 /\ rows[j].order # 0 =>
                              /\ Causes(i, j) => rows[i].order < rows[j].order
                              /\ i # j => rows[i].order # rows[j].order
    BY DEF OrderInRequests
  <2>2. Len(rows) \in Nat /\ rows \in Seq(RowType)
    BY <2>1 DEF ChainInv, TypeInv, TrailTypeOK
  <2>3. \A k, l \in 1..Len(rows) :
            k < l /\ rows[k].req = rows[l].req /\ rows[l].order # 0 => rows[k].order < rows[l].order
    BY <2>1 DEF Ledger, Numbered
  <2>4. rows[i].order \in Nat /\ rows[j].order \in Nat
    <3>1. rows[i] \in RowType /\ rows[j] \in RowType
      BY <2>2
    <3> QED
      BY <3>1 DEF RowType
  <2>5. ASSUME rows[i].kind = "command", rows[j].kind = "event", events[rows[j].of].by = rows[i].of
        PROVE  i < j
    <3>1. rows[i].of \in 1..Len(invs) /\ invs[rows[i].of].row = i
      BY <2>1, <2>5 DEF CommandRows
    <3>2. invs[rows[i].of].row < j
      BY <2>1, <2>5, <3>1 DEF Ordered, Before
    <3> QED
      BY <3>1, <3>2
  <2>6. ASSUME rows[i].kind = "event", rows[j].kind = "command",
               invs[rows[j].of].cause = rows[i].of, events[rows[i].of].timing = "immediate"
        PROVE  i < j
    <3>1. rows[j].of \in 1..Len(invs) /\ invs[rows[j].of].row = j
      BY <2>1, <2>6 DEF CommandRows
    <3>2. i < invs[rows[j].of].row
      BY <2>1, <2>6, <3>1 DEF Ordered, Before
    <3> QED
      BY <3>1, <3>2
  <2>7. Causes(i, j) => i < j
    BY <2>5, <2>6 DEF Causes
  <2>8. i # j /\ rows[i].req = rows[j].req /\ rows[i].order # 0 /\ rows[j].order # 0 =>
            rows[i].order # rows[j].order
    <3>1. CASE i < j
      BY <2>3, <2>4, <3>1
    <3>2. CASE j < i
      BY <2>3, <2>4, <3>2
    <3> QED
      BY <2>2, <3>1, <3>2
  <2> QED
    BY <2>3, <2>7, <2>8
<1> QED
  BY <1>1, ChainCorrect, EmittedCorrect, AuditCorrect, OrderedCorrect, LedgerCorrect, PTL DEF AuditInv

\* With no publisher but the dispatcher, every event is some command's.
CommandEvents == \A e \in 1..Len(events) : events[e].by # 0

\* That is so, as only ExternalEventPublisher publishes for nobody.
LEMMA CommandEventsCorrect ==
  ASSUME Publishes = {}
  PROVE  Spec => []CommandEvents
<1>1. Init => CommandEvents
  <2>1. Len(<<>>) = 0
    OBVIOUS
  <2> QED
    BY <2>1 DEF Init, CommandEvents
<1>2. ChainInv /\ CommandEvents /\ [Next]_vars => CommandEvents'
  <2>1. SUFFICES ASSUME ChainInv, CommandEvents, [Next]_vars
                 PROVE  CommandEvents'
    OBVIOUS
  <2>2. KnownEvents /\ Len(events) \in Nat /\ TypeInv
    BY <2>1, KnownEventsStep DEF ChainInv, TypeInv, HistoryOK
  <2>3. CASE Len(events') = Len(events)
    BY <2>1, <2>2, <2>3 DEF KnownEvents, CommandEvents
  <2>4. ASSUME NEW nNow \in 0..MaxEvents, NEW nLater \in 0..MaxEvents, HandlerReturns(nNow, nLater)
        PROVE  CommandEvents'
    <3>1. NewEvents(Top.inv, nNow, nLater) /\ Top.inv \in 1..Len(invs)
      BY <2>2, <2>4, HandlerReturnsEffect, TopInvocation DEF HandlerReturns, At
    <3>2. \A e \in 1..Len(events') : e \in 1..Len(events) \/ e \in (Len(events) + 1)..Len(events')
      BY <2>2 DEF KnownEvents
    <3>3. Top.inv # 0
      BY <3>1
    <3> QED
      BY <2>1, <2>2, <3>1, <3>2, <3>3 DEF NewEvents, CommandEvents, KnownEvents
  <2>5. \/ PublishRaw \/ UNCHANGED events
        \/ \E nNow, nLater \in 0..MaxEvents : HandlerReturns(nNow, nLater)
    BY <2>1 DEF Next, Proceed, Call, Invoke, ParticipantFails, HandlerThrows, RegisterDeferred,
       StampSuccess, StampSuccessThrows, Commits, CommitThrows, UnexpectedRollback, RunCallback,
       CallbacksDone, LogDeferred, Completed, Abort, StampFailure, MarkEventsFailed,
       FailureStampThrows, Finish, PublishWrapper, PublishDone, PublishThrows, PolicyReturns,
       PolicyThrows, PolicyCatches, HandlerCatches, Crash, vars
  <2>6. PublishRaw => Len(events') = Len(events)
    BY <2>1, DeliverStep
  <2> QED
    BY <2>3, <2>4, <2>5, <2>6
<1> QED
  BY <1>1, <1>2, ChainCorrect, PTL DEF Spec

\* As long as events are published by commands only, the audit rows of a chain are
\* numbered in the order of cause and effect: command, immediate event, policy, nested
\* command.  An external publication may lose its request between two of its policies.
THEOREM AuditOrderIsCausal ==
  ASSUME Publishes = {}
  PROVE  Spec => []CausalOrder
<1>1. ChainInv /\ Emitted /\ CommandRows /\ CommandEvents /\ OrderInRequests => CausalOrder
  <2>1. SUFFICES ASSUME ChainInv, Emitted, CommandRows, CommandEvents, OrderInRequests,
                        NEW i \in 1..Len(rows), NEW j \in 1..Len(rows), Causes(i, j)
                 PROVE  rows[i].req = rows[j].req
    BY DEF OrderInRequests, CausalOrder
  <2>2. CASE /\ rows[i].kind = "command" /\ rows[j].kind = "event"
             /\ events[rows[j].of].by = rows[i].of
    <3>1. rows[i].of \in 1..Len(invs) /\ invs[rows[i].of].row = i
      BY <2>1, <2>2 DEF CommandRows
    <3>2. rows[i].req = invs[rows[i].of].req
      BY <2>1, <3>1 DEF CommandRows
    <3>3. From(rows[j].of, rows[j].req)
      BY <2>1, <2>2 DEF Emitted, EventRows
    <3> QED
      BY <2>1, <2>2, <3>2, <3>3 DEF From, Tells, CommandEvents
  <2>3. CASE /\ rows[i].kind = "event" /\ rows[j].kind = "command"
             /\ invs[rows[j].of].cause = rows[i].of
    <3>1. rows[i].of \in 1..Len(events) /\ events[rows[i].of].by # 0
          /\ invs[events[rows[i].of].by].req = rows[i].req
      BY <2>1, <2>3 DEF Emitted, EventRows, From, Tells, CommandEvents
    <3>2. rows[j].of \in 1..Len(invs) /\ invs[rows[j].of].req = rows[j].req
      BY <2>1, <2>3 DEF CommandRows
    <3>3. invs[rows[j].of].cause # 0
      BY <2>3, <3>1
    <3> QED
      BY <2>1, <2>3, <3>1, <3>2, <3>3 DEF Emitted, Caused, From, Tells
  <2> QED
    BY <2>1, <2>2, <2>3 DEF Causes
<1> QED
  BY <1>1, ChainCorrect, EmittedCorrect, AuditCorrect, CommandEventsCorrect, OrderFollowsCauses, PTL
  DEF AuditInv

(***************************************************************************)
(* Writes that stand: whatever is published, and whatever an invocation is *)
(* about to call successful, tells of writes that have not been undone.    *)
(***************************************************************************)
Standing == {"open", "adrift", "committed"}
StandsIn(evs, is, e) == evs[e].by # 0 => is[evs[e].by].write \in Standing

StandingTodo ==
    \A i \in Publishing : \A k \in 1..Len(stack[i].todo) : StandsIn(events, invs, stack[i].todo[k])
StandingFrames ==
    \A i \in Invoking : stack[i].step \in {"register", "stamp"} =>
        Of(i).write \in Standing \/ (i = Len(stack) /\ exc = TRUE)

\* The steps that undo writes: the end of the transaction without a commit.
Undoes == Settles /\ ~Commits /\ Inv.opens

\* Only those, and a crash, make writes that stand fall.
LEMMA StandingStays ==
  ASSUME ChainInv, FrameWrites, [Next]_vars, ~Undoes,
         NEW n \in 1..Len(invs), invs[n].write \in Standing,
         Crash => invs[n].write # "open"
  PROVE  invs'[n].write \in Standing
<1>1. TypeInv
  BY DEF ChainInv
<1>2. CASE UNCHANGED invs
  BY <1>2
<1>3. CASE \E s \in InvokeSteps : Onwards(s)
  BY <1>2, <1>3 DEF Onwards
<1>4. CASE Handled
  <2>1. /\ Running /\ Top.kind = "invoke" /\ Top.step = "handle" /\ ~exc
        /\ \A j \in 1..Len(invs) : j # Top.inv => invs'[j] = invs[j]
    BY <1>4 DEF Handled
  <2>2. Inv.write = "none" /\ Inv = invs[Top.inv]
    BY <2>1, TopFits DEF Fits
  <2> QED
    BY <2>1, <2>2 DEF Standing
<1>5. CASE Settles
  <2>1. CASE Commits
    BY <2>1, CommitsEffect DEF Standing
  <2>2. CASE ~Commits /\ ~Inv.opens
    <3>1. CASE Abort
      BY <1>2, <2>2, <3>1 DEF Abort
    <3>2. CASE CommitThrows \/ UnexpectedRollback
      <4>1. Running /\ Top.kind = "invoke" /\ Top.step = "commit"
        BY <3>2 DEF CommitThrows, UnexpectedRollback, At
      <4> QED
        BY <2>2, <4>1, TopFits
    <3> QED
      BY <1>5, <2>2, <3>1, <3>2 DEF Settles
  <2> QED
    BY <1>5, <2>1, <2>2 DEF Undoes
<1>6. ASSUME NEW saved \in BOOLEAN, Invoke(saved)
      PROVE  invs'[n].write \in Standing
  <2>1. invs'[n] = invs[n]
    BY <1>1, <1>6, InvokeEffect
  <2> QED
    BY <2>1
<1>7. ASSUME NEW s \in {"return", "throw"}, Finish(s)
      PROVE  invs'[n].write \in Standing
  <2>1. Running /\ Top.kind = "invoke" /\ invs' = Ended(s)
    BY <1>7 DEF Finish, At
  <2>2. invs'[n].write = invs[n].write
    BY <1>1, <2>1, EndedInvs DEF Inv
  <2> QED
    BY <2>2
<1>8. CASE Crash
  BY <1>1, <1>8, CrashInvs
<1> QED
  BY <1>2, <1>3, <1>4, <1>5, <1>6, <1>7, <1>8, StepKinds DEF Untouched, vars

\* The invocation that undoes writes is the only one on the stack, and the last frame.
LEMMA UndoesAlone ==
  ASSUME ChainInv, FrameWrites, Undoes
  PROVE  /\ Running /\ Top.kind = "invoke" /\ Inv.opens /\ Invoking = {Len(stack)}
         /\ Inv = Of(Len(stack)) /\ Top = stack[Len(stack)] /\ Len(stack) \in Nat
<1>1. TypeInv /\ Txn
  BY DEF ChainInv
<1>2. Running /\ Top.kind = "invoke" /\ Inv.opens
  BY DEF Undoes, Settles, Commits, CommitThrows, UnexpectedRollback, Abort, At
<1> QED
  BY <1>1, <1>2, OnlyOpener, TopInvocation

\* What is being published stands.
LEMMA StandingTodoStep ==
  ASSUME ChainInv, Emitted, FrameWrites, Emitter, Awaiting, StandingTodo, [Next]_vars
  PROVE  StandingTodo'
<1>1. TypeInv /\ Txn /\ KnownEvents /\ StackKept /\ Len(events) \in Nat /\ Sending /\ Len(invs) \in Nat
  BY StackStep, KnownEventsStep DEF ChainInv, Emitted, TypeInv, HistoryOK
<1>2. PICK n \in Nat : n = Len(stack)
  BY <1>1 DEF TypeInv, StackOK
<1>3. SUFFICES ASSUME NEW i \in Publishing', NEW k \in 1..Len(stack'[i].todo)
               PROVE  StandsIn(events', invs', stack'[i].todo[k])
  BY DEF StandingTodo
<1>4. i \in 1..Len(stack') /\ stack'[i].kind = "publish" /\ i <= n + 1
  BY <1>1, <1>2 DEF Publishing, StackKept
<1>5. CASE i <= n
  <2>1. Keeps(i)
    BY <1>1, <1>2, <1>4, <1>5 DEF StackKept
  <2>2. i \in Publishing
    BY <1>4, <2>1 DEF Keeps, Publishing
  <2>3. stack[i].todo \in Seq(Nat)
    <3>1. stack[i] \in PublishFrame
      BY <1>1, <2>2 DEF Publishing, TypeInv, StackOK, FrameType, InvokeFrame, PolicyFrame
    <3> QED
      BY <3>1 DEF PublishFrame
  <2>4. PICK l \in 1..Len(stack[i].todo) : stack'[i].todo[k] = stack[i].todo[l]
    <3>1. CASE stack'[i].todo = stack[i].todo
      BY <3>1
    <3>2. CASE stack[i].todo # <<>> /\ stack'[i].todo = Tail(stack[i].todo)
      <4>1. k + 1 \in 1..Len(stack[i].todo) /\ stack'[i].todo[k] = stack[i].todo[k + 1]
        BY <2>3, <3>2
      <4> QED
        BY <4>1
    <3> QED
      BY <2>1, <2>2, <3>1, <3>2 DEF Keeps, Publishing
  <2> DEFINE e == stack[i].todo[l]
  <2>5. StandsIn(events, invs, e) /\ Sent(e, i)
    BY <1>1, <2>2 DEF StandingTodo, Sending
  <2>6. e \in 1..Len(events) /\ events[e].by \in 0..Len(invs)
    BY <2>5 DEF Sent, Outside, From, Tells, Emitter
  <2> HIDE DEF e
  <2>7. events'[e].by = events[e].by
    BY <1>1, <2>6 DEF KnownEvents
  <2>8. CASE events[e].by = 0
    BY <2>4, <2>7, <2>8 DEF StandsIn, e
  <2>9. CASE events[e].by # 0
    <3>1. events[e].by \in 1..Len(invs) /\ invs[events[e].by].write \in Standing
      BY <1>1, <2>5, <2>6, <2>9 DEF StandsIn
    <3>2. ~Undoes
      <4>1. SUFFICES ASSUME Undoes PROVE FALSE
        OBVIOUS
      <4>2. PICK j \in Invoking : j < i
        BY <2>5, <2>9 DEF Sent, Outside
      <4>3. Invoking = {Len(stack)}
        BY <4>1, UndoesAlone
      <4>4. j = n
        BY <1>2, <4>2, <4>3
      <4>5. i \in Nat
        BY <2>2 DEF Publishing
      <4> QED
        BY <1>5, <4>2, <4>4, <4>5
    <3>3. ~Crash
      <4>1. SUFFICES ASSUME Crash PROVE FALSE
        OBVIOUS
      <4>2. stack' = <<>>
        BY <4>1 DEF Crash
      <4>3. Len(stack') = 0
        BY <4>2
      <4>4. i \in 1..0
        BY <1>4, <4>3
      <4> QED
        BY <4>4
    <3>4. invs'[events[e].by].write \in Standing
      BY <3>1, <3>2, <3>3, StandingStays
    <3> QED
      BY <2>4, <2>7, <3>4 DEF StandsIn, e
  <2> QED
    BY <2>8, <2>9
<1>6. CASE i = n + 1
  <2>1. Pushing
    BY <1>1, <1>2, <1>4, <1>6, StackStep
  <2>2. CASE RunCallback
    <3>1. stack'[i].todo = NextCallback.events
      BY <1>1, <1>2, <1>6, <2>1, <2>2, PushedFrame
    <3>2. Running /\ Top.kind = "invoke" /\ Top.step = "afterCommit" /\ tx.due > 0
      BY <2>2 DEF RunCallback, At
    <3>3. 1 \in 1..Len(tx.callbacks) /\ NextCallback = tx.callbacks[1] /\ 1 <= tx.due
      <4>1. tx.callbacks \in Seq(CallbackType) /\ tx.due \in Nat /\ tx.due <= Len(tx.callbacks)
        BY <1>1 DEF TypeInv, TxOK, TxType
      <4> QED
        BY <3>2, <4>1 DEF NextCallback
    <3>4. tx.phase = "afterCommit"
      <4>1. Len(stack) \in Invoking /\ stack[Len(stack)].step = "afterCommit"
        BY <1>1, <3>2, TopInvocation
      <4> QED
        BY <1>1, <4>1 DEF Txn, Phased, PhaseAt
    <3>5. Registered(tx.due, "committed")
      BY <3>4 DEF Awaiting
    <3>6. invs[events[stack'[i].todo[k]].by].write = "committed"
      BY <1>3, <3>1, <3>3, <3>5 DEF Registered, Bears
    <3>7. UNCHANGED <<events, invs>>
      BY <2>2 DEF RunCallback
    <3> QED
      BY <3>6, <3>7 DEF StandsIn, Standing
  <2>3. CASE \E timing \in Publishes : PublishExternal(timing)
    <3>1. stack'[i].todo = <<Len(events) + 1>>
      BY <1>1, <1>2, <1>6, <2>1, <2>3, PushedFrame
    <3>2. \E e : events' = Append(events, e) /\ e.by = 0
      BY <2>3 DEF PublishExternal
    <3>3. events \in Seq(EventType)
      BY <1>1 DEF TypeInv, HistoryOK
    <3>4. stack'[i].todo[k] = Len(events) + 1
      BY <1>3, <3>1
    <3>5. events'[Len(events) + 1].by = 0
      BY <3>2, <3>3
    <3> QED
      BY <3>4, <3>5 DEF StandsIn
  <2>4. ASSUME NEW nNow \in 0..MaxEvents, NEW nLater \in 0..MaxEvents, HandlerReturns(nNow, nLater)
        PROVE  StandsIn(events', invs', stack'[i].todo[k])
    <3>1. /\ nNow \in Nat /\ nLater \in Nat
          /\ NewEvents(Top.inv, nNow, nLater) /\ DispatchFrames(nNow, nLater)
      BY <1>1, <2>4, HandlerReturnsEffect
    <3>2. Len(stack'[i].todo) = nNow /\ \A l \in 1..nNow : stack'[i].todo[l] = Len(events) + l
      BY <1>2, <1>6, <3>1 DEF DispatchFrames
    <3>3. k \in 1..nNow /\ stack'[i].todo[k] = Len(events) + k
      BY <1>3, <3>2
    <3>4. Len(events') = Len(events) + nNow + nLater
      BY <3>1 DEF NewEvents
    <3>5. Len(events) + k \in (Len(events) + 1)..Len(events')
      BY <1>1, <3>1, <3>3, <3>4
    <3>6. events'[stack'[i].todo[k]].by = Top.inv
      BY <3>1, <3>3, <3>5 DEF NewEvents
    <3>7. invs'[Top.inv].write = Written
      <4>1. Running /\ Top.kind = "invoke"
        BY <2>4 DEF HandlerReturns, At
      <4>2. Inv \in InvType /\ invs'[Top.inv] = [Inv EXCEPT !.write = Written]
        BY <1>1, <2>4, <4>1, HandlerReturnsEffect, TopInvocation
      <4> QED
        BY <4>2 DEF InvType
    <3> QED
      BY <3>6, <3>7 DEF StandsIn, Standing, Written
  <2>5. ~PublishRaw /\ ~ \E saved \in BOOLEAN : Invoke(saved)
    BY <1>1, <1>2, <1>4, <1>6, <2>1, PushedFrame
  <2> QED
    BY <2>1, <2>2, <2>3, <2>4, <2>5 DEF Pushing, Dispatching
<1> QED
  BY <1>2, <1>4, <1>5, <1>6

\* An invocation whose handler has returned has writes that stand, until it fails.
LEMMA StandingFramesStep ==
  ASSUME ChainInv, OnStack, FrameWrites, StandingFrames, [Next]_vars
  PROVE  StandingFrames'
<1>1. TypeInv /\ TxOK /\ Shape /\ Txn
  BY DEF ChainInv, TypeInv
<1>2. PICK n \in Nat : n = Len(stack)
  BY <1>1 DEF TypeInv, StackOK
<1>3. SUFFICES ASSUME NEW i \in Invoking', stack'[i].step \in {"register", "stamp"}
               PROVE  Of(i)'.write \in Standing \/ (i = Len(stack') /\ exc' = TRUE)
  BY DEF StandingFrames
\* The frame was there before.
<1>4. ASSUME i \in Invoking, stack[i].step \in {"register", "stamp"}, stack'[i].inv = stack[i].inv,
             ~(i = Len(stack) /\ exc = TRUE), ~Crash, ~Undoes
      PROVE  Of(i)'.write \in Standing
  <2>1. Of(i).write \in Standing /\ stack[i].inv \in 1..Len(invs)
    BY <1>1, <1>4 DEF StandingFrames, TypeInv, StackOK
  <2> QED
    BY <1>4, <2>1, StandingStays DEF Of
<1>5. CASE UNCHANGED vars
  BY <1>3, <1>5 DEF vars, StandingFrames, Of, Invoking
<1>6. ~Crash
  <2>1. SUFFICES ASSUME Crash PROVE FALSE
    OBVIOUS
  <2>2. stack' = <<>>
    BY <2>1 DEF Crash
  <2>3. Len(stack') = 0
    BY <2>2
  <2>4. i \in 1..0
    BY <1>3, <2>3 DEF Invoking
  <2> QED
    BY <2>4
<1>7. CASE Untouched
  <2>1. i \in Invoking /\ stack'[i].inv = stack[i].inv /\ stack[i].step = stack'[i].step /\ UNCHANGED invs
    BY <1>3, <1>7 DEF Untouched, SameInvocations
  <2>2. ~(i = Len(stack) /\ exc = TRUE)
    <3>1. SUFFICES ASSUME i = Len(stack), exc = TRUE PROVE FALSE
      OBVIOUS
    <3>2. Running /\ Top = stack[i] /\ Top.kind = "invoke" /\ Top.step \in {"register", "stamp"}
      BY <1>1, <1>3, <2>1, <3>1, TopFrame DEF Invoking, TypeInv, StackOK
    <3> QED
      BY <1>7, <3>1, <3>2 DEF Untouched
  <2>3. Of(i).write \in Standing
    BY <1>3, <2>1, <2>2 DEF StandingFrames
  <2> QED
    BY <2>1, <2>3 DEF Of
<1>8. ASSUME NEW s \in InvokeSteps, s # "register", Running, ~exc \/ s # "stamp",
             Top.kind = "invoke", Goto(s), ~Undoes, s = "stamp" => Top.step = "register"
      PROVE  Of(i)'.write \in Standing
  <2>1. MoveInvocation(s) /\ Top = stack[Len(stack)]
    BY <1>1, <1>8, MovesInvocation, TopInvocation
  <2>2. i \in Invoking /\ stack'[i].inv = stack[i].inv /\ stack[i].step \in {"register", "stamp"}
        /\ (i = Len(stack) => s = "stamp")
    BY <1>3, <1>8, <2>1 DEF MoveInvocation
  <2> QED
    BY <1>4, <1>6, <1>8, <2>2
<1>9. CASE \E s \in InvokeSteps : Onwards(s)
  <2>1. PICK s \in InvokeSteps : Onwards(s)
    BY <1>9
  <2>2. /\ s # "register" /\ Running /\ ~exc /\ Top.kind = "invoke" /\ Goto(s) /\ UNCHANGED <<invs, exc>>
        /\ s = "stamp" => Top.step = "register"
    BY <2>1 DEF Onwards
  <2>3. ~Undoes
    <3>1. SUFFICES ASSUME Undoes PROVE FALSE
      OBVIOUS
    <3>2. Abort \/ CommitThrows \/ UnexpectedRollback
      BY <3>1 DEF Undoes, Settles
    <3>3. ~Abort
      BY <2>2 DEF Abort
    <3>4. Top.step = "commit"
      BY <3>2, <3>3 DEF CommitThrows, UnexpectedRollback, At
    <3> QED
      BY <2>1, <3>4 DEF Onwards
  <2> QED
    BY <1>8, <2>2, <2>3
<1>10. CASE Handled
  <2>1. /\ MoveInvocation("register") /\ Len(stack) \in Invoking /\ Invoking' = Invoking
        /\ stack'[i].inv = stack[i].inv /\ Top = stack[Len(stack)] /\ ~exc
        /\ Top.step = "handle"
    BY <1>1, <1>3, <1>10, TopInvocation DEF Handled, MoveInvocation
  <2>2. CASE i = Len(stack)
    <3>1. CASE invs'[Top.inv].write = Written
      BY <2>1, <2>2, <3>1 DEF Of, Written, Standing
    <3> QED
      BY <1>10, <2>2, <3>1 DEF Handled
  <2>3. CASE i # Len(stack)
    <3>1. i \in Invoking /\ stack[i].step = stack'[i].step
      BY <1>3, <2>1, <2>3 DEF MoveInvocation
    <3>2. ~Undoes
      BY <2>1 DEF Undoes, Settles, CommitThrows, UnexpectedRollback, Abort, At
    <3> QED
      BY <1>3, <1>4, <1>6, <2>1, <2>3, <3>1, <3>2
  <2> QED
    BY <2>2, <2>3
<1>11. CASE Settles
  <2>1. PICK s \in {"afterCommit", "stampFailure", "return"} : Running /\ Top.kind = "invoke" /\ Goto(s)
    BY <1>11 DEF Settles, Commits, CommitThrows, UnexpectedRollback, Abort, At
  <2>2. MoveInvocation(s)
    BY <1>1, <2>1, MovesInvocation DEF InvokeSteps
  <2>3. i \in Invoking /\ i # Len(stack)
    BY <1>3, <2>1, <2>2 DEF MoveInvocation
  <2>4. ~Undoes
    BY <2>3, UndoesAlone
  <2> QED
    BY <1>8, <2>1, <2>4 DEF InvokeSteps
<1>12. ASSUME NEW saved \in BOOLEAN, Invoke(saved)
       PROVE  Of(i)'.write \in Standing
  <2>1. /\ NewInvocation /\ MayCall
        /\ \A m \in 1..Len(invs) : invs'[m] = invs[m]
    BY <1>1, <1>12, InvokeEffect
  <2>2. i \in Invoking /\ stack'[i].inv = stack[i].inv /\ stack[i].step = stack'[i].step
    BY <1>3, <2>1 DEF NewInvocation
  <2>3. stack[i].inv \in 1..Len(invs) /\ ~exc
    BY <1>1, <2>1, <2>2 DEF TypeInv, StackOK, MayCall
  <2>4. Of(i).write \in Standing
    BY <1>3, <2>2, <2>3 DEF StandingFrames
  <2> QED
    BY <2>1, <2>2, <2>3, <2>4 DEF Of
<1>13. ASSUME NEW s \in {"return", "throw"}, Finish(s)
       PROVE  Of(i)'.write \in Standing
  <2>1. EndInvocation /\ Running /\ ~exc /\ Top.kind = "invoke" /\ invs' = Ended(s)
    BY <1>1, <1>13, FinishInvocation DEF Finish, At
  <2>2. i \in Invoking /\ stack'[i].inv = stack[i].inv /\ stack[i].step = stack'[i].step
    BY <1>3, <2>1 DEF EndInvocation
  <2>3. stack[i].inv \in 1..Len(invs) /\ Of(i).write \in Standing
    BY <1>1, <1>3, <2>1, <2>2 DEF TypeInv, StackOK, StandingFrames
  <2>4. \A m \in 1..Len(invs) : invs'[m].write = invs[m].write
    BY <1>1, <2>1, EndedInvs DEF Inv
  <2> QED
    BY <2>2, <2>3, <2>4 DEF Of
<1> QED
  BY <1>5, <1>6, <1>7, <1>9, <1>10, <1>11, <1>12, <1>13, StepKinds

\* It always holds.
LEMMA StandingCorrect == Spec => [](StandingTodo /\ StandingFrames)
<1>1. Init => StandingTodo /\ StandingFrames
  <2>1. Len(<<>>) = 0
    OBVIOUS
  <2> QED
    BY <2>1 DEF Init, StandingTodo, StandingFrames, Publishing, Invoking
<1>2. OutcomeInv /\ Emitted /\ Deferring /\ StandingTodo /\ StandingFrames /\ [Next]_vars
         => (StandingTodo /\ StandingFrames)'
  BY StandingTodoStep, StandingFramesStep DEF OutcomeInv, Requests, Writing, Deferring
<1> QED
  BY <1>1, <1>2, OutcomeCorrect, EmittedCorrect, DeferringCorrect, PTL DEF Spec

(***************************************************************************)
(* Rows that call something successful.  They tell of writes that stand,   *)
(* or their request has crashed, or its top-level command is just failing  *)
(* and is about to mark them failed.                                       *)
(***************************************************************************)
OpenersTop == \A n \in 1..Len(invs) : invs[n].opens => ~invs[n].nested

Failing(r) == \E i \in Invoking : /\ ~Of(i).nested /\ Of(i).req = r
                                  /\ stack[i].step \in {"stampFailure", "markFailed"}

TrueRow(i) == rows[i].saved /\ rows[i].ok = TRUE /\ By(i) # 0 =>
                  \/ Crashed(rows[i].req)
                  \/ invs[By(i)].write \in Standing
                  \/ Failing(rows[i].req)
TrueRows == \A i \in 1..Len(rows) : TrueRow(i)

\* Where no event comes from outside, whoever finds MDC set is a policy below which an
\* invocation runs, and that has a transaction.
LEMMA OpenersTopStep ==
  ASSUME ChainInv, Emitted, CommandEvents, OpenersTop, [Next]_vars
  PROVE  OpenersTop'
<1>1. TypeInv /\ Shape /\ Txn /\ Mdc /\ Len(invs) \in Nat
  BY DEF ChainInv, TypeInv, HistoryOK
<1>2. CASE SameInvs
  BY <1>2 DEF SameInvs, OpenersTop
<1>3. ASSUME NEW saved \in BOOLEAN, Invoke(saved)
      PROVE  OpenersTop'
  <2>1. /\ Len(invs') = Len(invs) + 1 /\ \A n \in 1..Len(invs) : invs'[n] = invs[n]
        /\ invs'[Len(invs) + 1].nested = (mdc # 0)
        /\ invs'[Len(invs) + 1].opens = ~InTransaction /\ MayCall
    BY <1>1, <1>3, InvokeEffect
  <2>2. ~InTransaction => mdc = 0
    <3>1. SUFFICES ASSUME tx.phase = "none", mdc # 0 PROVE FALSE
      BY DEF InTransaction
    <3>2. Invoking = {}
      BY <1>1, <2>1, <3>1, CallablePhase
    <3>3. Running
      BY <1>1, <2>1, <3>1, CallableMdc
    <3>4. Top.kind = "policy" /\ Len(stack) \in Listening /\ Top = stack[Len(stack)]
      <4>1. stack \in Seq(FrameType)
        BY <1>1 DEF TypeInv, StackOK
      <4>2. Top.kind # "invoke"
        BY <3>2, <3>3, <4>1, TopFrame
      <4> QED
        BY <2>1, <3>3, <4>1, <4>2, TopFrame DEF MayCall, At
    <3>5. Outside(events, Top.event)
      BY <3>2, <3>4 DEF Emitted, Heard, Sent
    <3> QED
      BY <3>5 DEF Outside, CommandEvents
  <2>3. \A n \in 1..Len(invs') : n \in 1..Len(invs) \/ n = Len(invs) + 1
    BY <1>1, <2>1
  <2> QED
    BY <2>1, <2>2, <2>3 DEF OpenersTop
<1>4. SameInvs \/ \E saved \in BOOLEAN : Invoke(saved)
  <2>1. CASE UNCHANGED vars
    BY <2>1 DEF vars, SameInvs
  <2> QED
    BY <1>1, <2>1, InvsStep
<1> QED
  BY <1>2, <1>3, <1>4

\* Whom a row tells of.
LEMMA RowOwner ==
  ASSUME ChainInv, Emitted, CommandRows, NEW i \in 1..Len(rows), By(i) # 0
  PROVE  By(i) \in 1..Len(invs) /\ invs[By(i)].req = rows[i].req
<1>1. rows[i] \in RowType
  BY DEF ChainInv, TypeInv, TrailTypeOK
<1>2. CASE rows[i].kind = "command"
  BY <1>2 DEF By, CommandRows
<1>3. CASE rows[i].kind = "event"
  BY <1>3 DEF By, Emitted, EventRows, From, Tells
<1> QED
  BY <1>1, <1>2, <1>3 DEF RowType

\* That does not change.
LEMMA OwnerKept ==
  ASSUME ChainInv, Emitted, [Next]_vars, NEW i \in 1..Len(rows)
  PROVE  By(i)' = By(i) /\ rows'[i].req = rows[i].req /\ rows'[i].saved = rows[i].saved
<1>1. SameRowsSoFar /\ KnownEvents /\ rows[i] \in RowType
  <2>1. TypeInv /\ rows[i] \in RowType
    BY DEF ChainInv, TypeInv, TrailTypeOK
  <2> QED
    BY <2>1, RowAdded, KnownEventsStep
<1>2. CASE rows[i].kind = "command"
  BY <1>1, <1>2 DEF By, SameRowsSoFar
<1>3. CASE rows[i].kind = "event"
  <2>1. rows[i].of \in 1..Len(events)
    BY <1>3 DEF Emitted, EventRows, From, Tells
  <2> QED
    BY <1>1, <1>3, <2>1 DEF By, SameRowsSoFar, KnownEvents
<1> QED
  BY <1>1, <1>2, <1>3 DEF RowType

\* A request that has crashed has crashed for good.
LEMMA CrashedStays ==
  ASSUME ChainInv, OnStack, [Next]_vars, NEW r, Crashed(r)
  PROVE  \E n \in 1..Len(invs') : invs'[n].req = r /\ invs'[n].outcome = "crashed"
<1>1. TypeInv /\ Len(invs) \in Nat
  BY DEF ChainInv, TypeInv, HistoryOK
<1>2. PICK n \in 1..Len(invs) : invs[n].req = r /\ invs[n].outcome = "crashed"
  BY DEF Crashed
<1>3. CASE StaysRunning
  BY <1>2, <1>3 DEF StaysRunning, SameInvs
<1>4. ASSUME NEW saved \in BOOLEAN, Invoke(saved)
      PROVE  n \in 1..Len(invs') /\ invs'[n] = invs[n]
  <2>1. Len(invs') = Len(invs) + 1 /\ invs'[n] = invs[n]
    BY <1>1, <1>2, <1>4, InvokeEffect
  <2> QED
    BY <1>1, <1>2, <2>1
<1>5. ASSUME NEW s \in {"return", "throw"}, Finish(s)
      PROVE  n \in 1..Len(invs') /\ invs'[n] = invs[n]
  <2>1. Running /\ Top.kind = "invoke" /\ invs' = Ended(s)
    BY <1>5 DEF Finish, At
  <2>2. n # Top.inv
    BY <1>2, <2>1, TopRuns DEF Inv
  <2> QED
    BY <1>1, <1>2, <2>1, <2>2, EndedInvs DEF SameInvs
<1>6. CASE Crash
  BY <1>1, <1>2, <1>6, CrashInvs DEF SameInvs
<1> QED
  BY <1>2, <1>3, <1>4, <1>5, <1>6, OutcomesStep

\* A crash with invocations of a request on the stack is one of the request.
LEMMA RunningCrashes ==
  ASSUME ChainInv, OnStack, Crash, NEW i \in Invoking
  PROVE  \E n \in 1..Len(invs') : invs'[n].req = Of(i).req /\ invs'[n].outcome = "crashed"
<1>1. TypeInv /\ stack[i].inv \in 1..Len(invs)
  BY DEF ChainInv, TypeInv, StackOK
<1>2. invs[stack[i].inv].outcome = "running"
  BY <1>1 DEF OnStack
<1> QED
  BY <1>1, <1>2, CrashInvs DEF Of, SameInvs

\* A top-level command that fails goes on to mark the rows of its request.
LEMMA FailingStep ==
  ASSUME ~StampsFail, ChainInv, OnStack, [Next]_vars, NEW r, Failing(r)
  PROVE  \/ \E i \in Invoking' : /\ ~Of(i)'.nested /\ Of(i)'.req = r
                                 /\ stack'[i].step \in {"stampFailure", "markFailed"}
         \/ \E n \in 1..Len(invs') : invs'[n].req = r /\ invs'[n].outcome = "crashed"
         \/ MarkEventsFailed /\ Inv.req = r
<1>1. TypeInv /\ Shape
  BY DEF ChainInv
<1>2. PICK i \in Invoking : /\ ~Of(i).nested /\ Of(i).req = r
                            /\ stack[i].step \in {"stampFailure", "markFailed"}
  BY DEF Failing
<1>3. i = Len(stack)
  BY <1>1, <1>2, WaitingInvocation
<1>4. Running /\ Top = stack[i] /\ Top.kind = "invoke" /\ Inv = Of(i)
  <2>1. Running /\ Top = stack[i] /\ Top.kind = "invoke"
    BY <1>1, <1>3, TopFrame DEF TypeInv, StackOK, Invoking, Running
  <2> QED
    BY <1>1, <1>3, <2>1, TopInvocation
<1>5. ~exc
  BY <1>2, <1>3, <1>4, <1>1 DEF Shape, Throws
<1>6. CASE UNCHANGED vars
  BY <1>2, <1>6 DEF vars, Of, Invoking
<1>7. ~Untouched /\ ~Handled /\ ~ \E saved \in BOOLEAN : Invoke(saved)
  BY <1>2, <1>4, <1>5 DEF Untouched, Handled, Invoke, MayCall, At
<1>8. ~Settles /\ ~ \E s \in {"return", "throw"} : Finish(s)
  BY <1>2, <1>4, <1>5 DEF Settles, Commits, CommitThrows, UnexpectedRollback, Abort, Finish, At
<1>9. CASE Crash
  BY <1>2, <1>9, RunningCrashes
<1>10. ASSUME Next, NEW s \in InvokeSteps, Onwards(s), ~(MarkEventsFailed /\ Inv.req = r)
       PROVE  \E j \in Invoking' : /\ ~Of(j)'.nested /\ Of(j)'.req = r
                                   /\ stack'[j].step \in {"stampFailure", "markFailed"}
  <2>1. MoveInvocation(s) /\ KnownInvs
    BY <1>1, <1>4, <1>10, MovesInvocation, KnownInvsStep DEF Onwards
  <2>2. i \in Invoking' /\ stack'[i].step = s /\ stack'[i].inv = stack[i].inv
    BY <1>2, <1>3, <2>1 DEF MoveInvocation
  <2>3. s # "throw"
    <3>1. SUFFICES ASSUME s = "throw" PROVE FALSE
      OBVIOUS
    <3>2. StampFailure \/ MarkEventsFailed \/ FailureStampThrows
      BY <1>10, <2>2, <3>1, BeforeThrow
    <3>3. ~FailureStampThrows
      BY DEF FailureStampThrows
    <3>4. ~MarkEventsFailed
      BY <1>2, <1>4, <1>10
    <3>5. Goto("markFailed")
      BY <1>2, <1>4, <3>2, <3>3, <3>4 DEF StampFailure
    <3>6. MoveInvocation("markFailed")
      BY <1>1, <1>4, <3>5, MovesInvocation DEF InvokeSteps
    <3> QED
      BY <1>2, <1>3, <2>2, <3>1, <3>6 DEF MoveInvocation
  <2>4. s = "markFailed"
    BY <1>2, <1>4, <1>10, <2>3 DEF Onwards
  <2>5. Of(i)'.nested = Of(i).nested /\ Of(i)'.req = Of(i).req
    BY <1>1, <2>1, <2>2, KnownOf
  <2> QED
    BY <1>2, <2>2, <2>4, <2>5
<1> QED
  BY <1>6, <1>7, <1>8, <1>9, <1>10, StepKinds

\* When writes are undone, the top-level command they are those of is failing.
LEMMA UndoesFails ==
  ASSUME ~ParticipantsFail, ChainInv, FrameWrites, NotMarked, OpenersTop, [Next]_vars, Undoes
  PROVE  \E i \in Invoking' : /\ ~Of(i)'.nested /\ Of(i)'.req = Inv.req
                              /\ stack'[i].step \in {"stampFailure", "markFailed"}
<1>1. /\ TypeInv /\ Running /\ Top.kind = "invoke" /\ Inv.opens /\ Inv = Of(Len(stack))
      /\ Len(stack) \in Invoking /\ Inv = invs[Top.inv] /\ Top.inv \in 1..Len(invs)
  BY UndoesAlone, TopFits DEF ChainInv
<1>2. Goto("stampFailure")
  <2>1. ~UnexpectedRollback
    BY DEF UnexpectedRollback, NotMarked
  <2> QED
    BY <2>1 DEF Undoes, Settles, CommitThrows, Abort
<1>3. MoveInvocation("stampFailure")
  BY <1>1, <1>2, MovesInvocation DEF InvokeSteps
<1>4. KnownInvs
  <2>1. Next
    <3>1. Len(stack) \in Nat
      BY <1>1 DEF TypeInv, StackOK
    <3> QED
      BY <1>1 DEF Undoes, Settles, Commits, CommitThrows, UnexpectedRollback, Abort, Next, Proceed
  <2> QED
    BY <1>1, <2>1, KnownInvsStep
<1>5. /\ Len(stack) \in Invoking' /\ stack'[Len(stack)].inv = stack[Len(stack)].inv
      /\ stack'[Len(stack)].step = "stampFailure"
  BY <1>1, <1>3 DEF MoveInvocation
<1>6. PICK i \in Invoking : i = Len(stack)
  BY <1>1
<1>7. Of(i)'.nested = Of(i).nested /\ Of(i)'.req = Of(i).req
  BY <1>1, <1>4, <1>5, <1>6, KnownOf
<1> QED
  BY <1>1, <1>5, <1>6, <1>7 DEF OpenersTop

\* A row that a stamp turns successful is the command row of an invocation whose
\* writes stand.
LEMMA TurnsTrue ==
  ASSUME ChainInv, CommandRows, StandingFrames, [Next]_vars, NEW i \in 1..Len(rows),
         rows[i].ok # TRUE, rows'[i].ok = TRUE
  PROVE  UNCHANGED invs /\ By(i) = Top.inv /\ invs[Top.inv].write \in Standing
<1>1. TypeInv /\ TrailTypeOK /\ RowsExist /\ rows \in Seq(RowType)
  BY DEF ChainInv, TypeInv, TrailTypeOK
<1>2. CASE StampSuccess
  <2>1. /\ Running /\ ~exc /\ Top.kind = "invoke" /\ Top.step = "stamp" /\ Stamp(Inv.row, TRUE)
        /\ UNCHANGED invs
    BY <1>2 DEF StampSuccess, At
  <2>2. /\ Top.inv \in 1..Len(invs) /\ Inv = invs[Top.inv] /\ Inv.row \in 1..Len(rows)
        /\ Inv = Of(Len(stack)) /\ Len(stack) \in Invoking /\ Top = stack[Len(stack)]
    BY <1>1, <2>1, TopInvocation DEF RowsExist
  <2>3. i = Inv.row
    BY <1>1, <2>1, <2>2, StampTrail
  <2>4. By(i) = Top.inv
    BY <2>2, <2>3 DEF CommandRows, By
  <2>5. Inv.write \in Standing
    BY <2>1, <2>2 DEF StandingFrames
  <2> QED
    BY <2>1, <2>2, <2>4, <2>5
<1>3. ~StampFailure
  <2>1. SUFFICES ASSUME StampFailure PROVE FALSE
    OBVIOUS
  <2>2. Running /\ Top.kind = "invoke" /\ Stamp(Inv.row, FALSE)
    BY <2>1 DEF StampFailure, At
  <2>3. Inv.row \in 1..Len(rows)
    BY <1>1, <2>2, TopInvocation DEF RowsExist
  <2>4. i # Inv.row => rows'[i] = rows[i]
    BY <1>1, <2>2, <2>3, StampTrail
  <2>5. rows'[Inv.row].ok = IF rows[Inv.row].saved THEN FALSE ELSE rows[Inv.row].ok
    BY <1>1, <2>2, <2>3, StampTrail
  <2> QED
    BY <2>4, <2>5
<1>4. ~MarkEventsFailed
  <2>1. SUFFICES ASSUME MarkEventsFailed PROVE FALSE
    OBVIOUS
  <2>2. Running /\ Top.kind = "invoke" /\ MarkFailed(Inv.req)
    BY <2>1 DEF MarkEventsFailed, At
  <2>3. rows'[i].ok = (rows[i].ok /\ ~(rows[i].req = Inv.req /\ rows[i].saved))
    BY <1>1, <2>2, TopInvocation, MarkFailedTrail
  <2>4. rows[i] \in RowType
    BY <1>1
  <2>5. rows[i].ok \in BOOLEAN
    BY <2>4 DEF RowType
  <2> QED
    BY <2>3, <2>5
<1>5. ~ \/ \E saved \in BOOLEAN : Invoke(saved)
        \/ \E saved \in BOOLEAN : LogDeferred(saved)
        \/ \E saved \in BOOLEAN : PublishWrapper(saved)
        \/ UNCHANGED rows
  <2>1. SUFFICES ASSUME UNCHANGED rows \/ \E row : rows' = Append(rows, row) PROVE FALSE
    BY DEF Invoke, LogDeferred, PublishWrapper, Record, trail
  <2>2. rows'[i] = rows[i]
    BY <1>1, <2>1
  <2> QED
    BY <2>2
<1> QED
  BY <1>2, <1>3, <1>4, <1>5, RowChanges

\* A row that is added as successful is of an event whose command's writes stand.
LEMMA AddedTrue ==
  ASSUME OutcomeInv, Emitted, Emitter, LateListeners, Released, StandingTodo, [Next]_vars,
         Len(rows') = Len(rows) + 1,
         NEW i, i = Len(rows) + 1, rows'[i].kind = "event", By(i)' # 0
  PROVE  invs'[By(i)'].write \in Standing
<1>1. /\ ChainInv /\ TypeInv /\ FrameWrites /\ Len(rows) \in Nat /\ Len(rows') = Len(rows) + 1
      /\ KnownEvents /\ Len(invs) \in Nat
  <2>1. ChainInv /\ TypeInv /\ FrameWrites /\ Len(invs) \in Nat
    BY DEF OutcomeInv, ChainInv, Writing, TypeInv, HistoryOK
  <2> QED
    BY <2>1, RowAdded, KnownEventsStep
<1>2. ~NoEventRow
  BY <1>1 DEF NoEventRow
<1> DEFINE e == rows'[i].of
<1>3. events'[e].by # 0 /\ By(i)' = events'[e].by
  BY DEF By
<1>4. CASE Wrapping /\ NewEventRow(Head(Top.todo))
  <2>1. e = Head(Top.todo) /\ UNCHANGED <<invs, events>>
    BY <1>4 DEF NewEventRow, Wrapping, PublishWrapper
  <2>2. /\ TopTodo \in Lists /\ Top.todo \in Seq(Nat) /\ Top.todo # <<>>
        /\ Running /\ Top.kind = "publish" /\ 1 \in 1..Len(Top.todo)
    BY <1>1, <1>4, TopList DEF Wrapping, PublishWrapper, At
  <2>3. Len(stack) \in Publishing /\ Top = stack[Len(stack)]
    BY <1>1, <2>2, TopPublication
  <2>4. StandsIn(events, invs, Top.todo[1])
    BY <2>2, <2>3 DEF StandingTodo
  <2>5. Head(Top.todo) = Top.todo[1]
    BY <2>2
  <2> QED
    BY <1>3, <2>1, <2>4, <2>5 DEF StandsIn
<1>5. CASE tx.listeners # <<>> /\ NewEventRow(Head(tx.listeners).event)
  <2>1. tx.listeners \in Seq(ListenerType)
    BY <1>1 DEF TypeInv, TxOK, TxType
  <2>2. 1 \in 1..Len(tx.listeners) /\ Head(tx.listeners) = tx.listeners[1]
    BY <1>5, <2>1
  <2>3. e = tx.listeners[1].event
    BY <1>5, <2>2 DEF NewEventRow
  <2>4. e \in 1..Len(events) /\ events[e].timing = "deferred" /\ Told(e)
    BY <2>2, <2>3 DEF Emitted, PutOff, From, Tells, LateListeners, Told
  <2>5. Final(e) /\ events[e].by \in 0..Len(invs) /\ events'[e].by = events[e].by
    BY <1>1, <2>4 DEF Released, Emitter, KnownEvents
  <2>6. events[e].by \in 1..Len(invs) /\ invs[events[e].by].write = "committed"
    BY <1>1, <1>3, <2>4, <2>5 DEF Final, FinalIn
  <2>7. invs'[events[e].by].write = "committed"
    BY <1>1, <2>6, StayCommitted
  <2> QED
    BY <1>3, <2>5, <2>7 DEF Standing
<1> QED
  BY <1>1, <1>2, <1>4, <1>5, TellStep

\* A row that was successful and stays so.
LEMMA StaysTrue ==
  ASSUME ~StampsFail, ~ParticipantsFail, OutcomeInv, Emitted, CommandRows, OpenersTop,
         [Next]_vars, NEW i \in 1..Len(rows), TrueRow(i), rows[i].ok = TRUE
  PROVE  TrueRow(i)'
<1>1. /\ ChainInv /\ TypeInv /\ TrailTypeOK /\ FrameWrites /\ OpenWrites /\ NotMarked /\ OnStack
      /\ Txn /\ rows[i] \in RowType
  BY DEF OutcomeInv, ChainInv, Writing, Requests, TypeInv, TrailTypeOK
<1>2. SUFFICES ASSUME rows'[i].saved, rows'[i].ok = TRUE, By(i)' # 0
               PROVE  Crashed(rows[i].req)' \/ invs'[By(i)].write \in Standing
                         \/ Failing(rows[i].req)'
  BY <1>1, OwnerKept DEF TrueRow
<1> DEFINE r == rows[i].req
<1>3. By(i)' = By(i) /\ rows'[i].req = r /\ rows'[i].saved = rows[i].saved
  BY <1>1, OwnerKept
<1>4. By(i) \in 1..Len(invs) /\ invs[By(i)].req = r
  BY <1>1, <1>2, <1>3, RowOwner
<1>5. CASE Crashed(r)
  BY <1>1, <1>3, <1>5, CrashedStays DEF Crashed
<1>6. CASE Failing(r)
  <2>1. ~(MarkEventsFailed /\ Inv.req = r)
    <3>1. SUFFICES ASSUME MarkEventsFailed, Inv.req = r PROVE FALSE
      OBVIOUS
    <3>2. Running /\ Top.kind = "invoke" /\ MarkFailed(Inv.req)
      BY <3>1 DEF MarkEventsFailed, At
    <3>3. rows'[i].ok = (rows[i].ok /\ ~(rows[i].req = Inv.req /\ rows[i].saved))
      BY <1>1, <3>2, TopInvocation, MarkFailedTrail
    <3> QED
      BY <1>2, <1>3, <3>1, <3>3
  <2> QED
    BY <1>1, <1>3, <1>6, <2>1, FailingStep DEF Failing, Crashed
<1>7. CASE invs[By(i)].write \in Standing
  <2>1. CASE Undoes
    <3>1. CASE invs[By(i)].write = "open"
      <4>1. Len(stack) \in Invoking /\ Inv = Of(Len(stack))
        BY <1>1, <2>1, UndoesAlone
      <4>2. PICK n \in 1..Len(invs) : n = By(i)
        BY <1>4
      <4>3. Of(Len(stack)).req = invs[n].req
        BY <1>1, <3>1, <4>1, <4>2 DEF OpenWrites
      <4>4. Inv.req = r
        BY <1>4, <4>1, <4>2, <4>3
      <4> QED
        BY <1>1, <1>3, <2>1, <4>4, UndoesFails DEF Failing
    <3>2. CASE invs[By(i)].write # "open"
      <4>1. Running /\ Top.kind = "invoke" /\ Settles /\ ~Commits
        BY <1>1, <2>1, UndoesAlone DEF Undoes
      <4>2. invs'[By(i)].write = invs[By(i)].write
        BY <1>1, <1>4, <3>2, <4>1, SettledWrites
      <4> QED
        BY <1>7, <4>2
    <3> QED
      BY <3>1, <3>2
  <2>2. CASE Crash /\ invs[By(i)].write = "open"
    <3>1. PICK j \in Invoking : Of(j).opens
      BY <1>1, <1>4, <2>2 DEF Txn, OpenWrites
    <3>2. PICK n \in 1..Len(invs) : n = By(i)
      BY <1>4
    <3>3. Of(j).req = invs[n].req
      BY <1>1, <2>2, <3>1, <3>2 DEF OpenWrites
    <3>4. Of(j).req = r
      BY <1>4, <3>2, <3>3
    <3> QED
      BY <1>1, <1>3, <2>2, <3>4, RunningCrashes DEF Crashed
  <2>3. CASE ~Undoes /\ ~(Crash /\ invs[By(i)].write = "open")
    BY <1>1, <1>4, <1>7, <2>3, StandingStays
  <2> QED
    BY <2>1, <2>2, <2>3
<1> QED
  BY <1>2, <1>3, <1>5, <1>6, <1>7 DEF TrueRow

\* Everything of it.
LEMMA TrueRowsStep ==
  ASSUME ~StampsFail, ~ParticipantsFail, AuditInv, Deferring, Ordered, StandingTodo,
         StandingFrames, OpenersTop, TrueRows, [Next]_vars
  PROVE  TrueRows'
<1>1. /\ OutcomeInv /\ Emitted /\ CommandRows /\ ChainInv /\ TypeInv
      /\ Emitter /\ LateListeners /\ Released
  BY DEF AuditInv, OutcomeInv, ChainInv, Deferring, Ordered
<1>2. SUFFICES ASSUME NEW i \in 1..Len(rows'), rows'[i].ok = TRUE, By(i)' # 0
               PROVE  TrueRow(i)'
  BY DEF TrueRows, TrueRow
<1>3. CASE i \in 1..Len(rows)
  <2>1. CASE rows[i].ok = TRUE
    BY <1>1, <1>3, <2>1, StaysTrue DEF TrueRows
  <2>2. CASE rows[i].ok # TRUE
    <3>1. UNCHANGED invs /\ By(i) = Top.inv /\ invs[Top.inv].write \in Standing
      BY <1>1, <1>2, <1>3, <2>2, TurnsTrue
    <3>2. By(i)' = By(i)
      BY <1>1, <1>3, OwnerKept
    <3> QED
      BY <3>1, <3>2 DEF TrueRow
  <2> QED
    BY <2>1, <2>2
<1>4. CASE i \notin 1..Len(rows)
  <2>1. Len(rows) \in Nat /\ (Len(rows') = Len(rows) \/ Len(rows') = Len(rows) + 1)
    BY <1>1, RowAdded
  <2>2. i = Len(rows) + 1 /\ Len(rows') = Len(rows) + 1
    BY <1>2, <1>4, <2>1
  <2>3. rows'[Len(rows) + 1].ok = TRUE
    BY <1>2, <2>2
  <2>4. rows'[Len(rows) + 1].kind = "event"
    <3>1. rows'[Len(rows) + 1].ok # FALSE
      BY <2>3
    <3>2. Len(rows') # Len(rows)
      BY <2>1, <2>2
    <3>3. \/ rows'[Len(rows) + 1].kind = "event" \/ Len(rows') = Len(rows)
          \/ rows'[Len(rows) + 1].ok = FALSE
      BY <1>1, RowAdded
    <3> QED
      BY <3>1, <3>2, <3>3
  <2>5. invs'[By(i)'].write \in Standing
    BY <1>1, <1>2, <2>2, <2>4, AddedTrue
  <2> QED
    BY <2>5 DEF TrueRow
<1> QED
  BY <1>3, <1>4

\* It always holds.
LEMMA TrueRowsCorrect ==
  ASSUME ~StampsFail, ~ParticipantsFail, Publishes = {}
  PROVE  Spec => []TrueRows
<1>1. Init => OpenersTop /\ TrueRows
  <2>1. Len(<<>>) = 0
    OBVIOUS
  <2> QED
    BY <2>1 DEF Init, TrailInit, OpenersTop, TrueRows
<1>2. AuditInv /\ CommandEvents /\ OpenersTop /\ [Next]_vars => OpenersTop'
  BY OpenersTopStep DEF AuditInv, OutcomeInv
<1>3. AuditInv /\ Deferring /\ Ordered /\ StandingTodo /\ StandingFrames /\ OpenersTop /\ TrueRows
         /\ [Next]_vars => TrueRows'
  BY TrueRowsStep
<1> QED
  BY <1>1, <1>2, <1>3, AuditCorrect, CommandEventsCorrect, DeferringCorrect, OrderedCorrect,
     StandingCorrect, PTL DEF Spec

\* Once a chain is over, the audit trail in the database says of each command what has
\* become of it: a row that is called successful tells of work that was not rolled
\* back, and a top-level command that has committed has a successful row.  This is
\* for commands that only the dispatcher's policies run, with no participant marking
\* the transaction rollback-only and no stamp failing; each is needed.
THEOREM AuditTellsTheOutcome ==
  ASSUME ~StampsFail, ~ParticipantsFail, Publishes = {}
  PROVE  Spec => []AuditMatchesOutcome
<1>1. AuditInv /\ TrueRows /\ NoCommitWithoutSuccessRow /\ JoinsOrOpens => AuditMatchesOutcome
  <2>1. SUFFICES ASSUME AuditInv, TrueRows, NoCommitWithoutSuccessRow, JoinsOrOpens, ~Running
                 PROVE  AuditMatchesOutcome
    BY DEF AuditMatchesOutcome
  <2>2. ChainInv /\ Emitted /\ CommandRows /\ OpenWrites /\ Txn /\ TypeInv
    BY <2>1 DEF AuditInv, OutcomeInv, ChainInv, Writing
  <2>3. Invoking = {}
    <3>1. Len(<<>>) = 0
      OBVIOUS
    <3> QED
      BY <2>1, <3>1 DEF Running, Invoking
  <2>4. ASSUME NEW i \in 1..Len(rows), rows[i].saved, rows[i].ok, By(i) # 0, ~Crashed(rows[i].req)
        PROVE  invs[By(i)].write \in {"committed", "adrift"}
    <3>1. rows[i] \in RowType
      BY <2>2 DEF TypeInv, TrailTypeOK
    <3>2. rows[i].ok = TRUE
      BY <2>4, <3>1 DEF RowType
    <3>3. invs[By(i)].write \in Standing
      BY <2>1, <2>3, <2>4, <3>2 DEF TrueRows, TrueRow, Failing
    <3>4. By(i) \in 1..Len(invs)
      BY <2>2, <2>4, RowOwner
    <3>5. invs[By(i)].write # "open"
      BY <2>2, <2>3, <3>4 DEF OpenWrites, Txn
    <3> QED
      BY <3>3, <3>5 DEF Standing
  <2>5. ASSUME NEW n \in 1..Len(invs), ~invs[n].nested, invs[n].write = "committed",
               rows[invs[n].row].saved
        PROVE  rows[invs[n].row].ok
    <3>1. invs \in Seq(InvType)
      BY <2>2 DEF TypeInv, HistoryOK
    <3>2. invs[n].opens
      BY <2>1, <2>5 DEF JoinsOrOpens
    <3> QED
      BY <2>1, <2>5, <3>2 DEF NoCommitWithoutSuccessRow
  <2> QED
    BY <2>4, <2>5 DEF AuditMatchesOutcome
<1> QED
  BY <1>1, AuditCorrect, TrueRowsCorrect, CommittedWorkIsAudited, InvocationJoinsOrOpens, PTL
=============================================================================
