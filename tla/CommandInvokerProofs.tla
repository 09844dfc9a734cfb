------------------------ MODULE CommandInvokerProofs ------------------------
(***************************************************************************)
(* Types of CommandInvoker, and what its actions do place by place: the    *)
(* lemmas on which the proofs about chains and outcomes rest.              *)
(***************************************************************************)
EXTENDS CommandInvoker, SequenceTheorems, TLAPS

\* The invocations, publications and listeners on the stack, and an invocation's
\* entry in invs.
Invoking   == {i \in 1..Len(stack) : stack[i].kind = "invoke"}
Publishing == {i \in 1..Len(stack) : stack[i].kind = "publish"}
Listening  == {i \in 1..Len(stack) : stack[i].kind = "policy"}
Of(i) == invs[stack[i].inv]

(***************************************************************************)
(* What the types need is kept by part of the state: a callback that is    *)
(* due exists; so do the invocation of a frame and the event it publishes; *)
(* enough request ids are left.                                            *)
(***************************************************************************)
TxOK == tx \in TxType /\ tx.due <= Len(tx.callbacks)

StackOK ==
    /\ stack \in Seq(FrameType)
    /\ exc \in BOOLEAN /\ (exc => Running)
    /\ \A i \in Invoking : stack[i].inv \in 1..Len(invs)
    /\ \A i \in Publishing : stack[i].step = "raw" => stack[i].todo # <<>>

HistoryOK ==
    /\ invs \in Seq(InvType) /\ Len(invs) <= MaxInvokes
    /\ events \in Seq(EventType) /\ Len(events) <= MaxEvents
    /\ ids \in Nat /\ ids <= Len(invs) + Len(events)
    /\ mdc \in RequestIds \cup {0}
    /\ \A k \in 1..Len(snapshots) :
           snapshots[k].inv \in 1..Len(invs) /\ snapshots[k].committed \in BOOLEAN
    /\ crashes \in 0..MaxCrashes

TypeInv == TxOK /\ TrailTypeOK /\ StackOK /\ HistoryOK

-----------------------------------------------------------------------------
\* An invocation that moves on: the other frames stay, its own has a new step.
LEMMA GotoStack ==
  ASSUME stack \in Seq(FrameType), Running, Top.kind = "invoke",
         NEW s \in InvokeSteps, Goto(s)
  PROVE  /\ stack' \in Seq(FrameType) /\ Len(stack') = Len(stack)
         /\ \A i \in 1..Len(stack) : i # Len(stack) => stack'[i] = stack[i]
         /\ stack'[Len(stack)] = [Top EXCEPT !.step = s]
         /\ stack'[Len(stack)] \in InvokeFrame
         /\ stack'[Len(stack)].step = s /\ stack'[Len(stack)].kind = "invoke"
         /\ stack'[Len(stack)].inv = Top.inv
         /\ stack'[Len(stack)].deferred = Top.deferred
<1>1. Len(stack) \in Nat /\ Len(stack) >= 1 /\ Top = stack[Len(stack)] /\ Top \in FrameType
  BY DEF Running, Top, Last
<1>2. Top \in InvokeFrame
  BY <1>1 DEF FrameType, PublishFrame, PolicyFrame
<1>3. [Top EXCEPT !.step = s] \in InvokeFrame
  BY <1>2 DEF InvokeFrame
<1>4. [Top EXCEPT !.step = s] \in FrameType
  BY <1>3 DEF FrameType
<1>5. stack' = [stack EXCEPT ![Len(stack)] = [Top EXCEPT !.step = s]]
  BY <1>1 DEF Goto
<1>6. /\ stack' \in Seq(FrameType) /\ Len(stack') = Len(stack)
      /\ \A i \in 1..Len(stack) : i # Len(stack) => stack'[i] = stack[i]
      /\ stack'[Len(stack)] = [Top EXCEPT !.step = s]
  BY <1>1, <1>4, <1>5
<1> QED
  BY <1>2, <1>3, <1>6 DEF InvokeFrame

\* A frame that is pushed: the frames below it stay.
LEMMA PushStack ==
  ASSUME stack \in Seq(FrameType), NEW f \in FrameType, Push(f)
  PROVE  /\ stack' \in Seq(FrameType) /\ Len(stack') = Len(stack) + 1
         /\ \A i \in 1..Len(stack) : stack'[i] = stack[i]
         /\ stack'[Len(stack) + 1] = f
  BY AppendProperties DEF Push

\* The first elements of a sequence that is not empty.
LEMMA FrontOfSequence ==
  ASSUME NEW S, NEW s \in Seq(S), s # <<>>
  PROVE  /\ Front(s) \in Seq(S) /\ Len(Front(s)) = Len(s) - 1
         /\ \A i \in 1..(Len(s) - 1) : Front(s)[i] = s[i]
<1> DEFINE n == Len(s) - 1
           front == SubSeq(s, 1, n)
<1>1. n \in Nat /\ \A i \in 1..n : s[i] \in S
  OBVIOUS
<1>2. front = Front(s)
  BY DEF Front
<1> HIDE DEF n
<1>3. /\ front \in Seq(S)
      /\ Len(front) = IF 1 <= n THEN n - 1 + 1 ELSE 0
      /\ \A i \in 1..(n - 1 + 1) : front[i] = s[1 + i - 1]
  BY <1>1, SubSeqProperties
<1> HIDE DEF front
<1>4. Len(front) = n
  BY <1>1, <1>3
<1>5. \A i \in 1..n : front[i] = s[i]
  BY <1>1, <1>3
<1> QED
  BY <1>2, <1>3, <1>4, <1>5 DEF n

\* A frame that leaves: the frames below it stay.
LEMMA LeaveStack ==
  ASSUME stack \in Seq(FrameType), Running, NEW throws, Leave(throws)
  PROVE  /\ stack' \in Seq(FrameType) /\ Len(stack') = Len(stack) - 1
         /\ \A i \in 1..(Len(stack) - 1) : stack'[i] = stack[i]
  BY FrontOfSequence DEF Leave, Running

\* The last frame, by its kind.
LEMMA TopFrame ==
  ASSUME stack \in Seq(FrameType), Running
  PROVE  /\ Len(stack) \in Nat /\ Len(stack) >= 1 /\ Top = stack[Len(stack)]
         /\ Top.kind = "invoke"  => Top \in InvokeFrame  /\ Len(stack) \in Invoking
         /\ Top.kind = "publish" => Top \in PublishFrame /\ Len(stack) \in Publishing
         /\ Top.kind = "policy"  => Top \in PolicyFrame  /\ Len(stack) \in Listening
<1>1. Len(stack) \in Nat /\ Len(stack) >= 1 /\ Top = stack[Len(stack)] /\ Top \in FrameType
  BY DEF Running, Top, Last
<1> QED
  BY <1>1 DEF FrameType, InvokeFrame, PublishFrame, PolicyFrame, Invoking, Publishing, Listening
-----------------------------------------------------------------------------
\* A row is recorded with a number and remembered, or was not built.
LEMMA RecordFate ==
  ASSUME TrailTypeOK, NEW kind \in {"command", "event"}, NEW of \in Nat,
         NEW req \in RequestIds, NEW ok \in BOOLEAN, NEW saved \in BOOLEAN,
         Record(kind, of, req, ok, saved)
  PROVE  /\ TrailTypeOK' /\ Len(rows) \in Nat /\ Len(rows') = Len(rows) + 1
         /\ \A i \in 1..Len(rows) : rows'[i] = rows[i]
         /\ rows'[Len(rows) + 1].kind = kind /\ rows'[Len(rows) + 1].of = of
         /\ rows'[Len(rows) + 1].req = req /\ rows'[Len(rows) + 1].saved = saved
         /\ rows'[Len(rows) + 1].ok = ok /\ rows'[Len(rows) + 1].mem = ok
         /\ \/ /\ rows'[Len(rows) + 1].order = orders[req] + 1
               /\ orders' = [orders EXCEPT ![req] = @ + 1]
               /\ pending' = [pending EXCEPT ![req] = Append(@, Len(rows) + 1)]
            \/ rows'[Len(rows) + 1].order = 0 /\ pending' = pending /\ orders' = orders
<1> DEFINE row(order) == [kind |-> kind, of |-> of, req |-> req, saved |-> saved,
                          order |-> order, ok |-> ok, mem |-> ok]
           Built == /\ orders' = [orders EXCEPT ![req] = @ + 1]
                    /\ pending' = [pending EXCEPT ![req] = Append(@, Len(rows) + 1)]
<1>1. /\ rows \in Seq(RowType) /\ orders \in [RequestIds -> Nat] /\ Len(rows) \in Nat
      /\ pending \in [RequestIds -> Seq(1..Len(rows))]
  BY DEF TrailTypeOK
<1>2. PICK order \in Nat : /\ rows' = Append(rows, row(order))
                           /\ \/ order = orders[req] + 1 /\ Built
                              \/ order = 0 /\ pending' = pending /\ orders' = orders
  <2>1. \/ rows' = Append(rows, row(orders[req] + 1)) /\ Built
        \/ rows' = Append(rows, row(0)) /\ pending' = pending /\ orders' = orders
    BY Zenon DEF Record
  <2>2. orders[req] + 1 \in Nat /\ 0 \in Nat
    BY <1>1
  <2> HIDE DEF row, Built
  <2> QED
    BY <2>1, <2>2
<1>3. /\ row(order) \in RowType
      /\ row(order).kind = kind /\ row(order).of = of /\ row(order).req = req
      /\ row(order).saved = saved /\ row(order).ok = ok /\ row(order).mem = ok
      /\ row(order).order = order
  BY <1>1 DEF RowType
<1> HIDE DEF row
<1>4. /\ rows' \in Seq(RowType) /\ Len(rows') = Len(rows) + 1
      /\ \A i \in 1..Len(rows) : rows'[i] = rows[i]
      /\ rows'[Len(rows) + 1] = row(order)
  BY <1>1, <1>2, <1>3, AppendProperties
<1>5. orders' \in [RequestIds -> Nat]
  BY <1>1, <1>2
<1>6. pending' \in [RequestIds -> Seq(1..Len(rows'))]
  <2>1. \A r \in RequestIds : pending[r] \in Seq(1..(Len(rows) + 1))
    <3>1. 1..Len(rows) \subseteq 1..(Len(rows) + 1)
      BY <1>1
    <3> QED
      BY <1>1, <3>1, SeqMonotonic
  <2>2. Append(pending[req], Len(rows) + 1) \in Seq(1..(Len(rows) + 1))
    BY <1>1, <2>1, AppendProperties
  <2> QED
    BY <1>1, <1>2, <1>4, <2>1, <2>2
<1>7. TrailTypeOK'
  BY <1>4, <1>5, <1>6 DEF TrailTypeOK
<1> QED
  BY <1>1, <1>2, <1>3, <1>4, <1>7

\* Recording adds a row; everything recorded stays as it is.
LEMMA RecordTrail ==
  ASSUME TrailTypeOK, NEW kind \in {"command", "event"}, NEW of \in Nat,
         NEW req \in RequestIds, NEW ok \in BOOLEAN, NEW saved \in BOOLEAN,
         Record(kind, of, req, ok, saved)
  PROVE  /\ TrailTypeOK' /\ Len(rows) \in Nat /\ Len(rows') = Len(rows) + 1
         /\ \A i \in 1..Len(rows) : rows'[i] = rows[i]
         /\ rows'[Len(rows) + 1].kind = kind /\ rows'[Len(rows) + 1].of = of
         /\ rows'[Len(rows) + 1].req = req /\ rows'[Len(rows) + 1].saved = saved
         /\ rows'[Len(rows) + 1].ok = ok /\ rows'[Len(rows) + 1].mem = ok
BY RecordFate DEF TrailTypeOK

\* The other operations leave a row's identity alone.
SameRows ==
    /\ Len(rows') = Len(rows)
    /\ \A i \in 1..Len(rows) :
          /\ rows'[i].kind = rows[i].kind /\ rows'[i].of = rows[i].of
          /\ rows'[i].req = rows[i].req /\ rows'[i].saved = rows[i].saved
          /\ rows'[i].order = rows[i].order

\* A stamp changes one row, in memory and, if it was saved, in the database.
LEMMA StampTrail ==
  ASSUME TrailTypeOK, NEW n \in 1..Len(rows), NEW ok \in BOOLEAN, Stamp(n, ok)
  PROVE  /\ TrailTypeOK' /\ SameRows
         /\ \A i \in 1..Len(rows) : i # n => rows'[i] = rows[i]
         /\ rows'[n].ok = IF rows[n].saved THEN ok ELSE rows[n].ok
<1>1. /\ rows \in Seq(RowType) /\ rows[n] \in RowType
      /\ pending' = pending /\ orders' = orders
  BY DEF TrailTypeOK, Stamp
<1>2. CASE ~rows[n].saved
  BY <1>1, <1>2 DEF TrailTypeOK, SameRows, Stamp
<1>3. CASE rows[n].saved
  <2> DEFINE mem == IF Contains(pending[rows[n].req], n) THEN ok ELSE rows[n].mem
             row == [[rows[n] EXCEPT !.ok = ok] EXCEPT !.mem = mem]
  <2>1. mem \in BOOLEAN
    BY <1>1 DEF RowType
  <2>2. rows' = [rows EXCEPT ![n] = row]
    BY <1>1, <1>3 DEF Stamp, RowType
  <2> HIDE DEF mem
  <2>3. /\ row \in RowType /\ row.kind = rows[n].kind /\ row.of = rows[n].of
        /\ row.req = rows[n].req /\ row.saved = rows[n].saved
        /\ row.order = rows[n].order /\ row.ok = ok
    BY <1>1, <2>1 DEF RowType
  <2> HIDE DEF row
  <2>4. /\ rows' \in Seq(RowType) /\ Len(rows') = Len(rows) /\ rows'[n] = row
        /\ \A i \in 1..Len(rows) : i # n => rows'[i] = rows[i]
    BY <1>1, <2>2, <2>3
  <2> QED
    BY <1>1, <1>3, <2>3, <2>4 DEF TrailTypeOK, SameRows
<1> QED
  BY <1>2, <1>3

\* markEventsFailed turns the saved rows of the request failed, and no others.
LEMMA MarkFailedTrail ==
  ASSUME TrailTypeOK, NEW req \in RequestIds, MarkFailed(req)
  PROVE  /\ TrailTypeOK' /\ SameRows
         /\ \A i \in 1..Len(rows) :
               rows'[i].ok = (rows[i].ok /\ ~(rows[i].req = req /\ rows[i].saved))
<1> DEFINE ok(i)  == rows[i].ok /\ ~(rows[i].req = req /\ rows[i].saved)
           mem(i) == rows[i].mem /\ ~Contains(pending[req], i)
           row(i) == [rows[i] EXCEPT !.ok = ok(i), !.mem = mem(i)]
<1>1. /\ rows \in Seq(RowType) /\ Len(rows) \in Nat
      /\ \A i \in 1..Len(rows) : rows[i] \in RowType
      /\ orders \in [RequestIds -> Nat] /\ pending \in [RequestIds -> Seq(1..Len(rows))]
  BY DEF TrailTypeOK
<1>0. pending' = pending /\ orders' = orders
  BY DEF MarkFailed
<1>2. rows' = [i \in 1..Len(rows) |-> row(i)]
  BY DEF MarkFailed
<1>3. ASSUME NEW i \in 1..Len(rows)
      PROVE  /\ row(i) \in RowType /\ row(i).kind = rows[i].kind /\ row(i).of = rows[i].of
             /\ row(i).req = rows[i].req /\ row(i).saved = rows[i].saved
             /\ row(i).order = rows[i].order /\ row(i).ok = ok(i)
  <2>1. rows[i] \in RowType /\ ok(i) \in BOOLEAN /\ mem(i) \in BOOLEAN
    BY <1>1
  <2> HIDE DEF ok, mem
  <2> QED
    BY <2>1 DEF RowType
<1> HIDE DEF row
<1>4. rows' \in Seq(RowType) /\ Len(rows') = Len(rows)
  BY <1>1, <1>2, <1>3
<1>5. \A i \in 1..Len(rows) : rows'[i] = row(i)
  BY <1>2
<1>6. SameRows
  BY <1>3, <1>4, <1>5 DEF SameRows
<1>7. TrailTypeOK'
  BY <1>0, <1>1, <1>4 DEF TrailTypeOK
<1> QED
  BY <1>3, <1>5, <1>6, <1>7

\* Handing the rows of a request over changes none of them.
LEMMA DrainTrail ==
  ASSUME TrailTypeOK, NEW req \in RequestIds, Drain(req)
  PROVE  TrailTypeOK' /\ UNCHANGED <<rows, orders>>
<1>1. <<>> \in Seq(1..Len(rows))
  OBVIOUS
<1> QED
  BY <1>1 DEF TrailTypeOK, Drain

\* What a crash leaves of the rows: all of them.
LEMMA ForgetTrail ==
  ASSUME TrailTypeOK, Forget
  PROVE  TrailTypeOK' /\ UNCHANGED rows
<1>1. <<>> \in Seq(1..Len(rows))
  OBVIOUS
<1> QED
  BY <1>1 DEF TrailTypeOK, Forget
-----------------------------------------------------------------------------
\* What the lemmas on the stack say, for the types.
LEMMA GotoOK ==
  ASSUME StackOK, Running, Top.kind = "invoke", NEW s \in InvokeSteps, Goto(s),
         Len(invs) \in Nat, Len(invs') = Len(invs), exc' \in BOOLEAN
  PROVE  StackOK'
<1>1. /\ Len(stack) \in Nat /\ Len(stack) >= 1 /\ Top = stack[Len(stack)]
      /\ Len(stack) \in Invoking
  BY TopFrame DEF StackOK
<1>2. /\ stack' \in Seq(FrameType) /\ Len(stack') = Len(stack)
      /\ \A i \in 1..Len(stack) : i # Len(stack) => stack'[i] = stack[i]
      /\ stack'[Len(stack)].kind = "invoke" /\ stack'[Len(stack)].inv = Top.inv
  BY GotoStack DEF StackOK
<1>3. \A i \in Invoking' : stack'[i].inv \in 1..Len(invs)
  BY <1>1, <1>2 DEF StackOK, Invoking
<1>4. \A i \in Publishing' : i \in Publishing /\ stack'[i] = stack[i]
  BY <1>1, <1>2 DEF Publishing
<1> QED
  BY <1>1, <1>2, <1>3, <1>4 DEF StackOK, Running

\* A frame is pushed whose invocation exists.
LEMMA PushOK ==
  ASSUME StackOK, NEW f \in FrameType, Push(f), Len(invs) \in Nat, Len(invs') \in Nat,
         Len(invs) <= Len(invs'), exc' = exc,
         f.kind = "invoke" => f.inv \in 1..Len(invs'),
         f.kind = "publish" => f.step = "wrapper"
  PROVE  StackOK'
<1>1. /\ stack' \in Seq(FrameType) /\ Len(stack') = Len(stack) + 1 /\ Len(stack) \in Nat
      /\ \A i \in 1..Len(stack) : stack'[i] = stack[i]
      /\ stack'[Len(stack) + 1] = f
  BY PushStack DEF StackOK
<1>2. \A i \in Invoking' : stack'[i].inv \in 1..Len(invs')
  <2> TAKE i \in Invoking'
  <2>1. CASE i \in 1..Len(stack)
    BY <1>1, <2>1 DEF StackOK, Invoking
  <2>2. CASE i = Len(stack) + 1
    BY <1>1, <2>2 DEF Invoking
  <2> QED
    BY <1>1, <2>1, <2>2 DEF Invoking
<1>3. \A i \in Publishing' : stack'[i].step = "raw" => i \in Publishing /\ stack'[i] = stack[i]
  BY <1>1 DEF Publishing
<1>4. Running'
  BY <1>1 DEF Running
<1> QED
  BY <1>1, <1>2, <1>3, <1>4 DEF StackOK

\* A frame leaves, and an exception goes on only if one is left to receive it.
LEMMA LeaveOK ==
  ASSUME StackOK, Running, NEW throws \in BOOLEAN, Leave(throws),
         Len(invs) \in Nat, Len(invs') = Len(invs)
  PROVE  StackOK'
<1>1. /\ stack' \in Seq(FrameType) /\ Len(stack') = Len(stack) - 1
      /\ Len(stack) \in Nat /\ Len(stack) >= 1
      /\ \A i \in 1..(Len(stack) - 1) : stack'[i] = stack[i]
  BY LeaveStack, TopFrame DEF StackOK
<1>2. /\ \A i \in Invoking' : i \in Invoking /\ stack'[i] = stack[i]
      /\ \A i \in Publishing' : i \in Publishing /\ stack'[i] = stack[i]
  BY <1>1 DEF Invoking, Publishing
<1>3. exc' = (throws /\ Len(stack) > 1)
  BY DEF Leave
<1>4. exc' \in BOOLEAN
  BY <1>3
<1>5. exc' => Running'
  <2>1. exc' => Len(stack) > 1
    BY <1>3, Zenon
  <2>2. Len(stack) > 1 => Running'
    <3>1. Len(<<>>) = 0
      OBVIOUS
    <3> QED
      BY <1>1, <3>1 DEF Running
  <2> QED
    BY <2>1, <2>2, Zenon
<1> QED
  BY <1>1, <1>2, <1>4, <1>5 DEF StackOK

\* Nothing but exc changes.
LEMMA SameStackOK ==
  ASSUME StackOK, UNCHANGED stack, exc' \in BOOLEAN, exc' => Running,
         Len(invs') = Len(invs)
  PROVE  StackOK'
  BY DEF StackOK, Running, Invoking, Publishing

\* The thread has no frames at all.
LEMMA NoFramesOK ==
  ASSUME stack' = <<>>, exc' = FALSE
  PROVE  StackOK'
<1>1. stack' \in Seq(FrameType) /\ Len(stack') = 0
  OBVIOUS
<1>2. Invoking' = {} /\ Publishing' = {}
  BY <1>1 DEF Invoking, Publishing
<1>3. exc' \in BOOLEAN /\ ~exc'
  OBVIOUS
<1> QED
  BY <1>1, <1>2, <1>3 DEF StackOK
-----------------------------------------------------------------------------
\* What the operations of SpringTransaction keep.
LEMMA TxStep ==
  ASSUME TxOK,
         \/ UNCHANGED tx \/ Begin \/ End \/ SetRollbackOnly \/ EnterAfterCommit
         \/ \E c \in CallbackType : RegisterCallback(c)
         \/ \E e \in ListenerType : DeferListener(e)
         \/ tx.due > 0 /\ CallbackTaken
         \/ tx.due = 0 /\ EnterAfterCompletion
         \/ tx.listeners # <<>> /\ ListenerTaken
  PROVE  TxOK'
<1>1. /\ tx \in TxType /\ tx.due \in Nat /\ tx.due <= Len(tx.callbacks)
      /\ tx.callbacks \in Seq(CallbackType) /\ Len(tx.callbacks) \in Nat
      /\ tx.listeners \in Seq(ListenerType)
  BY DEF TxOK, TxType
<1>2. CASE UNCHANGED tx
  BY <1>2 DEF TxOK
<1>0. /\ NoTx \in TxType /\ NoTx.due = 0 /\ NoTx.callbacks = <<>> /\ Len(<<>>) = 0
      /\ <<>> \in Seq(CallbackType) /\ <<>> \in Seq(ListenerType)
  <2>1. <<>> \in Seq(CallbackType) /\ <<>> \in Seq(ListenerType) /\ Len(<<>>) = 0
    OBVIOUS
  <2> QED
    BY <2>1 DEF NoTx, TxType, Phases
<1>10. CASE End
  BY <1>0, <1>10 DEF TxOK, End
<1>11. CASE Begin
  <2>1. tx' = [NoTx EXCEPT !.phase = "active"]
    BY <1>11 DEF Begin
  <2>2. tx' \in TxType /\ tx'.due = NoTx.due /\ tx'.callbacks = NoTx.callbacks
    BY <1>0, <2>1 DEF TxType, Phases
  <2> QED
    BY <1>0, <2>2 DEF TxOK
<1>3. CASE SetRollbackOnly
  BY <1>1, <1>3 DEF TxOK, TxType, SetRollbackOnly
<1>4. CASE EnterAfterCommit
  <2> DEFINE tx1 == [tx EXCEPT !.phase = "afterCommit"]
  <2>1. tx1 \in TxType /\ tx1.callbacks = tx.callbacks
    BY <1>1 DEF TxType, Phases
  <2>2. tx' = [tx1 EXCEPT !.due = Len(tx.callbacks)]
    BY <1>4 DEF EnterAfterCommit
  <2> HIDE DEF tx1
  <2>3. tx' \in TxType /\ tx'.due = Len(tx.callbacks) /\ tx'.callbacks = tx.callbacks
    BY <1>1, <2>1, <2>2 DEF TxType
  <2> QED
    BY <1>1, <2>3 DEF TxOK
<1>5. ASSUME NEW c \in CallbackType, RegisterCallback(c)
      PROVE  TxOK'
  <2> DEFINE more == Append(tx.callbacks, c)
  <2>1. more \in Seq(CallbackType) /\ Len(more) = Len(tx.callbacks) + 1
    BY <1>1
  <2>2. tx' = [tx EXCEPT !.callbacks = more]
    BY <1>5 DEF RegisterCallback
  <2> HIDE DEF more
  <2>3. tx' \in TxType /\ tx'.due = tx.due /\ tx'.callbacks = more
    BY <1>1, <2>1, <2>2 DEF TxType
  <2> QED
    BY <1>1, <2>1, <2>3 DEF TxOK
<1>6. ASSUME NEW e \in ListenerType, DeferListener(e)
      PROVE  TxOK'
  <2> DEFINE more == Append(tx.listeners, e)
  <2>1. more \in Seq(ListenerType)
    BY <1>1
  <2>2. tx' = [tx EXCEPT !.listeners = more]
    BY <1>6 DEF DeferListener
  <2> HIDE DEF more
  <2> QED
    BY <1>1, <2>1, <2>2 DEF TxOK, TxType
<1>7. CASE tx.due > 0 /\ CallbackTaken
  <2> DEFINE rest == Tail(tx.callbacks)
             tx1 == [tx EXCEPT !.callbacks = rest]
  <2>1. rest \in Seq(CallbackType) /\ Len(rest) = Len(tx.callbacks) - 1
    BY <1>1, <1>7
  <2> HIDE DEF rest
  <2>2. tx1 \in TxType /\ tx1.due = tx.due /\ tx1.callbacks = rest
    BY <1>1, <2>1 DEF TxType
  <2>3. tx' = [tx1 EXCEPT !.due = tx.due - 1]
    BY <1>7, <2>2 DEF CallbackTaken, rest
  <2> HIDE DEF tx1
  <2>4. tx.due - 1 \in Nat
    BY <1>1, <1>7
  <2>5. tx' \in TxType /\ tx'.due = tx.due - 1 /\ tx'.callbacks = rest
    BY <2>2, <2>3, <2>4 DEF TxType
  <2> QED
    BY <1>1, <2>1, <2>5 DEF TxOK
<1>8. CASE tx.due = 0 /\ EnterAfterCompletion
  <2> DEFINE tx1 == [tx EXCEPT !.phase = "afterCompletion"]
  <2>1. tx1 \in TxType /\ tx1.due = tx.due
    BY <1>1 DEF TxType, Phases
  <2>2. tx' = [tx1 EXCEPT !.callbacks = <<>>]
    BY <1>8 DEF EnterAfterCompletion
  <2> HIDE DEF tx1
  <2>3. <<>> \in Seq(CallbackType) /\ Len(<<>>) = 0
    OBVIOUS
  <2>4. tx' \in TxType /\ tx'.due = tx.due /\ tx'.callbacks = <<>>
    BY <2>1, <2>2, <2>3 DEF TxType
  <2> QED
    BY <1>8, <2>3, <2>4 DEF TxOK
<1>9. CASE tx.listeners # <<>> /\ ListenerTaken
  <2> DEFINE rest == Tail(tx.listeners)
  <2>1. rest \in Seq(ListenerType)
    BY <1>1, <1>9
  <2>2. tx' = [tx EXCEPT !.listeners = rest]
    BY <1>9 DEF ListenerTaken
  <2> HIDE DEF rest
  <2> QED
    BY <1>1, <2>1, <2>2 DEF TxOK, TxType
<1> QED
  BY <1>2, <1>3, <1>4, <1>5, <1>6, <1>7, <1>8, <1>9, <1>10, <1>11

\* What is known of an invocation from the start does not change.
SameInvs ==
    /\ Len(invs') = Len(invs)
    /\ \A n \in 1..Len(invs) :
          /\ invs'[n].req = invs[n].req /\ invs'[n].nested = invs[n].nested
          /\ invs'[n].joins = invs[n].joins /\ invs'[n].opens = invs[n].opens
          /\ invs'[n].cause = invs[n].cause /\ invs'[n].row = invs[n].row

\* The end of the transaction settles the writes that were open.
LEMMA SettleInvs ==
  ASSUME invs \in Seq(InvType), NEW outcome \in Writes, Settle(outcome)
  PROVE  /\ invs' \in Seq(InvType) /\ SameInvs
         /\ \A n \in 1..Len(invs) :
               /\ invs'[n].outcome = invs[n].outcome
               /\ invs'[n].write = IF invs[n].write = "open" THEN outcome ELSE invs[n].write
<1> DEFINE new(n) == IF invs[n].write = "open" THEN [invs[n] EXCEPT !.write = outcome]
                     ELSE invs[n]
<1>1. ASSUME NEW n \in 1..Len(invs)
      PROVE  /\ new(n) \in InvType /\ new(n).outcome = invs[n].outcome
             /\ new(n).req = invs[n].req /\ new(n).nested = invs[n].nested
             /\ new(n).joins = invs[n].joins /\ new(n).opens = invs[n].opens
             /\ new(n).cause = invs[n].cause /\ new(n).row = invs[n].row
             /\ new(n).write = IF invs[n].write = "open" THEN outcome ELSE invs[n].write
  <2>1. invs[n] \in InvType
    OBVIOUS
  <2> QED
    BY <2>1 DEF InvType
<1>2. invs' = [n \in 1..Len(invs) |-> new(n)] /\ Len(invs) \in Nat
  BY DEF Settle
<1> HIDE DEF new
<1>3. /\ invs' \in Seq(InvType) /\ Len(invs') = Len(invs)
      /\ \A n \in 1..Len(invs) : invs'[n] = new(n)
  BY <1>1, <1>2
<1> QED
  BY <1>1, <1>3 DEF SameInvs

\* One invocation writes, or ends.
LEMMA TouchInvs ==
  ASSUME invs \in Seq(InvType), NEW m \in 1..Len(invs),
         \/ \E w \in Writes : invs' = [invs EXCEPT ![m].write = w]
         \/ \E o \in Outcomes : invs' = [invs EXCEPT ![m].outcome = o]
  PROVE  /\ invs' \in Seq(InvType) /\ SameInvs
         /\ \A n \in 1..Len(invs) : n # m => invs'[n] = invs[n]
<1>1. invs[m] \in InvType
  OBVIOUS
<1>2. ASSUME NEW w \in Writes, invs' = [invs EXCEPT ![m].write = w]
      PROVE  /\ invs' \in Seq(InvType) /\ SameInvs
             /\ \A n \in 1..Len(invs) : n # m => invs'[n] = invs[n]
  <2>1. [invs[m] EXCEPT !.write = w] \in InvType
    BY <1>1 DEF InvType
  <2>2. /\ invs' \in Seq(InvType) /\ Len(invs') = Len(invs)
        /\ \A n \in 1..Len(invs) : n # m => invs'[n] = invs[n]
        /\ invs'[m] = [invs[m] EXCEPT !.write = w]
    BY <1>2, <2>1
  <2> QED
    BY <1>1, <2>2 DEF SameInvs, InvType
<1>3. ASSUME NEW o \in Outcomes, invs' = [invs EXCEPT ![m].outcome = o]
      PROVE  /\ invs' \in Seq(InvType) /\ SameInvs
             /\ \A n \in 1..Len(invs) : n # m => invs'[n] = invs[n]
  <2>1. [invs[m] EXCEPT !.outcome = o] \in InvType
    BY <1>1 DEF InvType
  <2>2. /\ invs' \in Seq(InvType) /\ Len(invs') = Len(invs)
        /\ \A n \in 1..Len(invs) : n # m => invs'[n] = invs[n]
        /\ invs'[m] = [invs[m] EXCEPT !.outcome = o]
    BY <1>3, <2>1
  <2> QED
    BY <1>1, <2>2 DEF SameInvs, InvType
<1> QED
  BY <1>2, <1>3
-----------------------------------------------------------------------------
\* The last frame and what it refers to.
LEMMA TopInvocation ==
  ASSUME TypeInv, Running, Top.kind = "invoke"
  PROVE  /\ Top \in InvokeFrame /\ Len(stack) \in Invoking /\ Len(stack) \in Nat
         /\ Top = stack[Len(stack)] /\ Len(stack) >= 1
         /\ Top.inv \in 1..Len(invs) /\ Inv = invs[Top.inv] /\ Inv \in InvType
         /\ Inv = Of(Len(stack)) /\ Inv.req \in RequestIds
         /\ Top.deferred \in Seq(Nat)
<1>1. /\ Top \in InvokeFrame /\ Len(stack) \in Invoking /\ Len(stack) \in Nat
      /\ Top = stack[Len(stack)] /\ Len(stack) >= 1
  BY TopFrame DEF TypeInv, StackOK
<1>2. Top.inv \in 1..Len(invs)
  BY <1>1 DEF TypeInv, StackOK
<1>3. invs \in Seq(InvType)
  BY DEF TypeInv, HistoryOK
<1>4. invs[Top.inv] \in InvType
  BY <1>2, <1>3
<1> QED
  BY <1>1, <1>2, <1>4 DEF Inv, Of, InvType, InvokeFrame

\* The same for a publication.
LEMMA TopPublication ==
  ASSUME TypeInv, Running, Top.kind = "publish"
  PROVE  /\ Top \in PublishFrame /\ Len(stack) \in Publishing /\ Len(stack) \in Nat
         /\ Top = stack[Len(stack)] /\ Len(stack) >= 1
         /\ Top.req \in RequestIds /\ Top.todo \in Seq(Nat)
         /\ Top.step = "raw" => Top.todo # <<>>
         /\ Top.todo # <<>> => Head(Top.todo) \in Nat /\ Tail(Top.todo) \in Seq(Nat)
<1>1. /\ Top \in PublishFrame /\ Len(stack) \in Publishing /\ Len(stack) \in Nat
      /\ Top = stack[Len(stack)] /\ Len(stack) >= 1
  BY TopFrame DEF TypeInv, StackOK
<1>2. Top.step = "raw" => Top.todo # <<>>
  BY <1>1 DEF TypeInv, StackOK
<1>3. Top.req \in RequestIds /\ Top.todo \in Seq(Nat)
  BY <1>1 DEF PublishFrame
<1> QED
  BY <1>1, <1>2, <1>3

\* A step that draws no request id and emits no event.
LEMMA SameHistory ==
  ASSUME HistoryOK, UNCHANGED <<events, ids, snapshots, crashes>>,
         invs' \in Seq(InvType), Len(invs') = Len(invs), mdc' \in RequestIds \cup {0}
  PROVE  HistoryOK'
  BY DEF HistoryOK

\* A step of an invocation that moves on to s, and has the types of tx, invs and
\* the trail right.
LEMMA GotoTypes ==
  ASSUME TypeInv, Running, Top.kind = "invoke", NEW s \in InvokeSteps, Goto(s),
         exc' \in BOOLEAN, TxOK', TrailTypeOK',
         invs' \in Seq(InvType), Len(invs') = Len(invs), UNCHANGED <<mdc, events, history>>
  PROVE  TypeInv'
<1>1. Len(invs) \in Nat
  BY DEF TypeInv, HistoryOK
<1>2. StackOK'
  BY <1>1, GotoOK DEF TypeInv
<1>3. HistoryOK'
  BY SameHistory DEF TypeInv, HistoryOK, history
<1> QED
  BY <1>2, <1>3 DEF TypeInv

\* A step that touches no row.
LEMMA SameTrail ==
  ASSUME TrailTypeOK, UNCHANGED trail
  PROVE  TrailTypeOK'
  BY DEF TrailTypeOK, trail

\* Before the first call.
LEMMA InitTypeInv == Init => TypeInv
<1> SUFFICES ASSUME Init PROVE TypeInv
  OBVIOUS
<1>1. /\ <<>> \in Seq(FrameType) /\ <<>> \in Seq(InvType) /\ <<>> \in Seq(EventType)
      /\ <<>> \in Seq(RowType) /\ Len(<<>>) = 0
      /\ <<>> \in Seq(CallbackType) /\ <<>> \in Seq(ListenerType)
      /\ <<>> \in Seq(1..Len(rows))
  OBVIOUS
<1>2. TxOK
  BY <1>1 DEF Init, TxOK, TxType, NoTx, Phases
<1>3. TrailTypeOK
  BY <1>1 DEF Init, TrailInit, TrailTypeOK
<1>4. StackOK
  <2>1. Invoking = {} /\ Publishing = {}
    BY <1>1 DEF Init, Invoking, Publishing
  <2>2. stack = <<>> /\ exc \in BOOLEAN /\ ~exc
    BY DEF Init
  <2> QED
    BY <1>1, <2>1, <2>2 DEF StackOK
<1>5. HistoryOK
  BY <1>1, BoundsAssumption DEF Init, HistoryOK
<1> QED
  BY <1>2, <1>3, <1>4, <1>5 DEF TypeInv

\* invoke finds a request id, and has a row for its invocation.
LEMMA InvokeTypes ==
  ASSUME TypeInv, NEW saved \in BOOLEAN, Invoke(saved)
  PROVE  TypeInv'
<1> DEFINE nested == mdc # 0
           req    == IF nested THEN mdc ELSE ids + 1
           joins  == nested /\ SynchronizationActive
           opens  == ~InTransaction
           new    == [req |-> req, nested |-> nested, joins |-> joins, opens |-> opens,
                      cause |-> Cause, row |-> Len(rows) + 1, write |-> "none",
                      outcome |-> "running"]
           frame  == [kind |-> "invoke", inv |-> Len(invs) + 1, step |-> "handle",
                      deferred |-> <<>>]
<1>1. /\ MayCall /\ Len(invs) < MaxInvokes
      /\ mdc' = req /\ ids' = (IF nested THEN ids ELSE ids + 1)
      /\ Record("command", Len(invs) + 1, req, FALSE, saved)
      /\ invs' = Append(invs, new)
      /\ IF opens THEN Begin ELSE UNCHANGED tx
      /\ Push(frame)
      /\ UNCHANGED <<exc, events, snapshots, crashes>>
  BY DEF Invoke
<1>2. /\ invs \in Seq(InvType) /\ Len(invs) \in Nat /\ events \in Seq(EventType)
      /\ Len(events) \in Nat /\ Len(events) <= MaxEvents /\ ids \in Nat
      /\ ids <= Len(invs) + Len(events) /\ mdc \in RequestIds \cup {0}
      /\ Len(rows) \in Nat /\ stack \in Seq(FrameType)
  BY DEF TypeInv, HistoryOK, TrailTypeOK, StackOK
<1>3. req \in RequestIds
  BY <1>1, <1>2, RequestIdsSuffice, BoundsAssumption
<1>4. Cause \in Nat
  <2>1. CASE Running /\ Top.kind = "policy"
    BY <1>2, <2>1, TopFrame DEF Cause, PolicyFrame
  <2>2. CASE ~(Running /\ Top.kind = "policy")
    BY <2>2 DEF Cause
  <2> QED
    BY <2>1, <2>2
<1>5. nested \in BOOLEAN /\ joins \in BOOLEAN /\ opens \in BOOLEAN
  OBVIOUS
<1> HIDE DEF nested, req, joins, opens
<1>6. new \in InvType
  BY <1>2, <1>3, <1>4, <1>5 DEF InvType, Writes, Outcomes
<1>7. frame \in FrameType
  <2>1. <<>> \in Seq(Nat)
    OBVIOUS
  <2> QED
    BY <1>2, <2>1 DEF FrameType, InvokeFrame, InvokeSteps
<1>8. frame.kind = "invoke" /\ frame.inv = Len(invs) + 1
  OBVIOUS
<1> HIDE DEF new, frame
<1>9. invs' \in Seq(InvType) /\ Len(invs') = Len(invs) + 1
  BY <1>1, <1>2, <1>6
<1>10. TxOK'
  BY <1>1, TxStep DEF TypeInv
<1>11. TrailTypeOK'
  <2>1. TrailTypeOK /\ Len(invs) + 1 \in Nat /\ FALSE \in BOOLEAN
    BY <1>2 DEF TypeInv
  <2> QED
    BY <1>1, <1>3, <2>1, RecordTrail
<1>12. StackOK'
  BY <1>1, <1>2, <1>7, <1>8, <1>9, PushOK DEF TypeInv
<1>13. HistoryOK'
  <2>1. ids' \in Nat /\ ids' <= Len(invs') + Len(events') /\ mdc' \in RequestIds \cup {0}
    BY <1>1, <1>2, <1>3, <1>9
  <2>2. Len(invs') <= MaxInvokes
    BY <1>1, <1>2, <1>9, BoundsAssumption
  <2>3. \A k \in 1..Len(snapshots) : snapshots[k].inv \in 1..Len(invs')
    BY <1>2, <1>9 DEF TypeInv, HistoryOK
  <2> QED
    BY <1>1, <1>9, <2>1, <2>2, <2>3 DEF TypeInv, HistoryOK
<1> QED
  BY <1>10, <1>11, <1>12, <1>13 DEF TypeInv

\* What HandlerReturns does, place by place.
NewEvents(n, nNow, nLater) ==
    /\ events' \in Seq(EventType) /\ Len(events') = Len(events) + nNow + nLater
    /\ \A e \in 1..Len(events) : events'[e] = events[e]
    /\ \A e \in (Len(events) + 1)..Len(events') :
          /\ events'[e].by = n /\ events'[e].delivered = 0
          /\ events'[e].timing = IF e <= Len(events) + nNow THEN "immediate" ELSE "deferred"
DispatchFrames(nNow, nLater) ==
    /\ stack' \in Seq(FrameType) /\ Len(stack') = Len(stack) + 1
    /\ \A i \in 1..(Len(stack) - 1) : stack'[i] = stack[i]
    /\ LET g == stack'[Len(stack)]
       IN  /\ g.kind = "invoke" /\ g.inv = Top.inv /\ g.step = "register"
           /\ Len(g.deferred) = nLater
           /\ \A k \in 1..nLater : g.deferred[k] = Len(events) + nNow + k
    /\ LET f == stack'[Len(stack) + 1]
       IN  /\ f.kind = "publish" /\ f.step = "wrapper" /\ f.mode = "now"
           /\ f.req = Inv.req /\ f.opened = FALSE /\ Len(f.todo) = nNow
           /\ \A k \in 1..nNow : f.todo[k] = Len(events) + k

\* That is what it does.
LEMMA HandlerReturnsEffect ==
  ASSUME TypeInv, NEW nNow \in 0..MaxEvents, NEW nLater \in 0..MaxEvents,
         HandlerReturns(nNow, nLater)
  PROVE  /\ nNow \in Nat /\ nLater \in Nat /\ Len(events) \in Nat
         /\ NewEvents(Top.inv, nNow, nLater) /\ DispatchFrames(nNow, nLater)
         /\ invs' \in Seq(InvType) /\ SameInvs
         /\ \A n \in 1..Len(invs) : n # Top.inv => invs'[n] = invs[n]
         /\ invs'[Top.inv] = [Inv EXCEPT !.write = Written]
<1> DEFINE new(timing) == [by |-> Top.inv, timing |-> timing, delivered |-> 0]
           now   == [k \in 1..nNow |-> Len(events) + k]
           later == [k \in 1..nLater |-> Len(events) + nNow + k]
           one   == [k \in 1..nNow |-> new("immediate")]
           two   == [k \in 1..nLater |-> new("deferred")]
           some  == events \o one
           below == [stack EXCEPT ![Len(stack)].step = "register",
                                  ![Len(stack)].deferred = later]
           frame == [kind |-> "publish", step |-> "wrapper", mode |-> "now",
                     todo |-> now, req |-> Inv.req, opened |-> FALSE]
           top   == [[Top EXCEPT !.step = "register"] EXCEPT !.deferred = later]
<1>1. /\ At("invoke", "handle")
      /\ events' = some \o two
      /\ invs' = [invs EXCEPT ![Top.inv].write = Written]
      /\ stack' = Append(below, frame)
  BY DEF HandlerReturns, Inv
<1>2. /\ invs \in Seq(InvType) /\ Len(invs) \in Nat /\ events \in Seq(EventType)
      /\ Len(events) \in Nat /\ stack \in Seq(FrameType) /\ nNow \in Nat /\ nLater \in Nat
  BY BoundsAssumption DEF TypeInv, HistoryOK, StackOK
<1>3. /\ Running /\ Top.kind = "invoke" /\ Top \in InvokeFrame /\ Top = stack[Len(stack)]
      /\ Len(stack) \in Nat /\ Len(stack) >= 1
      /\ Top.inv \in 1..Len(invs) /\ Inv.req \in RequestIds /\ Inv = invs[Top.inv]
  BY <1>1, TopInvocation DEF At
<1>4. /\ now \in Seq(Nat) /\ later \in Seq(Nat)
      /\ one \in Seq(EventType) /\ Len(one) = nNow
      /\ \A k \in 1..nNow : one[k] = new("immediate")
      /\ two \in Seq(EventType) /\ Len(two) = nLater
      /\ \A k \in 1..nLater : two[k] = new("deferred")
  <2>1. now \in Seq(Nat) /\ later \in Seq(Nat)
    BY <1>2
  <2>2. new("immediate") \in EventType /\ new("deferred") \in EventType
    BY <1>2, <1>3 DEF EventType, Timings
  <2> HIDE DEF new
  <2> QED
    BY <1>2, <2>1, <2>2
<1> HIDE DEF now, later, one, two
<1>5. NewEvents(Top.inv, nNow, nLater)
  <2>1. /\ some \in Seq(EventType) /\ Len(some) = Len(events) + nNow
        /\ \A e \in 1..(Len(events) + nNow) :
              some[e] = IF e <= Len(events) THEN events[e] ELSE one[e - Len(events)]
    BY <1>2, <1>4, ConcatProperties
  <2>0. events' = some \o two
    BY <1>1
  <2> HIDE DEF some
  <2>2. /\ events' \in Seq(EventType) /\ Len(events') = Len(some) + nLater
        /\ \A e \in 1..(Len(some) + nLater) :
              events'[e] = IF e <= Len(some) THEN some[e] ELSE two[e - Len(some)]
    <3>1. some \in Seq(EventType) /\ two \in Seq(EventType) /\ Len(two) = nLater
      BY <1>4, <2>1
    <3> QED
      BY <2>0, <3>1, ConcatProperties
  <2>3. \A e \in 1..Len(events) : events'[e] = events[e]
    BY <1>2, <2>1, <2>2
  <2>4. ASSUME NEW e \in (Len(events) + 1)..Len(events')
        PROVE  events'[e] = IF e <= Len(events) + nNow THEN new("immediate") ELSE new("deferred")
    <3>1. CASE e <= Len(events) + nNow
      <4>1. e - Len(events) \in 1..nNow /\ e \in 1..(Len(events) + nNow)
        BY <1>2, <2>1, <2>2, <3>1
      <4> HIDE DEF new
      <4> QED
        BY <1>2, <1>4, <2>1, <2>2, <3>1, <4>1
    <3>2. CASE ~(e <= Len(events) + nNow)
      <4>1. e - Len(some) \in 1..nLater /\ e \in 1..(Len(some) + nLater) /\ ~(e <= Len(some))
        BY <1>2, <2>1, <2>2, <3>2
      <4> HIDE DEF new
      <4> QED
        BY <1>2, <1>4, <2>1, <2>2, <3>2, <4>1
    <3> QED
      BY <3>1, <3>2
  <2>5. ASSUME NEW e \in (Len(events) + 1)..Len(events')
        PROVE  /\ events'[e].by = Top.inv /\ events'[e].delivered = 0
               /\ events'[e].timing = IF e <= Len(events) + nNow THEN "immediate" ELSE "deferred"
    BY <2>4
  <2>6. Len(events') = Len(events) + nNow + nLater
    BY <1>2, <2>1, <2>2
  <2> HIDE DEF new
  <2> QED
    BY <2>2, <2>3, <2>5, <2>6 DEF NewEvents
<1>6. /\ invs' \in Seq(InvType) /\ SameInvs
      /\ \A n \in 1..Len(invs) : n # Top.inv => invs'[n] = invs[n]
      /\ invs'[Top.inv] = [Inv EXCEPT !.write = Written]
  <2>1. Written \in Writes
    BY DEF Written, Writes
  <2>2. /\ invs' \in Seq(InvType) /\ SameInvs
        /\ \A n \in 1..Len(invs) : n # Top.inv => invs'[n] = invs[n]
    BY <1>1, <1>2, <1>3, <2>1, TouchInvs
  <2>3. invs' = [invs EXCEPT ![Top.inv] = [Inv EXCEPT !.write = Written]]
    BY <1>1, <1>3
  <2> QED
    BY <1>2, <1>3, <2>2, <2>3
<1>7. frame \in FrameType
  BY <1>3, <1>4 DEF FrameType, PublishFrame
<1>8. /\ below \in Seq(FrameType) /\ Len(below) = Len(stack)
      /\ \A i \in 1..Len(stack) : i # Len(stack) => below[i] = stack[i]
      /\ below[Len(stack)] = top
  <2>1. top \in InvokeFrame
    BY <1>3, <1>4 DEF InvokeFrame, InvokeSteps
  <2>3. below = [stack EXCEPT ![Len(stack)] = top]
    BY <1>2, <1>3
  <2> HIDE DEF top, below
  <2>4. top \in FrameType
    BY <2>1 DEF FrameType
  <2> QED
    BY <1>2, <1>3, <2>3, <2>4
<1> HIDE DEF frame, below, top
<1>9. /\ stack' \in Seq(FrameType) /\ Len(stack') = Len(stack) + 1
      /\ \A i \in 1..Len(stack) : stack'[i] = below[i]
      /\ stack'[Len(stack) + 1] = frame
  BY <1>1, <1>7, <1>8, AppendProperties
<1>10. DispatchFrames(nNow, nLater)
  <2>1. /\ Len(now) = nNow /\ \A k \in 1..nNow : now[k] = Len(events) + k
        /\ Len(later) = nLater /\ \A k \in 1..nLater : later[k] = Len(events) + nNow + k
    BY <1>2 DEF now, later
  <2>2. /\ top.kind = "invoke" /\ top.inv = Top.inv /\ top.step = "register"
        /\ top.deferred = later
    BY <1>3, <1>4 DEF top, InvokeFrame
  <2>3. /\ frame.kind = "publish" /\ frame.step = "wrapper" /\ frame.mode = "now"
        /\ frame.todo = now /\ frame.req = Inv.req /\ frame.opened = FALSE
    BY DEF frame
  <2>4. stack'[Len(stack)] = top /\ \A i \in 1..(Len(stack) - 1) : stack'[i] = stack[i]
    BY <1>3, <1>8, <1>9
  <2> QED
    BY <1>9, <2>1, <2>2, <2>3, <2>4 DEF DispatchFrames
<1> QED
  BY <1>2, <1>5, <1>6, <1>10

\* Hence the types hold after a handler has returned.
LEMMA HandlerReturnsTypes ==
  ASSUME TypeInv, NEW nNow \in 0..MaxEvents, NEW nLater \in 0..MaxEvents,
         HandlerReturns(nNow, nLater)
  PROVE  TypeInv'
<1>1. /\ At("invoke", "handle")
      /\ Len(events) + nNow + nLater <= MaxEvents
      /\ UNCHANGED <<tx, trail, mdc, exc, history>>
  BY DEF HandlerReturns
<1>2. /\ nNow \in Nat /\ nLater \in Nat /\ Len(events) \in Nat
      /\ NewEvents(Top.inv, nNow, nLater) /\ DispatchFrames(nNow, nLater)
      /\ invs' \in Seq(InvType) /\ Len(invs') = Len(invs)
  BY HandlerReturnsEffect DEF SameInvs
<1>3. /\ Running /\ Len(stack) \in Nat /\ Len(stack) >= 1 /\ Top.inv \in 1..Len(invs)
  BY <1>1, TopInvocation DEF At
<1>7. /\ Len(stack') = Len(stack) + 1
      /\ \A i \in 1..(Len(stack) - 1) : stack'[i] = stack[i]
      /\ stack'[Len(stack)].kind = "invoke"
  BY <1>2 DEF DispatchFrames
<1>4. StackOK'
  <2>1. \A i \in Invoking' : stack'[i].inv \in 1..Len(invs')
    <3> TAKE i \in Invoking'
    <3>1. i \in 1..Len(stack)
      BY <1>2, <1>3 DEF Invoking, DispatchFrames
    <3>2. CASE i = Len(stack)
      BY <1>2, <1>3, <3>2 DEF DispatchFrames
    <3>3. CASE i # Len(stack)
      <4>1. i \in Invoking /\ stack'[i] = stack[i]
        BY <1>7, <1>3, <3>1, <3>3 DEF Invoking
      <4> QED
        BY <1>2, <4>1 DEF TypeInv, StackOK
    <3> QED
      BY <3>2, <3>3
  <2>2. \A i \in Publishing' : stack'[i].step = "raw" => stack'[i].todo # <<>>
    <3> TAKE i \in Publishing'
    <3>1. CASE i = Len(stack) + 1
      BY <1>2, <3>1 DEF DispatchFrames
    <3>2. CASE i # Len(stack) + 1
      <4>1. i \in Publishing /\ stack'[i] = stack[i]
        <5>1. i \in 1..(Len(stack) + 1) /\ i # Len(stack)
          BY <1>7 DEF Publishing
        <5>2. i \in 1..(Len(stack) - 1)
          BY <1>3, <3>2, <5>1
        <5> QED
          BY <1>3, <1>7, <5>2 DEF Publishing
      <4> QED
        BY <4>1 DEF TypeInv, StackOK
    <3> QED
      BY <3>1, <3>2
  <2>3. Running' /\ stack' \in Seq(FrameType)
    BY <1>2, <1>3 DEF Running, DispatchFrames
  <2> QED
    BY <1>1, <2>1, <2>2, <2>3 DEF TypeInv, StackOK
<1>5. TxOK' /\ TrailTypeOK'
  BY <1>1, TxStep, SameTrail DEF TypeInv
<1>6. HistoryOK'
  BY <1>1, <1>2 DEF TypeInv, HistoryOK, history, NewEvents
<1> QED
  BY <1>4, <1>5, <1>6 DEF TypeInv

\* What PublishRaw does, place by place.
ListenFrames ==
    /\ stack' \in Seq(FrameType) /\ Len(stack') = Len(stack) + 1
    /\ \A i \in 1..(Len(stack) - 1) : stack'[i] = stack[i]
    /\ LET g == stack'[Len(stack)]
       IN  /\ g.kind = "publish" /\ g.step = "wrapper" /\ g.todo = Tail(Top.todo)
           /\ g.mode = Top.mode /\ g.req = Top.req /\ g.opened = Top.opened
    /\ stack'[Len(stack) + 1].kind = "policy"
    /\ stack'[Len(stack) + 1].event = Head(Top.todo)

\* Events do not change but for the number of their deliveries.
SameEvents ==
    /\ events' \in Seq(EventType) /\ Len(events') = Len(events)
    /\ \A e \in 1..Len(events) :
          events'[e].by = events[e].by /\ events'[e].timing = events[e].timing

\* That is what PublishRaw does: one delivery is counted.
LEMMA PublishRawEffect ==
  ASSUME TypeInv, PublishRaw
  PROVE  /\ ListenFrames /\ SameEvents
         /\ \A e \in 1..Len(events) : events'[e].delivered =
               IF e = Head(Top.todo) THEN events[e].delivered + 1 ELSE events[e].delivered
<1> DEFINE e     == Head(Top.todo)
           below == [stack EXCEPT ![Len(stack)].step = "wrapper",
                                  ![Len(stack)].todo = Tail(@)]
           top   == [[Top EXCEPT !.step = "wrapper"] EXCEPT !.todo = Tail(Top.todo)]
           frame == [kind |-> "policy", step |-> "listen", event |-> e]
<1>1. /\ At("publish", "raw")
      /\ events' = [events EXCEPT ![e].delivered = @ + 1]
      /\ stack' = Append(below, frame)
  BY DEF PublishRaw
<1>2. /\ Top \in PublishFrame /\ Len(stack) \in Nat /\ Top = stack[Len(stack)]
      /\ Len(stack) >= 1 /\ e \in Nat /\ Tail(Top.todo) \in Seq(Nat)
      /\ stack \in Seq(FrameType) /\ events \in Seq(EventType)
  BY <1>1, TopPublication DEF At, TypeInv, StackOK, HistoryOK
<1>3. /\ SameEvents
      /\ \A k \in 1..Len(events) : events'[k].delivered =
               IF k = e THEN events[k].delivered + 1 ELSE events[k].delivered
  <2>1. CASE e \in 1..Len(events)
    <3>0. events[e] \in EventType
      BY <1>2, <2>1
    <3>1. [events[e] EXCEPT !.delivered = @ + 1] \in EventType
      BY <3>0 DEF EventType
    <3>2. events' = [events EXCEPT ![e] = [events[e] EXCEPT !.delivered = @ + 1]]
      BY <1>1
    <3>3. /\ events' \in Seq(EventType) /\ Len(events') = Len(events)
          /\ \A k \in 1..Len(events) : k # e => events'[k] = events[k]
          /\ events'[e] = [events[e] EXCEPT !.delivered = @ + 1]
      BY <1>2, <2>1, <3>1, <3>2
    <3>4. \A k \in 1..Len(events) : events[k] \in EventType
      BY <1>2
    <3> QED
      BY <3>3, <3>4 DEF SameEvents, EventType
  <2>2. CASE e \notin 1..Len(events)
    <3>1. events' = events
      BY <1>1, <1>2, <2>2
    <3> QED
      BY <1>2, <2>2, <3>1 DEF SameEvents
  <2> QED
    BY <2>1, <2>2
<1>4. /\ top \in PublishFrame /\ top.kind = "publish" /\ top.step = "wrapper"
      /\ top.todo = Tail(Top.todo) /\ top.mode = Top.mode /\ top.req = Top.req
      /\ top.opened = Top.opened
  BY <1>2 DEF PublishFrame
<1>5. below = [stack EXCEPT ![Len(stack)] = top]
  BY <1>2
<1>6. frame \in FrameType /\ frame.kind = "policy" /\ frame.event = e
  BY <1>2 DEF FrameType, PolicyFrame
<1> HIDE DEF below, top, frame
<1>7. top \in FrameType
  BY <1>4 DEF FrameType
<1>8. /\ below \in Seq(FrameType) /\ Len(below) = Len(stack) /\ below[Len(stack)] = top
      /\ \A i \in 1..Len(stack) : i # Len(stack) => below[i] = stack[i]
  BY <1>2, <1>5, <1>7
<1>9. /\ stack' \in Seq(FrameType) /\ Len(stack') = Len(stack) + 1
      /\ \A i \in 1..Len(stack) : stack'[i] = below[i]
      /\ stack'[Len(stack) + 1] = frame
  BY <1>1, <1>6, <1>8, AppendProperties
<1>10. stack'[Len(stack)] = top /\ \A i \in 1..(Len(stack) - 1) : stack'[i] = stack[i]
  BY <1>2, <1>8, <1>9
<1>11. ListenFrames
  BY <1>4, <1>6, <1>9, <1>10 DEF ListenFrames
<1> QED
  BY <1>3, <1>11

\* Hence the types hold after an event has gone to its policies.
LEMMA PublishRawTypes ==
  ASSUME TypeInv, PublishRaw
  PROVE  TypeInv'
<1>1. At("publish", "raw") /\ UNCHANGED <<tx, trail, mdc, exc, invs, history>>
  BY DEF PublishRaw
<1>2. ListenFrames /\ SameEvents
  BY PublishRawEffect
<1>3. Running /\ Len(stack) \in Nat /\ Len(stack) >= 1
  BY <1>1, TopPublication DEF At
<1>4. /\ Len(stack') = Len(stack) + 1 /\ stack' \in Seq(FrameType)
      /\ \A i \in 1..(Len(stack) - 1) : stack'[i] = stack[i]
      /\ stack'[Len(stack)].kind = "publish" /\ stack'[Len(stack)].step = "wrapper"
      /\ stack'[Len(stack) + 1].kind = "policy"
  BY <1>2 DEF ListenFrames
<1>5. ASSUME NEW i \in 1..Len(stack'), i # Len(stack), i # Len(stack) + 1
      PROVE  i \in 1..(Len(stack) - 1) /\ i \in 1..Len(stack) /\ stack'[i] = stack[i]
  BY <1>3, <1>4, <1>5
<1>6. StackOK'
  <2>1. \A i \in Invoking' : i \in Invoking /\ stack'[i] = stack[i]
    BY <1>4, <1>5 DEF Invoking
  <2>2. \A i \in Publishing' : stack'[i].step = "raw" => i \in Publishing /\ stack'[i] = stack[i]
    BY <1>4, <1>5 DEF Publishing
  <2>3. Running'
    BY <1>3, <1>4 DEF Running
  <2> QED
    BY <1>1, <1>4, <2>1, <2>2, <2>3 DEF TypeInv, StackOK
<1>7. TxOK' /\ TrailTypeOK'
  BY <1>1, TxStep, SameTrail DEF TypeInv
<1>8. HistoryOK'
  BY <1>1, <1>2 DEF TypeInv, HistoryOK, history, SameEvents
<1> QED
  BY <1>6, <1>7, <1>8 DEF TypeInv
-----------------------------------------------------------------------------
\* The steps of an invocation that change nothing but tx and the outcome of writes.
LEMMA SpringTypes ==
  ASSUME TypeInv, RegisterDeferred \/ Commits \/ CommitThrows \/ UnexpectedRollback
                  \/ CallbacksDone \/ Completed \/ Abort
  PROVE  TypeInv'
<1>1. /\ Running /\ Top.kind = "invoke" /\ TxOK /\ TrailTypeOK /\ invs \in Seq(InvType)
      /\ StackOK
  BY DEF RegisterDeferred, Commits, CommitThrows, UnexpectedRollback, CallbacksDone, Completed,
         Abort, At, TypeInv, HistoryOK
<1>2. UNCHANGED <<trail, mdc, events, history>>
  BY DEF RegisterDeferred, Commits, CommitThrows, UnexpectedRollback, CallbacksDone, Completed,
         Abort
<1>3. exc' \in BOOLEAN
  BY <1>1 DEF RegisterDeferred, Commits, CommitThrows, UnexpectedRollback, CallbacksDone,
              Completed, Abort, StackOK
<1>4. invs' \in Seq(InvType) /\ Len(invs') = Len(invs)
  <2>1. CASE UNCHANGED invs
    BY <1>1, <2>1
  <2>2. CASE Settle("committed") \/ Settle("rolledBack")
    <3>1. "committed" \in Writes /\ "rolledBack" \in Writes
      BY DEF Writes
    <3> QED
      BY <1>1, <2>2, <3>1, SettleInvs DEF SameInvs
  <2> QED
    BY <2>1, <2>2 DEF RegisterDeferred, Commits, CommitThrows, UnexpectedRollback,
                      CallbacksDone, Completed, Abort
<1>5. TxOK'
  <2>1. CASE RegisterDeferred
    <3> DEFINE c == [events |-> Top.deferred, req |-> IF mdc # 0 THEN mdc ELSE Inv.req]
    <3>1. c \in CallbackType
      BY <1>1, TopInvocation DEF CallbackType, TypeInv, HistoryOK
    <3>2. UNCHANGED tx \/ RegisterCallback(c)
      BY <2>1 DEF RegisterDeferred
    <3> HIDE DEF c
    <3> QED
      BY <1>1, <3>1, <3>2, TxStep
  <2>2. CASE Commits
    BY <1>1, <2>2, TxStep DEF Commits
  <2>3. CASE CommitThrows \/ UnexpectedRollback \/ Completed
    BY <1>1, <2>3, TxStep DEF CommitThrows, UnexpectedRollback, Completed
  <2>4. CASE CallbacksDone
    BY <1>1, <2>4, TxStep DEF CallbacksDone
  <2>5. CASE Abort
    BY <1>1, <2>5, TxStep DEF Abort
  <2> QED
    BY <2>1, <2>2, <2>3, <2>4, <2>5
<1>6. \E s \in InvokeSteps : Goto(s)
  BY DEF RegisterDeferred, Commits, CommitThrows, UnexpectedRollback, CallbacksDone, Completed,
         Abort, InvokeSteps
<1> QED
  BY <1>1, <1>2, <1>3, <1>4, <1>5, <1>6, SameTrail, GotoTypes

\* The steps of an invocation that stamp rows.
LEMMA StampTypes ==
  ASSUME TypeInv, \A n \in 1..Len(invs) : invs[n].row \in 1..Len(rows),
         StampSuccess \/ StampFailure \/ MarkEventsFailed \/ FailureStampThrows
  PROVE  TypeInv'
<1>1. /\ Running /\ Top.kind = "invoke" /\ TxOK /\ TrailTypeOK /\ invs \in Seq(InvType)
      /\ exc \in BOOLEAN
  BY DEF StampSuccess, StampFailure, MarkEventsFailed, FailureStampThrows, At, TypeInv,
         HistoryOK, StackOK
<1>2. UNCHANGED <<tx, mdc, exc, invs, events, history>>
  BY DEF StampSuccess, StampFailure, MarkEventsFailed, FailureStampThrows
<1>3. Inv.row \in 1..Len(rows) /\ Inv.req \in RequestIds
  BY <1>1, TopInvocation
<1>4. TrailTypeOK'
  <2>1. CASE Stamp(Inv.row, TRUE) \/ Stamp(Inv.row, FALSE)
    BY <1>1, <1>3, <2>1, StampTrail
  <2>2. CASE MarkFailed(Inv.req)
    BY <1>1, <1>3, <2>2, MarkFailedTrail
  <2>3. CASE UNCHANGED trail
    BY <1>1, <2>3, SameTrail
  <2> QED
    BY <2>1, <2>2, <2>3 DEF StampSuccess, StampFailure, MarkEventsFailed, FailureStampThrows
<1>5. \E s \in InvokeSteps : Goto(s)
  BY DEF StampSuccess, StampFailure, MarkEventsFailed, FailureStampThrows, InvokeSteps
<1>6. TxOK'
  BY <1>1, <1>2, TxStep
<1> QED
  BY <1>1, <1>2, <1>4, <1>5, <1>6, GotoTypes

\* A handler that throws changes nothing but its own write.
LEMMA HandlerThrowsTypes ==
  ASSUME TypeInv, HandlerThrows
  PROVE  TypeInv' /\ SameInvs
<1>1. /\ Running /\ Top.kind = "invoke" /\ TxOK /\ TrailTypeOK /\ invs \in Seq(InvType)
      /\ Top.inv \in 1..Len(invs)
  BY TopInvocation DEF HandlerThrows, At, TypeInv, HistoryOK
<1>2. /\ exc' \in BOOLEAN /\ Goto("register") /\ UNCHANGED <<tx, trail, mdc, events, history>>
      /\ invs' \in {invs, [invs EXCEPT ![Top.inv].write = Written]}
  BY DEF HandlerThrows
<1>3. invs' \in Seq(InvType) /\ SameInvs
  <2>1. CASE invs' = invs
    BY <1>1, <2>1 DEF SameInvs
  <2>2. CASE invs' = [invs EXCEPT ![Top.inv].write = Written]
    <3>1. Written \in Writes
      BY DEF Written, Writes
    <3> QED
      BY <1>1, <2>2, <3>1, TouchInvs
  <2> QED
    BY <1>2, <2>1, <2>2
<1>4. TxOK' /\ TrailTypeOK' /\ "register" \in InvokeSteps
  BY <1>1, <1>2, TxStep, SameTrail DEF InvokeSteps
<1> QED
  BY <1>1, <1>2, <1>3, <1>4, GotoTypes DEF SameInvs

\* Steps that leave the frames alone.
LEMMA StillTypes ==
  ASSUME TypeInv, ParticipantFails \/ StampSuccessThrows \/ PolicyCatches \/ HandlerCatches
  PROVE  TypeInv'
<1>1. Running /\ TxOK /\ TrailTypeOK /\ StackOK /\ HistoryOK
  BY DEF ParticipantFails, StampSuccessThrows, PolicyCatches, HandlerCatches, At, TypeInv
<1>2. UNCHANGED <<trail, mdc, stack, invs, events, history>> /\ exc' \in BOOLEAN
  BY <1>1 DEF ParticipantFails, StampSuccessThrows, PolicyCatches, HandlerCatches, StackOK
<1>3. UNCHANGED tx \/ SetRollbackOnly
  BY DEF ParticipantFails, StampSuccessThrows, PolicyCatches, HandlerCatches
<1>4. StackOK'
  BY <1>1, <1>2, SameStackOK
<1>5. HistoryOK'
  BY <1>1, <1>2, SameHistory DEF history, HistoryOK
<1> QED
  BY <1>1, <1>2, <1>3, <1>4, <1>5, TxStep, SameTrail DEF TypeInv

\* Steps with which the last frame leaves and nothing is recorded.
LEMMA LeaveTypes ==
  ASSUME TypeInv, PublishDone \/ PublishThrows \/ PolicyReturns \/ PolicyThrows
  PROVE  TypeInv'
<1>0. TxOK /\ TrailTypeOK /\ StackOK /\ HistoryOK /\ Len(invs) \in Nat
  BY DEF TypeInv, HistoryOK
<1>1. Running /\ TxOK /\ TrailTypeOK /\ StackOK /\ HistoryOK /\ Len(invs) \in Nat
  BY <1>0, Zenon DEF PublishDone, PublishThrows, PolicyReturns, PolicyThrows, At
<1>2. UNCHANGED <<tx, trail, invs, events, history>>
  BY DEF PublishDone, PublishThrows, PolicyReturns, PolicyThrows
<1>3. mdc' \in RequestIds \cup {0}
  BY <1>1 DEF PublishDone, PublishThrows, PolicyReturns, PolicyThrows, HistoryOK, MdcAfterPublish
<1>4. CASE Leave(TRUE) \/ Leave(FALSE)
  <2>1. StackOK'
    BY <1>1, <1>2, <1>4, LeaveOK
  <2> QED
    BY <1>1, <1>2, <1>3, <2>1, TxStep, SameTrail, SameHistory DEF TypeInv, history, HistoryOK
<1>5. CASE PublishThrows /\ Top.mode = "afterCommit"
  <2>1. exc' = FALSE /\ UNCHANGED stack
    BY <1>5 DEF PublishThrows
  <2>2. exc' \in BOOLEAN /\ ~exc'
    BY <2>1
  <2>3. StackOK'
    BY <1>1, <1>2, <2>1, <2>2, SameStackOK
  <2> QED
    BY <1>1, <1>2, <1>3, <2>3, TxStep, SameTrail, SameHistory DEF TypeInv, history, HistoryOK
<1> QED
  BY <1>4, <1>5 DEF PublishDone, PublishThrows, PolicyReturns, PolicyThrows

\* A callback that is run existed, and brings a request id of its own.
LEMMA RunCallbackTypes ==
  ASSUME TypeInv, RunCallback
  PROVE  TypeInv'
<1> DEFINE f == [kind |-> "publish", step |-> "wrapper", mode |-> "afterCommit",
                 todo |-> NextCallback.events, req |-> NextCallback.req, opened |-> FALSE]
<1>1. /\ TxOK /\ TrailTypeOK /\ StackOK /\ HistoryOK /\ Len(invs) \in Nat
      /\ tx.due > 0 /\ CallbackTaken /\ mdc' = NextCallback.req /\ Push(f)
      /\ UNCHANGED <<trail, exc, invs, events, history>>
  BY DEF RunCallback, TypeInv, HistoryOK
<1>2. NextCallback \in CallbackType
  <2>1. tx.callbacks \in Seq(CallbackType) /\ tx.due \in Nat /\ tx.due <= Len(tx.callbacks)
    BY <1>1 DEF TxOK, TxType
  <2>2. tx.callbacks # <<>>
    BY <1>1, <2>1
  <2> QED
    BY <2>1, <2>2 DEF NextCallback
<1>3. f \in FrameType /\ f.kind = "publish" /\ f.step = "wrapper"
  BY <1>2 DEF FrameType, PublishFrame, CallbackType
<1>4. NextCallback.req \in RequestIds
  BY <1>2 DEF CallbackType
<1> HIDE DEF f
<1>5. StackOK'
  BY <1>1, <1>3, PushOK
<1>6. HistoryOK'
  BY <1>1, <1>4 DEF HistoryOK, history
<1> QED
  BY <1>1, <1>5, <1>6, TxStep, SameTrail DEF TypeInv

\* The event logger records a deferred event once the transaction is over.
LEMMA LogDeferredTypes ==
  ASSUME TypeInv, NEW saved \in BOOLEAN, LogDeferred(saved)
  PROVE  TypeInv' /\ Len(rows') >= Len(rows)
<1> DEFINE d   == Head(tx.listeners)
           req == IF mdc # 0 THEN mdc ELSE d.req
<1>1. /\ TxOK /\ TrailTypeOK /\ StackOK /\ HistoryOK /\ Running
      /\ tx.listeners # <<>> /\ ListenerTaken /\ Record("event", d.event, req, TRUE, saved)
      /\ UNCHANGED <<mdc, stack, exc, invs, events, history>>
  BY DEF LogDeferred, TypeInv, At
<1>2. d \in ListenerType
  <2>1. tx.listeners \in Seq(ListenerType)
    BY <1>1 DEF TxOK, TxType
  <2> QED
    BY <1>1, <2>1
<1> HIDE DEF d
<1>3. d.event \in Nat /\ req \in RequestIds
  BY <1>1, <1>2 DEF ListenerType, HistoryOK
<1> HIDE DEF req
<1>4. TrailTypeOK' /\ Len(rows') = Len(rows) + 1 /\ Len(rows) \in Nat
  BY <1>1, <1>3, RecordTrail
<1>5. StackOK'
  BY <1>1, SameStackOK DEF StackOK
<1>6. HistoryOK'
  BY <1>1 DEF HistoryOK, history
<1> QED
  BY <1>1, <1>4, <1>5, <1>6, TxStep DEF TypeInv

\* The invocation of the last frame ends.
LEMMA EndedInvs ==
  ASSUME TypeInv, Running, Top.kind = "invoke", NEW s \in {"return", "throw"}, invs' = Ended(s)
  PROVE  /\ invs' \in Seq(InvType) /\ SameInvs
         /\ \A n \in 1..Len(invs) : n # Top.inv => invs'[n] = invs[n]
         /\ invs'[Top.inv].write = Inv.write
         /\ invs'[Top.inv].outcome = IF s = "return" THEN "returned" ELSE "threw"
<1> DEFINE o == IF s = "return" THEN "returned" ELSE "threw"
<1>1. Top.inv \in 1..Len(invs) /\ Inv = invs[Top.inv] /\ Inv \in InvType /\ invs \in Seq(InvType)
  BY TopInvocation DEF TypeInv, HistoryOK
<1>2. o \in Outcomes
  BY DEF Outcomes
<1>3. invs' = [invs EXCEPT ![Top.inv].outcome = o]
  BY DEF Ended
<1> HIDE DEF o
<1>4. /\ invs' \in Seq(InvType) /\ SameInvs
      /\ \A n \in 1..Len(invs) : n # Top.inv => invs'[n] = invs[n]
  BY <1>1, <1>2, <1>3, TouchInvs
<1>5. invs'[Top.inv] = [Inv EXCEPT !.outcome = o]
  BY <1>1, <1>3
<1>6. invs'[Top.inv].write = Inv.write /\ invs'[Top.inv].outcome = o
  BY <1>1, <1>5 DEF InvType
<1> QED
  BY <1>4, <1>6 DEF o

\* The finally block of invoke.
LEMMA FinishTypes ==
  ASSUME TypeInv, NEW s \in {"return", "throw"}, Finish(s)
  PROVE  TypeInv' /\ SameInvs /\ UNCHANGED rows
<1>1. /\ TxOK /\ TrailTypeOK /\ StackOK /\ HistoryOK /\ Len(invs) \in Nat
  BY DEF TypeInv, HistoryOK
<1>2. /\ Running /\ Top.kind = "invoke" /\ invs' = Ended(s) /\ Leave(s = "throw")
      /\ UNCHANGED <<tx, events, ids, crashes>>
  BY DEF Finish, At
<1>3. invs' \in Seq(InvType) /\ SameInvs
  BY <1>2, EndedInvs
<1>4. Inv.req \in RequestIds /\ Top.inv \in 1..Len(invs)
  BY <1>2, TopInvocation
<1>5. \/ UNCHANGED <<trail, mdc, snapshots>>
      \/ mdc' = 0 /\ snapshots' = Snapshot(s = "return") /\ Drain(Inv.req)
  BY DEF Finish
<1>6. TrailTypeOK' /\ UNCHANGED rows
  BY <1>1, <1>4, <1>5, SameTrail, DrainTrail DEF trail
<1>7. StackOK'
  BY <1>1, <1>2, <1>3, LeaveOK DEF SameInvs
<1>8. HistoryOK'
  <2>1. \A k \in 1..Len(snapshots') :
           snapshots'[k].inv \in 1..Len(invs) /\ snapshots'[k].committed \in BOOLEAN
    <3>1. CASE UNCHANGED snapshots
      BY <1>1, <3>1 DEF HistoryOK
    <3>2. CASE snapshots' = Snapshot(s = "return")
      <4> DEFINE shown == [inv |-> Top.inv, committed |-> s = "return",
                           rows |-> [k \in 1..Len(pending[Inv.req]) |->
                                        [row |-> pending[Inv.req][k],
                                         ok |-> rows[pending[Inv.req][k]].mem]]]
      <4>1. shown.inv \in 1..Len(invs) /\ shown.committed \in BOOLEAN
        BY <1>4
      <4>2. snapshots' = Append(snapshots, shown)
        BY <3>2 DEF Snapshot
      <4> HIDE DEF shown
      <4> QED
        BY <1>1, <4>1, <4>2 DEF HistoryOK
    <3> QED
      BY <1>5, <3>1, <3>2
  <2> QED
    BY <1>1, <1>2, <1>3, <1>5, <2>1 DEF HistoryOK, SameInvs
<1> QED
  BY <1>1, <1>2, <1>3, <1>6, <1>7, <1>8, TxStep DEF TypeInv

\* What PublishWrapper does to the frame of the loop.
WrapperFrames ==
    /\ stack' \in Seq(FrameType) /\ Len(stack') = Len(stack)
    /\ \A i \in 1..Len(stack) : i # Len(stack) => stack'[i] = stack[i]
    /\ LET g == stack'[Len(stack)]
       IN  /\ g.kind = "publish" /\ g.step = "raw" /\ g.todo = Top.todo
           /\ g.mode = Top.mode /\ g.req = Top.req /\ g.opened = Top.opened

\* That is what it does, whether the event logger records now or later.
LEMMA PublishWrapperEffect ==
  ASSUME TypeInv, NEW saved \in BOOLEAN, PublishWrapper(saved)
  PROVE  WrapperFrames
<1> DEFINE top == [Top EXCEPT !.step = "raw"]
<1>1. /\ Running /\ Top.kind = "publish" /\ stack \in Seq(FrameType)
      /\ stack' = [stack EXCEPT ![Len(stack)].step = "raw"]
  BY DEF PublishWrapper, At, TypeInv, StackOK, Goto
<1>2. Top \in PublishFrame /\ Len(stack) \in Nat /\ Len(stack) >= 1 /\ Top = stack[Len(stack)]
  BY <1>1, TopPublication
<1>3. /\ top \in PublishFrame /\ top.kind = "publish" /\ top.step = "raw"
      /\ top.todo = Top.todo /\ top.mode = Top.mode /\ top.req = Top.req
      /\ top.opened = Top.opened
  BY <1>2 DEF PublishFrame
<1>4. stack' = [stack EXCEPT ![Len(stack)] = top]
  BY <1>1, <1>2
<1> HIDE DEF top
<1>5. top \in FrameType
  BY <1>3 DEF FrameType
<1>6. /\ stack' \in Seq(FrameType) /\ Len(stack') = Len(stack) /\ stack'[Len(stack)] = top
      /\ \A i \in 1..Len(stack) : i # Len(stack) => stack'[i] = stack[i]
  BY <1>1, <1>2, <1>4, <1>5
<1> QED
  BY <1>3, <1>6 DEF WrapperFrames

\* Hence the types hold after the event logger has been called.
LEMMA PublishWrapperTypes ==
  ASSUME TypeInv, NEW saved \in BOOLEAN, PublishWrapper(saved)
  PROVE  TypeInv' /\ Len(rows') >= Len(rows)
<1>1. /\ TxOK /\ TrailTypeOK /\ StackOK /\ HistoryOK /\ Len(rows) \in Nat
  BY DEF TypeInv, TrailTypeOK
<1>2. /\ Running /\ Top.kind = "publish" /\ Top.todo # <<>>
      /\ UNCHANGED <<mdc, exc, invs, events, history>>
  BY DEF PublishWrapper, At
<1>3. /\ Head(Top.todo) \in Nat /\ Top.req \in RequestIds /\ mdc \in RequestIds \cup {0}
      /\ Len(stack) \in Nat /\ Len(stack) >= 1
  BY <1>1, <1>2, TopPublication DEF HistoryOK
<1>4. WrapperFrames
  BY PublishWrapperEffect
<1>5. StackOK'
  <2>1. \A i \in Invoking' : i \in Invoking /\ stack'[i] = stack[i]
    BY <1>4 DEF Invoking, WrapperFrames
  <2>2. \A i \in Publishing' : stack'[i].step = "raw" => stack'[i].todo # <<>>
    <3> TAKE i \in Publishing'
    <3>1. CASE i = Len(stack)
      BY <1>2, <1>4, <3>1 DEF WrapperFrames
    <3>2. CASE i # Len(stack)
      BY <1>1, <1>4, <3>2 DEF WrapperFrames, Publishing, StackOK
    <3> QED
      BY <3>1, <3>2
  <2>3. Running' /\ stack' \in Seq(FrameType)
    BY <1>3, <1>4 DEF Running, WrapperFrames
  <2> QED
    BY <1>1, <1>2, <2>1, <2>2, <2>3 DEF StackOK
<1>6. HistoryOK'
  BY <1>1, <1>2 DEF HistoryOK, history
<1>7. TxOK' /\ TrailTypeOK' /\ Len(rows') >= Len(rows)
  <2> DEFINE d   == [event |-> Head(Top.todo), req |-> Top.req]
             req == IF mdc # 0 THEN mdc ELSE Top.req
  <2>1. d \in ListenerType /\ req \in RequestIds
    BY <1>3 DEF ListenerType
  <2>2. \/ DeferListener(d) /\ UNCHANGED trail
        \/ Record("event", Head(Top.todo), req, TRUE, saved) /\ UNCHANGED tx
    BY DEF PublishWrapper
  <2> HIDE DEF d, req
  <2>3. CASE DeferListener(d) /\ UNCHANGED trail
    BY <1>1, <2>1, <2>3, TxStep, SameTrail DEF trail
  <2>4. CASE Record("event", Head(Top.todo), req, TRUE, saved) /\ UNCHANGED tx
    <3>1. TRUE \in BOOLEAN
      OBVIOUS
    <3>2. TrailTypeOK' /\ Len(rows') = Len(rows) + 1
      BY <1>1, <1>3, <2>1, <2>4, <3>1, RecordTrail
    <3> QED
      BY <1>1, <2>4, <3>2, TxStep
  <2> QED
    BY <2>2, <2>3, <2>4
<1> QED
  BY <1>5, <1>6, <1>7 DEF TypeInv

\* An external publication opens a request if MDC holds none.
LEMMA PublishExternalTypes ==
  ASSUME TypeInv, NEW timing \in Publishes, PublishExternal(timing)
  PROVE  TypeInv'
<1> DEFINE opened == mdc = 0
           req    == IF opened THEN ids + 1 ELSE mdc
           event  == [by |-> 0, timing |-> timing, delivered |-> 0]
           f == [kind |-> "publish", step |-> "wrapper", mode |-> "external",
                 todo |-> <<Len(events) + 1>>, req |-> req, opened |-> opened]
<1>1. /\ TxOK /\ TrailTypeOK /\ StackOK /\ HistoryOK
      /\ Len(events) < MaxEvents /\ mdc' = req /\ ids' = (IF opened THEN ids + 1 ELSE ids)
      /\ Push(f) /\ events' = Append(events, event)
      /\ UNCHANGED <<tx, trail, exc, invs, snapshots, crashes>>
  BY DEF PublishExternal, TypeInv
<1>2. /\ invs \in Seq(InvType) /\ Len(invs) \in Nat /\ events \in Seq(EventType)
      /\ Len(invs) <= MaxInvokes /\ Len(events) \in Nat /\ ids \in Nat
      /\ ids <= Len(invs) + Len(events) /\ mdc \in RequestIds \cup {0}
  BY <1>1 DEF HistoryOK
<1>3. req \in RequestIds
  BY <1>1, <1>2, RequestIdsSuffice, BoundsAssumption
<1>4. event \in EventType
  BY <1>2, BoundsAssumption DEF EventType, Timings
<1>5. opened \in BOOLEAN
  OBVIOUS
<1>6. ids' \in Nat /\ ids' <= Len(invs) + (Len(events) + 1)
  BY <1>1, <1>2
<1> HIDE DEF opened, req, event
<1>7. f \in FrameType /\ f.kind = "publish" /\ f.step = "wrapper"
  <2>1. <<Len(events) + 1>> \in Seq(Nat)
    BY <1>2
  <2> QED
    BY <1>3, <1>5, <2>1 DEF FrameType, PublishFrame
<1> HIDE DEF f
<1>8. events' \in Seq(EventType) /\ Len(events') = Len(events) + 1
  BY <1>1, <1>2, <1>4
<1>9. StackOK'
  BY <1>1, <1>2, <1>7, PushOK
<1>10. HistoryOK'
  BY <1>1, <1>2, <1>3, <1>6, <1>8, BoundsAssumption DEF HistoryOK
<1> QED
  BY <1>1, <1>9, <1>10, TxStep, SameTrail DEF TypeInv

\* What a crash makes of the invocations.
LEMMA CrashInvs ==
  ASSUME TypeInv, Crash
  PROVE  /\ invs' \in Seq(InvType) /\ SameInvs
         /\ \A n \in 1..Len(invs) :
               /\ invs'[n].outcome =
                     IF invs[n].outcome = "running" THEN "crashed" ELSE invs[n].outcome
               /\ invs'[n].write = IF invs[n].write = "open" THEN "rolledBack" ELSE invs[n].write
<1> DEFINE o(n) == IF invs[n].outcome = "running" THEN "crashed" ELSE invs[n].outcome
           w(n) == IF invs[n].write = "open" THEN "rolledBack" ELSE invs[n].write
           new(n) == [[invs[n] EXCEPT !.outcome = o(n)] EXCEPT !.write = w(n)]
<1>1. invs \in Seq(InvType) /\ Len(invs) \in Nat /\ \A n \in 1..Len(invs) : invs[n] \in InvType
  BY DEF TypeInv, HistoryOK
<1>2. invs' = [n \in 1..Len(invs) |-> new(n)]
  <2>1. ASSUME NEW n \in 1..Len(invs)
        PROVE  [invs[n] EXCEPT !.outcome = IF @ = "running" THEN "crashed" ELSE @,
                               !.write   = IF @ = "open" THEN "rolledBack" ELSE @] = new(n)
    BY <1>1 DEF InvType
  <2> HIDE DEF new
  <2> QED
    BY <2>1 DEF Crash
<1>3. ASSUME NEW n \in 1..Len(invs)
      PROVE  /\ new(n) \in InvType /\ new(n).outcome = o(n) /\ new(n).write = w(n)
             /\ new(n).req = invs[n].req /\ new(n).nested = invs[n].nested
             /\ new(n).joins = invs[n].joins /\ new(n).opens = invs[n].opens
             /\ new(n).cause = invs[n].cause /\ new(n).row = invs[n].row
  <2>1. invs[n] \in InvType
    BY <1>1
  <2>2. o(n) \in Outcomes /\ w(n) \in Writes
    BY <2>1 DEF InvType, Outcomes, Writes
  <2> HIDE DEF o, w
  <2> QED
    BY <2>1, <2>2 DEF InvType
<1> HIDE DEF new
<1>4. /\ invs' \in Seq(InvType) /\ Len(invs') = Len(invs)
      /\ \A n \in 1..Len(invs) : invs'[n] = new(n)
  BY <1>1, <1>2, <1>3
<1> QED
  BY <1>3, <1>4 DEF SameInvs

\* A crash forgets the frames and the transaction.
LEMMA CrashTypes ==
  ASSUME TypeInv, Crash
  PROVE  TypeInv'
<1>1. TxOK /\ TrailTypeOK /\ StackOK /\ HistoryOK
  BY DEF TypeInv
<1>2. /\ crashes < MaxCrashes /\ crashes' = crashes + 1 /\ Forget /\ End
      /\ mdc' = 0 /\ stack' = <<>> /\ exc' = FALSE /\ UNCHANGED <<events, snapshots, ids>>
  BY DEF Crash
<1>3. invs' \in Seq(InvType) /\ Len(invs') = Len(invs)
  BY CrashInvs DEF SameInvs
<1>4. StackOK'
  BY <1>2, NoFramesOK
<1>5. HistoryOK'
  BY <1>1, <1>2, <1>3, BoundsAssumption DEF HistoryOK
<1> QED
  BY <1>1, <1>2, <1>4, <1>5, TxStep, ForgetTrail DEF TypeInv

-----------------------------------------------------------------------------
(***************************************************************************)
(* What a step does to the invocations and to the rows: their identity     *)
(* never changes, rows are only added, and so the command row of every     *)
(* invocation exists.                                                      *)
(***************************************************************************)
RowsExist == \A n \in 1..Len(invs) : invs[n].row \in 1..Len(rows)

\* Every step but Invoke leaves the identity of the invocations alone.
LEMMA InvsStep ==
  ASSUME TypeInv, Next
  PROVE  SameInvs \/ \E saved \in BOOLEAN : Invoke(saved)
<1>1. invs \in Seq(InvType)
  BY DEF TypeInv, HistoryOK
<1>2. CASE UNCHANGED invs
  BY <1>2 DEF SameInvs
<1>3. CASE Settle("committed") \/ Settle("rolledBack")
  <2>1. "committed" \in Writes /\ "rolledBack" \in Writes
    BY DEF Writes
  <2> QED
    BY <1>1, <1>3, <2>1, SettleInvs
<1>4. CASE \E nNow, nLater \in 0..MaxEvents : HandlerReturns(nNow, nLater)
  BY <1>4, HandlerReturnsEffect
<1>5. CASE HandlerThrows
  BY <1>5, HandlerThrowsTypes
<1>6. CASE \E s \in {"return", "throw"} : Finish(s)
  BY <1>6, FinishTypes
<1>7. CASE Crash
  BY <1>7, CrashInvs
<1>8. CASE \E saved \in BOOLEAN : Invoke(saved)
  BY <1>8
<1>9. CASE Proceed
  <2>1. CASE RegisterDeferred \/ StampSuccess \/ StampSuccessThrows \/ RunCallback \/ CallbacksDone
             \/ Completed \/ StampFailure \/ MarkEventsFailed \/ FailureStampThrows
             \/ PublishRaw \/ PublishDone \/ PublishThrows \/ PolicyReturns \/ PolicyThrows
             \/ PolicyCatches \/ HandlerCatches
    BY <1>2, <2>1 DEF RegisterDeferred, StampSuccess, StampSuccessThrows, RunCallback,
          CallbacksDone, Completed, StampFailure, MarkEventsFailed, FailureStampThrows, PublishRaw,
          PublishDone, PublishThrows, PolicyReturns, PolicyThrows, PolicyCatches, HandlerCatches
  <2>2. CASE \E saved \in BOOLEAN : LogDeferred(saved) \/ PublishWrapper(saved)
    BY <1>2, <2>2 DEF LogDeferred, PublishWrapper
  <2>3. CASE Commits \/ CommitThrows \/ UnexpectedRollback \/ Abort
    BY <1>2, <1>3, <2>3 DEF Commits, CommitThrows, UnexpectedRollback, Abort
  <2> QED
    BY <1>4, <1>5, <1>6, <1>9, <2>1, <2>2, <2>3 DEF Proceed
<1>10. CASE Call
  BY <1>2, <1>8, <1>10 DEF Call, PublishExternal, ParticipantFails
<1> QED
  BY <1>7, <1>9, <1>10 DEF Next

\* No step drops a row or changes what it stands for.
SameRowsSoFar ==
    /\ Len(rows') \in Nat /\ Len(rows') >= Len(rows)
    /\ \A i \in 1..Len(rows) :
          /\ rows'[i].kind = rows[i].kind /\ rows'[i].of = rows[i].of
          /\ rows'[i].req = rows[i].req /\ rows'[i].saved = rows[i].saved
          /\ rows'[i].order = rows[i].order

\* That is so if rows are kept, stamped or added.
LEMMA SameRowsSoFarIf ==
  ASSUME TrailTypeOK, UNCHANGED rows \/ SameRows \/ \E row : rows' = Append(rows, row)
  PROVE  SameRowsSoFar
<1>1. rows \in Seq(RowType) /\ Len(rows) \in Nat
  BY DEF TrailTypeOK
<1>2. CASE UNCHANGED rows
  BY <1>1, <1>2 DEF SameRowsSoFar
<1>3. CASE SameRows
  BY <1>1, <1>3 DEF SameRows, SameRowsSoFar
<1>4. CASE \E row : rows' = Append(rows, row)
  BY <1>1, <1>4 DEF SameRowsSoFar
<1> QED
  BY <1>2, <1>3, <1>4

\* The stamps, by the rows they touch.
LEMMA StampRows ==
  ASSUME TypeInv, RowsExist, StampSuccess \/ StampFailure \/ MarkEventsFailed \/ FailureStampThrows
  PROVE  SameRows
<1>1. Running /\ Top.kind = "invoke" /\ TrailTypeOK
  BY DEF StampSuccess, StampFailure, MarkEventsFailed, FailureStampThrows, At, TypeInv
<1>2. Inv.row \in 1..Len(rows) /\ Inv.req \in RequestIds
  BY <1>1, TopInvocation DEF RowsExist
<1>3. CASE Stamp(Inv.row, TRUE) \/ Stamp(Inv.row, FALSE)
  BY <1>1, <1>2, <1>3, StampTrail
<1>4. CASE MarkFailed(Inv.req)
  BY <1>1, <1>2, <1>4, MarkFailedTrail
<1>5. CASE UNCHANGED rows
  BY <1>5 DEF SameRows
<1> QED
  BY <1>3, <1>4, <1>5
     DEF StampSuccess, StampFailure, MarkEventsFailed, FailureStampThrows, trail

\* Rows are added or stamped; they are never dropped.
LEMMA RowsStep ==
  ASSUME TypeInv, RowsExist, Next
  PROVE  SameRowsSoFar
<1>1. TrailTypeOK
  BY DEF TypeInv
<1>2. CASE UNCHANGED rows
  BY <1>1, <1>2, SameRowsSoFarIf
<1>3. CASE \E row : rows' = Append(rows, row)
  BY <1>1, <1>3, SameRowsSoFarIf
<1>4. CASE UNCHANGED trail
  BY <1>2, <1>4 DEF trail
<1>5. CASE Proceed
  <2>1. CASE RegisterDeferred \/ HandlerThrows \/ StampSuccessThrows \/ RunCallback
             \/ CallbacksDone \/ Completed \/ Commits \/ CommitThrows \/ UnexpectedRollback
             \/ Abort \/ PublishRaw \/ PublishDone \/ PublishThrows \/ PolicyReturns
             \/ PolicyThrows \/ PolicyCatches \/ HandlerCatches
    BY <1>4, <2>1 DEF RegisterDeferred, HandlerThrows, StampSuccessThrows, RunCallback,
          CallbacksDone, Completed, Commits, CommitThrows, UnexpectedRollback, Abort, PublishRaw,
          PublishDone, PublishThrows, PolicyReturns, PolicyThrows, PolicyCatches, HandlerCatches
  <2>2. CASE \E saved \in BOOLEAN : LogDeferred(saved) \/ PublishWrapper(saved)
    BY <1>3, <1>4, <2>2 DEF LogDeferred, PublishWrapper, Record
  <2>3. CASE StampSuccess \/ StampFailure \/ MarkEventsFailed \/ FailureStampThrows
    BY <1>1, <2>3, StampRows, SameRowsSoFarIf
  <2>4. CASE \E s \in {"return", "throw"} : Finish(s)
    BY <1>2, <2>4, FinishTypes
  <2>5. CASE \E nNow, nLater \in 0..MaxEvents : HandlerReturns(nNow, nLater)
    BY <1>4, <2>5 DEF HandlerReturns
  <2> QED
    BY <1>5, <2>1, <2>2, <2>3, <2>4, <2>5 DEF Proceed
<1>6. CASE Call
  BY <1>3, <1>4, <1>6 DEF Call, Invoke, Record, PublishExternal, ParticipantFails
<1>7. CASE Crash
  BY <1>2, <1>7 DEF Crash, Forget
<1> QED
  BY <1>5, <1>6, <1>7 DEF Next

\* Rows are never dropped and every new invocation adds its own.
LEMMA RowsExistStep ==
  ASSUME TypeInv, RowsExist, [Next]_vars
  PROVE  RowsExist'
<1>1. invs \in Seq(InvType) /\ Len(invs) \in Nat /\ Len(rows) \in Nat
  BY DEF TypeInv, HistoryOK, TrailTypeOK
<1>2. CASE SameInvs /\ SameRowsSoFar
  BY <1>1, <1>2 DEF RowsExist, SameInvs, SameRowsSoFar
<1>3. ASSUME NEW saved \in BOOLEAN, Invoke(saved)
      PROVE  RowsExist'
  <2>1. \E r : invs' = Append(invs, r) /\ r.row = Len(rows) + 1
    BY <1>3 DEF Invoke
  <2>2. \E r : rows' = Append(rows, r)
    BY <1>3 DEF Invoke, Record
  <2>3. Len(rows') = Len(rows) + 1
    BY <2>2 DEF TypeInv, TrailTypeOK
  <2> QED
    BY <1>1, <2>1, <2>3 DEF RowsExist
<1>4. CASE UNCHANGED vars
  BY <1>4 DEF vars, trail, RowsExist
<1> QED
  BY <1>2, <1>3, <1>4, InvsStep, RowsStep

\* Every step keeps the types.
LEMMA TypeInvStep ==
  ASSUME TypeInv, RowsExist, [Next]_vars
  PROVE  TypeInv'
<1>1. CASE Proceed
  <2>1. CASE \E nNow, nLater \in 0..MaxEvents : HandlerReturns(nNow, nLater)
    BY <2>1, HandlerReturnsTypes
  <2>2. CASE HandlerThrows
    BY <2>2, HandlerThrowsTypes
  <2>3. CASE RegisterDeferred \/ Commits \/ CommitThrows \/ UnexpectedRollback
             \/ CallbacksDone \/ Completed \/ Abort
    BY <2>3, SpringTypes
  <2>4. CASE StampSuccess \/ StampFailure \/ MarkEventsFailed \/ FailureStampThrows
    BY <2>4, StampTypes DEF RowsExist
  <2>5. CASE StampSuccessThrows \/ PolicyCatches \/ HandlerCatches
    BY <2>5, StillTypes
  <2>6. CASE RunCallback \/ PublishRaw
    BY <2>6, RunCallbackTypes, PublishRawTypes
  <2>7. CASE \E saved \in BOOLEAN : LogDeferred(saved) \/ PublishWrapper(saved)
    BY <2>7, LogDeferredTypes, PublishWrapperTypes
  <2>8. CASE \E s \in {"return", "throw"} : Finish(s)
    BY <2>8, FinishTypes
  <2>9. CASE PublishDone \/ PublishThrows \/ PolicyReturns \/ PolicyThrows
    BY <2>9, LeaveTypes
  <2> QED
    BY <1>1, <2>1, <2>2, <2>3, <2>4, <2>5, <2>6, <2>7, <2>8, <2>9 DEF Proceed
<1>2. CASE Call
  BY <1>2, InvokeTypes, PublishExternalTypes, StillTypes DEF Call
<1>3. CASE Crash
  BY <1>3, CrashTypes
<1>4. CASE UNCHANGED vars
  <2>1. UNCHANGED <<tx, trail, mdc, stack, exc, invs, events, history>>
    BY <1>4 DEF vars
  <2>2. TxOK' /\ TrailTypeOK' /\ HistoryOK'
    BY <2>1, TxStep, SameTrail DEF TypeInv, HistoryOK, history
  <2>3. StackOK'
    BY <2>1, SameStackOK DEF TypeInv, StackOK
  <2> QED
    BY <2>2, <2>3 DEF TypeInv
<1> QED
  BY <1>1, <1>2, <1>3, <1>4 DEF Next

\* Within the bounds, every variable keeps its type, whatever handlers, policies and
\* the database do.
THEOREM InvokerTypeCorrect == Spec => []TypeOK
<1>1. Init => TypeInv /\ RowsExist
  <2>1. Init => RowsExist
    <3>1. Len(<<>>) = 0
      OBVIOUS
    <3> QED
      BY <3>1 DEF Init, RowsExist
  <2> QED
    BY <2>1, InitTypeInv
<1>2. TypeInv /\ RowsExist /\ [Next]_vars => (TypeInv /\ RowsExist)'
  BY TypeInvStep, RowsExistStep
<1>3. TypeInv => TypeOK
  BY DEF TypeInv, TypeOK, TxOK, StackOK, HistoryOK
<1> QED
  BY <1>1, <1>2, <1>3, PTL DEF Spec

=============================================================================
