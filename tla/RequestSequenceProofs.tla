----------------------- MODULE RequestSequenceProofs -----------------------
(***************************************************************************)
(* Theorems about RequestSequence, for any number of threads, requests and *)
(* calls and any cap.                                                      *)
(*                                                                         *)
(* Type correctness is inductive with the ranges of the locals of a call   *)
(* (Locals).  Gap-freedom is not: that a request's next order is one more  *)
(* than its last depends on the counter object a thread is about to        *)
(* increment being the one the table holds, and on no other request ever   *)
(* reaching that object.  OrderInv adds exactly that.  That next() is an   *)
(* atomic NumberSource also needs a bound on the counters an eviction has  *)
(* cut loose, which threads may still hold: RefineInv.  That the cap is    *)
(* restored needs, whenever the table is above it, a thread that can still *)
(* bring it back, whatever the others add and remove meanwhile: CapInv.    *)
(***************************************************************************)
EXTENDS RequestSequence, FiniteSetTheorems, TLAPS

\* What a call in progress holds at the steps that use it.
Locals ==
    \A t \in Threads :
        /\ pc[t] \in {"lookup", "increment"} => arg[t] \in Requests
        /\ pc[t] = "increment" => ref[t] \in 1..Len(heap)
        /\ pc[t] = "remove" => cursor[t] \in Requests

\* No counter object serves two requests, in the table or in a thread's hands.
Unshared ==
    /\ \A r, q \in Requests : r # q /\ sequences[r] # 0 => sequences[r] # sequences[q]
    /\ \A t \in Threads : pc[t] = "increment" =>
           \A q \in Requests : q # arg[t] => sequences[q] # ref[t]

\* An untouched entry counts exactly the orders issued, and the thread about to
\* increment for it holds that entry's object.
Counts ==
    /\ \A r \in Requests \ evicted :
           IF sequences[r] = 0 THEN issued[r] = <<>>
                               ELSE heap[sequences[r]] = Len(issued[r])
    /\ \A t \in Threads : pc[t] = "increment" /\ arg[t] \notin evicted =>
           sequences[arg[t]] = ref[t]

TypeInv  == TypeOK /\ Locals
OrderInv == TypeInv /\ Unshared /\ Counts /\ OrdersGapFreeUnlessEvicted
-----------------------------------------------------------------------------
\* Every variable starts in its type.
LEMMA InitTypeInv == Init => TypeInv
  BY DEF Init, TypeInv, TypeOK, Locals, Steps

\* Every step of every thread keeps every variable in its type.
LEMMA NextTypeInv == TypeInv /\ [Next]_vars => TypeInv'
<1> SUFFICES ASSUME TypeInv, [Next]_vars
             PROVE  TypeInv'
  OBVIOUS
<1> USE DEF TypeInv, TypeOK, Locals, Steps
<1>1. ASSUME NEW t \in Threads, NEW r \in Requests, NEW m \in Requests \cup {NoRequest},
             Call(t, r, m)
      PROVE  TypeInv'
  BY <1>1 DEF Call, table, scan, ghost
<1>2. ASSUME NEW t \in Threads, CallBlank(t)
      PROVE  TypeInv'
  BY <1>2 DEF CallBlank, table, call, scan, ghost
<1>3. ASSUME NEW t \in Threads, Clear(t)
      PROVE  TypeInv'
  BY <1>3 DEF Clear, table, call, scan, ghost
<1>4. ASSUME NEW t \in Threads, ComputeIfAbsent(t)
      PROVE  TypeInv'
  <2> USE <1>4 DEF ComputeIfAbsent, table, scan, ghost
  <2>1. CASE sequences[arg[t]] # 0
    <3>1. sequences[arg[t]] \in 1..Len(heap)
      BY <2>1
    <3> QED
      BY <2>1, <3>1
  <2>2. CASE sequences[arg[t]] = 0
    <3>0. /\ heap' = Append(heap, 0)
          /\ sequences' = [sequences EXCEPT ![arg[t]] = Len(heap) + 1]
          /\ ref' = [ref EXCEPT ![t] = Len(heap) + 1]
      BY <2>2, Zenon
    <3>1. heap' \in Seq(Nat) /\ Len(heap') = Len(heap) + 1
      <4> HIDE <1>4 DEF ComputeIfAbsent, Locals
      <4> QED
        BY <3>0
    <3>2. sequences' \in [Requests -> Nat] /\ ref' \in [Threads -> Nat]
      <4>1. Len(heap) + 1 \in Nat
        OBVIOUS
      <4> QED
        BY <3>0, <4>1
    <3>3. \A r \in Requests : sequences'[r] \in 0..Len(heap')
      <4> TAKE r \in Requests
      <4>1. sequences'[r] \in {sequences[r], Len(heap) + 1}
        BY <2>2
      <4>2. sequences[r] \in 0..Len(heap) /\ Len(heap) \in Nat
        OBVIOUS
      <4> QED
        BY <3>1, <4>1, <4>2, SMT
    <3>4. \A s \in Threads : pc'[s] = "increment" => ref'[s] \in 1..Len(heap')
      <4> SUFFICES ASSUME NEW s \in Threads, pc'[s] = "increment"
                   PROVE  ref'[s] \in 1..Len(heap')
        OBVIOUS
      <4>1. s = t => ref'[s] = Len(heap) + 1
        BY <2>2
      <4>2. s # t => ref'[s] \in 1..Len(heap)
        BY <2>2
      <4> QED
        BY <3>1, <4>1, <4>2
    <3> QED
      BY <2>2, <3>1, <3>2, <3>3, <3>4
  <2> QED
    BY <2>1, <2>2
<1>5. ASSUME NEW t \in Threads, IncrementAndGet(t)
      PROVE  TypeInv'
  <2> DEFINE order == heap[ref[t]] + 1
  <2>1. order \in Nat
    BY <1>5 DEF IncrementAndGet
  <2>2. heap' \in Seq(Nat) /\ Len(heap') = Len(heap)
    BY <1>5, <2>1 DEF IncrementAndGet
  <2>3. issued' \in [Requests -> Seq(Nat)]
    BY <1>5, <2>1 DEF IncrementAndGet
  <2> HIDE DEF order
  <2>4. CASE pc' = [pc EXCEPT ![t] = "check"] /\ UNCHANGED <<call, scan>>
    BY <1>5, <2>2, <2>3, <2>4 DEF IncrementAndGet, call, scan
  <2>5. CASE Return(t)
    BY <1>5, <2>2, <2>3, <2>5 DEF IncrementAndGet, Return
  <2> QED
    BY <1>5, <2>4, <2>5 DEF IncrementAndGet
<1>6. ASSUME NEW t \in Threads, CheckSize(t)
      PROVE  TypeInv'
  <2>1. CASE pc' = [pc EXCEPT ![t] = "evict"] /\ UNCHANGED <<call, scan>>
    BY <1>6, <2>1 DEF CheckSize, table, call, scan, ghost
  <2>2. CASE Return(t)
    BY <1>6, <2>2 DEF CheckSize, Return, table, ghost
  <2> QED
    BY <1>6, <2>1, <2>2 DEF CheckSize
<1>7. ASSUME NEW t \in Threads, EvictExcess(t)
      PROVE  TypeInv'
  <2>1. Present \in SUBSET Requests /\ IsFiniteSet(Present)
    BY RequestsAssumption, FS_Subset DEF Present
  <2>2. Size - MaxEntries + Headroom \in Int
    BY <2>1, FS_CardinalityType, LimitsAssumption DEF Size
  <2> QED
    BY <1>7, <2>1, <2>2 DEF EvictExcess, table, call, ghost
<1>8. ASSUME NEW t \in Threads, NEW k \in Requests, NextKey(t, k)
      PROVE  TypeInv'
  BY <1>8 DEF NextKey, table, call, ghost
<1>9. ASSUME NEW t \in Threads, RemoveKey(t)
      PROVE  TypeInv'
  BY <1>9 DEF RemoveKey, call, Present
<1>10. ASSUME NEW t \in Threads, ScanDone(t)
       PROVE  TypeInv'
  BY <1>10 DEF ScanDone, Return, table, ghost
<1>11. CASE UNCHANGED vars
  BY <1>11 DEF vars, table, call, scan, ghost
<1> QED
  BY <1>1, <1>2, <1>3, <1>4, <1>5, <1>6, <1>7, <1>8, <1>9, <1>10, <1>11 DEF Next, Step

\* The type invariant of RequestSequence holds in every reachable state.
THEOREM TypeCorrect == Spec => []TypeOK
<1>1. TypeInv => TypeOK
  BY DEF TypeInv
<1> QED
  BY <1>1, InitTypeInv, NextTypeInv, PTL DEF Spec
-----------------------------------------------------------------------------
\* No call has been made, so no order has been issued and no counter exists.
LEMMA InitOrderInv == Init => OrderInv
<1> SUFFICES ASSUME Init
             PROVE  OrderInv
  OBVIOUS
<1>1. TypeInv
  BY InitTypeInv
<1>2. Unshared /\ Counts /\ OrdersGapFreeUnlessEvicted
  BY DEF Init, Unshared, Counts, OrdersGapFreeUnlessEvicted
<1> QED
  BY <1>1, <1>2 DEF OrderInv

\* A step that touches no counter, no order and no evicted entry, and puts no
\* thread in front of an increment, keeps the order invariant.
LEMMA QuietStep ==
  ASSUME OrderInv, TypeInv',
         UNCHANGED <<sequences, heap, issued, evicted>>,
         \A s \in Threads : pc'[s] = "increment" =>
             pc[s] = "increment" /\ arg'[s] = arg[s] /\ ref'[s] = ref[s]
  PROVE  OrderInv'
<1>1. Unshared'
  BY DEF OrderInv, Unshared
<1>2. Counts'
  BY DEF OrderInv, Counts
<1>3. OrdersGapFreeUnlessEvicted'
  BY DEF OrderInv, OrdersGapFreeUnlessEvicted
<1> QED
  BY <1>1, <1>2, <1>3 DEF OrderInv

\* computeIfAbsent hands out the entry's object, or a new one nobody else has.
LEMMA ComputeIfAbsentOrderInv ==
  ASSUME OrderInv, TypeInv', NEW t \in Threads, ComputeIfAbsent(t)
  PROVE  OrderInv'
<1> DEFINE r == arg[t]
<1>1. /\ r \in Requests
      /\ pc' = [pc EXCEPT ![t] = "increment"]
      /\ UNCHANGED <<arg, issued, evicted>>
  BY DEF ComputeIfAbsent, ghost, OrderInv, TypeInv, TypeOK, Locals
<1>2. /\ \A q \in Requests : sequences[q] \in 0..Len(heap)
      /\ \A s \in Threads : pc[s] = "increment" => ref[s] \in 1..Len(heap)
      /\ heap \in Seq(Nat) /\ Len(heap) \in Nat
  BY DEF OrderInv, TypeInv, TypeOK, Locals
<1>3. /\ pc \in [Threads -> Steps] /\ ref \in [Threads -> Nat]
      /\ sequences \in [Requests -> Nat]
  BY DEF OrderInv, TypeInv, TypeOK
<1>4. OrdersGapFreeUnlessEvicted'
  BY <1>1 DEF OrderInv, OrdersGapFreeUnlessEvicted
<1>5. CASE sequences[r] # 0
  <2>1. UNCHANGED <<sequences, heap>> /\ ref' = [ref EXCEPT ![t] = sequences[r]]
    BY <1>5 DEF ComputeIfAbsent, table
  <2>2. Unshared'
    BY <1>1, <1>3, <1>5, <2>1 DEF OrderInv, Unshared
  <2>3. Counts'
    BY <1>1, <1>3, <1>5, <2>1 DEF OrderInv, Counts
  <2> QED
    BY <1>4, <2>2, <2>3 DEF OrderInv
<1>6. CASE sequences[r] = 0
  <2>1. /\ heap' = Append(heap, 0)
        /\ sequences' = [sequences EXCEPT ![r] = Len(heap) + 1]
        /\ ref' = [ref EXCEPT ![t] = Len(heap) + 1]
    BY <1>6 DEF ComputeIfAbsent
  <2>2. Unshared'
    <3>1. \A q, p \in Requests : q # p /\ sequences'[q] # 0 => sequences'[q] # sequences'[p]
      BY <1>1, <1>2, <1>3, <2>1 DEF OrderInv, Unshared
    <3>2. \A s \in Threads : pc'[s] = "increment" =>
              \A q \in Requests : q # arg'[s] => sequences'[q] # ref'[s]
      BY <1>1, <1>2, <1>3, <2>1 DEF OrderInv, Unshared
    <3> QED
      BY <3>1, <3>2 DEF Unshared
  <2>3. \A q \in Requests \ evicted :
            IF sequences'[q] = 0 THEN issued[q] = <<>>
                                 ELSE heap'[sequences'[q]] = Len(issued[q])
    <3> TAKE q \in Requests \ evicted
    <3>1. CASE q = r
      <4>1. issued[r] = <<>>
        BY <1>6, <3>1 DEF OrderInv, Counts
      <4>2. sequences'[r] = Len(heap) + 1 /\ heap'[Len(heap) + 1] = 0
        BY <1>1, <1>2, <1>3, <2>1
      <4> QED
        BY <1>2, <3>1, <4>1, <4>2
    <3>2. CASE q # r
      <4>1. sequences'[q] = sequences[q]
        BY <1>3, <2>1, <3>2
      <4>2. sequences[q] # 0 => heap'[sequences[q]] = heap[sequences[q]]
        BY <1>2, <2>1
      <4> QED
        BY <4>1, <4>2 DEF OrderInv, Counts
    <3> QED
      BY <3>1, <3>2
  <2>4. \A s \in Threads : pc'[s] = "increment" /\ arg'[s] \notin evicted' =>
            sequences'[arg'[s]] = ref'[s]
    <3> SUFFICES ASSUME NEW s \in Threads, pc'[s] = "increment", arg[s] \notin evicted
                 PROVE  sequences'[arg[s]] = ref'[s]
      BY <1>1
    <3>1. CASE s = t
      BY <1>1, <1>3, <2>1, <3>1
    <3>2. CASE s # t
      <4>1. pc[s] = "increment" /\ ref'[s] = ref[s] /\ sequences[arg[s]] = ref[s]
        BY <1>1, <1>3, <2>1, <3>2 DEF OrderInv, Counts
      <4>2. arg[s] # r
        BY <1>2, <1>6, <4>1
      <4> QED
        BY <1>3, <2>1, <4>1, <4>2
    <3> QED
      BY <3>1, <3>2
  <2>5. Counts'
    BY <1>1, <2>3, <2>4 DEF Counts
  <2> QED
    BY <1>4, <2>2, <2>5 DEF OrderInv
<1> QED
  BY <1>5, <1>6

\* incrementAndGet moves one counter and issues its new value to one request.
LEMMA IncrementOrderInv ==
  ASSUME OrderInv, TypeInv', NEW t \in Threads, IncrementAndGet(t)
  PROVE  OrderInv'
<1> DEFINE r == arg[t]
           order == heap[ref[t]] + 1
<1>1. /\ r \in Requests
      /\ ref[t] \in 1..Len(heap)
      /\ pc[t] = "increment"
      /\ UNCHANGED <<sequences, evicted>>
      /\ heap' = [heap EXCEPT ![ref[t]] = order]
      /\ issued' = [issued EXCEPT ![r] = Append(issued[r], order)]
  BY DEF IncrementAndGet, OrderInv, TypeInv, TypeOK, Locals
<1>2. /\ heap \in Seq(Nat) /\ issued \in [Requests -> Seq(Nat)]
      /\ order \in Nat
      /\ \A q \in Requests : sequences[q] \in 0..Len(heap)
  BY <1>1 DEF OrderInv, TypeInv, TypeOK
<1>3. \A s \in Threads : pc'[s] = "increment" =>
          pc[s] = "increment" /\ arg'[s] = arg[s] /\ ref'[s] = ref[s]
  <2> USE DEF OrderInv, TypeInv, TypeOK, Steps
  <2>1. CASE pc' = [pc EXCEPT ![t] = "check"] /\ UNCHANGED <<call, scan>>
    BY <2>1 DEF call
  <2>2. CASE Return(t)
    BY <2>2 DEF Return
  <2> QED
    BY <2>1, <2>2 DEF IncrementAndGet
<1> HIDE DEF order
<1>4. Unshared'
  BY <1>1, <1>3 DEF OrderInv, Unshared
<1>5. \A q \in Requests : q # r => issued'[q] = issued[q] /\ sequences[q] # ref[t]
  BY <1>1, <1>2 DEF OrderInv, Unshared
<1>6. r \notin evicted =>
          /\ sequences[r] = ref[t]
          /\ order = Len(issued[r]) + 1
          /\ issued'[r] = Append(issued[r], order)
  BY <1>1, <1>2 DEF OrderInv, Counts, order
<1>7. Counts'
  <2>1. \A q \in Requests \ evicted :
            IF sequences[q] = 0 THEN issued'[q] = <<>>
                                ELSE heap'[sequences[q]] = Len(issued'[q])
    <3> TAKE q \in Requests \ evicted
    <3>1. CASE q = r
      <4>1. sequences[q] # 0 /\ heap'[sequences[q]] = order
        BY <1>1, <1>2, <1>6, <3>1
      <4>2. Len(issued'[q]) = order
        BY <1>2, <1>6, <3>1
      <4> QED
        BY <4>1, <4>2
    <3>2. CASE q # r
      <4>1. sequences[q] # 0 => heap'[sequences[q]] = heap[sequences[q]]
        BY <1>1, <1>2, <1>5, <3>2
      <4> QED
        BY <1>5, <3>2, <4>1 DEF OrderInv, Counts
    <3> QED
      BY <3>1, <3>2
  <2> QED
    BY <1>1, <1>3, <2>1 DEF OrderInv, Counts
<1>8. OrdersGapFreeUnlessEvicted'
  <2> SUFFICES ASSUME NEW q \in Requests \ evicted, NEW i \in 1..Len(issued'[q])
               PROVE  issued'[q][i] = i
    BY <1>1 DEF OrdersGapFreeUnlessEvicted
  <2>1. CASE q = r
    <3>1. issued[r] \in Seq(Nat) /\ Len(issued[r]) \in Nat
      BY <1>1, <1>2
    <3>2. issued'[q] = Append(issued[r], Len(issued[r]) + 1)
      BY <1>6, <2>1
    <3>3. \A j \in 1..Len(issued[r]) : issued[r][j] = j
      BY <2>1 DEF OrderInv, OrdersGapFreeUnlessEvicted
    <3> QED
      BY <3>1, <3>2, <3>3
  <2>2. CASE q # r
    BY <1>5, <2>2 DEF OrderInv, OrdersGapFreeUnlessEvicted
  <2> QED
    BY <2>1, <2>2
<1> QED
  BY <1>4, <1>7, <1>8 DEF OrderInv

\* it.remove() either finds the key gone or makes its request an evicted one.
LEMMA RemoveKeyOrderInv ==
  ASSUME OrderInv, TypeInv', NEW t \in Threads, RemoveKey(t)
  PROVE  OrderInv'
<1> DEFINE k == cursor[t]
<1>1. /\ k \in Requests
      /\ sequences' = [sequences EXCEPT ![k] = 0]
      /\ evicted' = evicted \cup ({k} \cap Present)
      /\ UNCHANGED <<heap, arg, ref, issued>>
      /\ \A s \in Threads : pc'[s] = "increment" => pc[s] = "increment" /\ s # t
  BY DEF RemoveKey, call, OrderInv, TypeInv, TypeOK, Locals, Steps
<1>2. /\ sequences \in [Requests -> Nat]
      /\ \A s \in Threads : pc[s] = "increment" => ref[s] # 0
  BY DEF OrderInv, TypeInv, TypeOK, Locals
<1>3. sequences[k] # 0 => k \in evicted'
  BY <1>1 DEF Present
<1>4. Unshared'
  BY <1>1, <1>2 DEF OrderInv, Unshared
<1>5. Counts'
  BY <1>1, <1>2, <1>3 DEF OrderInv, Counts
<1>6. OrdersGapFreeUnlessEvicted'
  BY <1>1 DEF OrderInv, OrdersGapFreeUnlessEvicted
<1> QED
  BY <1>4, <1>5, <1>6 DEF OrderInv

\* The three steps above are the only ones that touch counters or orders.
LEMMA NextOrderInv == OrderInv /\ [Next]_vars => OrderInv'
<1> SUFFICES ASSUME OrderInv, [Next]_vars
             PROVE  OrderInv'
  OBVIOUS
<1>1. TypeInv'
  BY NextTypeInv DEF OrderInv
<1>2. pc \in [Threads -> Steps] /\ arg \in [Threads -> Requests \cup {NoRequest}]
  BY DEF OrderInv, TypeInv, TypeOK
<1>3. ASSUME NEW t \in Threads, NEW r \in Requests, NEW m \in Requests \cup {NoRequest},
             Call(t, r, m)
      PROVE  OrderInv'
  BY <1>1, <1>2, <1>3, QuietStep DEF Call, table, ghost
<1>4. ASSUME NEW t \in Threads, CallBlank(t) \/ Clear(t)
      PROVE  OrderInv'
  BY <1>1, <1>4, QuietStep DEF CallBlank, Clear, table, call, ghost
<1>5. ASSUME NEW t \in Threads, ComputeIfAbsent(t)
      PROVE  OrderInv'
  BY <1>1, <1>5, ComputeIfAbsentOrderInv
<1>6. ASSUME NEW t \in Threads, IncrementAndGet(t)
      PROVE  OrderInv'
  BY <1>1, <1>6, IncrementOrderInv
<1>7. ASSUME NEW t \in Threads, CheckSize(t) \/ ScanDone(t)
      PROVE  OrderInv'
  <2>1. CASE pc' = [pc EXCEPT ![t] = "evict"] /\ UNCHANGED <<call, scan>>
    <3>1. \A s \in Threads : pc'[s] = "increment" =>
              pc[s] = "increment" /\ arg'[s] = arg[s] /\ ref'[s] = ref[s]
      BY <1>2, <2>1 DEF call
    <3> QED
      BY <1>1, <1>7, <3>1, QuietStep DEF CheckSize, ScanDone, table, ghost
  <2>2. CASE Return(t)
    <3>1. \A s \in Threads : pc'[s] = "increment" =>
              pc[s] = "increment" /\ arg'[s] = arg[s] /\ ref'[s] = ref[s]
      BY <1>2, <2>2 DEF Return, OrderInv, TypeInv, TypeOK
    <3> QED
      BY <1>1, <1>7, <3>1, QuietStep DEF CheckSize, ScanDone, table, ghost
  <2> QED
    BY <1>7, <2>1, <2>2 DEF CheckSize, ScanDone
<1>8. ASSUME NEW t \in Threads, NEW k \in Requests, NextKey(t, k)
      PROVE  OrderInv'
  BY <1>1, <1>2, <1>8, QuietStep DEF NextKey, table, call, ghost
<1>9. ASSUME NEW t \in Threads, RemoveKey(t)
      PROVE  OrderInv'
  BY <1>1, <1>9, RemoveKeyOrderInv
<1>10. CASE UNCHANGED vars
  BY <1>1, <1>10, QuietStep DEF vars, table, call, ghost
<1>11. CASE \E t \in Threads : EvictExcess(t)
  BY <1>1, <1>2, <1>11, QuietStep DEF EvictExcess, table, call, ghost
<1> QED
  BY <1>3, <1>4, <1>5, <1>6, <1>7, <1>8, <1>9, <1>10, <1>11 DEF Next, Step

\* However threads interleave inside next(), the rows of a request whose counter
\* has not been evicted are numbered 1, 2, 3, ... without gap or repetition.
THEOREM OrdersCorrect == Spec => []OrdersGapFreeUnlessEvicted
<1>1. OrderInv => OrdersGapFreeUnlessEvicted
  BY DEF OrderInv
<1> QED
  BY <1>1, InitOrderInv, NextOrderInv, PTL DEF Spec
-----------------------------------------------------------------------------
\* Threads about to increment for different requests hold different objects.
Apart ==
    \A s, t \in Threads :
        pc[s] = "increment" /\ pc[t] = "increment" /\ arg[s] # arg[t] => ref[s] # ref[t]

\* No counter a request can still reach is ahead of the orders it was given.
Behind ==
    /\ \A r \in Requests : sequences[r] # 0 => heap[sequences[r]] <= Len(issued[r])
    /\ \A t \in Threads : pc[t] = "increment" => heap[ref[t]] <= Len(issued[arg[t]])

RefineInv == OrderInv /\ Apart /\ Behind

\* A step that touches no table entry, counter or order keeps Apart and Behind.
LEMMA QuietRefineStep ==
  ASSUME RefineInv, OrderInv',
         UNCHANGED <<heap, issued>>,
         \A r \in Requests : sequences'[r] \in {0, sequences[r]},
         \A s \in Threads : pc'[s] = "increment" =>
             pc[s] = "increment" /\ arg'[s] = arg[s] /\ ref'[s] = ref[s]
  PROVE  RefineInv'
<1>1. Apart'
  BY DEF RefineInv, Apart
<1>2. Behind'
  BY DEF RefineInv, Behind
<1> QED
  BY <1>1, <1>2 DEF RefineInv

\* The object handed out is the entry's, which no other request's thread holds,
\* or a new one, which counts nothing yet.
LEMMA ComputeIfAbsentRefineInv ==
  ASSUME RefineInv, OrderInv', NEW t \in Threads, ComputeIfAbsent(t)
  PROVE  RefineInv'
<1> DEFINE r == arg[t]
<1>1. /\ r \in Requests
      /\ pc[t] = "lookup"
      /\ pc' = [pc EXCEPT ![t] = "increment"]
      /\ UNCHANGED <<arg, issued>>
  BY DEF ComputeIfAbsent, ghost, RefineInv, OrderInv, TypeInv, TypeOK, Locals
<1>2. /\ heap \in Seq(Nat) /\ Len(heap) \in Nat
      /\ \A q \in Requests : sequences[q] \in 0..Len(heap)
      /\ \A s \in Threads : pc[s] = "increment" => ref[s] \in 1..Len(heap)
      /\ \A q \in Requests : Len(issued[q]) \in Nat
  BY DEF RefineInv, OrderInv, TypeInv, TypeOK, Locals
<1>3. /\ pc \in [Threads -> Steps] /\ ref \in [Threads -> Nat]
      /\ sequences \in [Requests -> Nat]
      /\ \A s \in Threads : pc[s] = "increment" => arg[s] \in Requests
  BY DEF RefineInv, OrderInv, TypeInv, TypeOK, Locals
<1>4. CASE sequences[r] # 0
  <2>1. UNCHANGED <<sequences, heap>> /\ ref' = [ref EXCEPT ![t] = sequences[r]]
    BY <1>4 DEF ComputeIfAbsent, table
  <2>2. \A s \in Threads : pc[s] = "increment" /\ arg[s] # r => ref[s] # sequences[r]
    BY <1>1 DEF RefineInv, OrderInv, Unshared
  <2>3. Apart'
    BY <1>1, <1>3, <2>1, <2>2 DEF RefineInv, Apart
  <2>4. Behind'
    BY <1>1, <1>3, <1>4, <2>1 DEF RefineInv, Behind
  <2> QED
    BY <2>3, <2>4 DEF RefineInv
<1>5. CASE sequences[r] = 0
  <2>1. /\ heap' = Append(heap, 0)
        /\ sequences' = [sequences EXCEPT ![r] = Len(heap) + 1]
        /\ ref' = [ref EXCEPT ![t] = Len(heap) + 1]
    BY <1>5 DEF ComputeIfAbsent
  <2>2. Apart'
    BY <1>1, <1>2, <1>3, <2>1 DEF RefineInv, Apart
  <2>3. /\ heap'[Len(heap) + 1] = 0
        /\ \A i \in 1..Len(heap) : heap'[i] = heap[i]
    BY <1>2, <2>1
  <2>4. \A q \in Requests : sequences'[q] # 0 => heap'[sequences'[q]] <= Len(issued[q])
    <3> TAKE q \in Requests
    <3>1. CASE q = r
      BY <1>1, <1>2, <1>3, <2>1, <2>3, <3>1
    <3>2. CASE q # r
      BY <1>2, <1>3, <2>1, <2>3, <3>2 DEF RefineInv, Behind
    <3> QED
      BY <3>1, <3>2
  <2>5. \A s \in Threads : pc'[s] = "increment" => heap'[ref'[s]] <= Len(issued[arg[s]])
    <3> SUFFICES ASSUME NEW s \in Threads, pc'[s] = "increment"
                 PROVE  heap'[ref'[s]] <= Len(issued[arg[s]])
      OBVIOUS
    <3>1. CASE s = t
      BY <1>1, <1>2, <1>3, <2>1, <2>3, <3>1
    <3>2. CASE s # t
      <4>1. pc[s] = "increment" /\ ref'[s] = ref[s] /\ ref[s] \in 1..Len(heap)
        BY <1>1, <1>2, <1>3, <2>1, <3>2
      <4> QED
        BY <2>3, <4>1 DEF RefineInv, Behind
    <3> QED
      BY <3>1, <3>2
  <2> QED
    BY <1>1, <2>2, <2>4, <2>5 DEF RefineInv, Behind
<1> QED
  BY <1>4, <1>5

\* The counter moves up by one together with the orders of the one request that
\* can reach it.
LEMMA IncrementRefineInv ==
  ASSUME RefineInv, OrderInv', NEW t \in Threads, IncrementAndGet(t)
  PROVE  RefineInv'
<1> DEFINE r == arg[t]
           order == heap[ref[t]] + 1
<1>1. /\ r \in Requests /\ ref[t] \in 1..Len(heap) /\ pc[t] = "increment"
      /\ UNCHANGED sequences
      /\ heap' = [heap EXCEPT ![ref[t]] = order]
      /\ issued' = [issued EXCEPT ![r] = Append(issued[r], order)]
  BY DEF IncrementAndGet, RefineInv, OrderInv, TypeInv, TypeOK, Locals
<1>2. /\ heap \in Seq(Nat) /\ issued \in [Requests -> Seq(Nat)] /\ order \in Nat
      /\ \A q \in Requests : sequences[q] \in 0..Len(heap)
      /\ \A s \in Threads : pc[s] = "increment" =>
             arg[s] \in Requests /\ ref[s] \in 1..Len(heap)
  BY <1>1 DEF RefineInv, OrderInv, TypeInv, TypeOK, Locals
<1>3. \A s \in Threads : pc'[s] = "increment" =>
          pc[s] = "increment" /\ arg'[s] = arg[s] /\ ref'[s] = ref[s]
  <2> USE DEF RefineInv, OrderInv, TypeInv, TypeOK, Steps
  <2>1. CASE pc' = [pc EXCEPT ![t] = "check"] /\ UNCHANGED <<call, scan>>
    BY <2>1 DEF call
  <2>2. CASE Return(t)
    BY <2>2 DEF Return
  <2> QED
    BY <2>1, <2>2 DEF IncrementAndGet
<1>4. order <= Len(issued[r]) + 1
  BY <1>1, <1>2 DEF RefineInv, Behind
<1> HIDE DEF order
<1>5. /\ Len(issued'[r]) = Len(issued[r]) + 1
      /\ \A q \in Requests : q # r => issued'[q] = issued[q]
      /\ \A q \in Requests : Len(issued[q]) \in Nat
  BY <1>1, <1>2
<1>6. /\ heap'[ref[t]] = order
      /\ \A i \in 1..Len(heap) : i # ref[t] => heap'[i] = heap[i]
      /\ \A i \in 1..Len(heap) : heap[i] \in Nat
  BY <1>1, <1>2
<1>7. Apart'
  BY <1>3 DEF RefineInv, Apart
<1>8. \A q \in Requests : sequences[q] # 0 => heap'[sequences[q]] <= Len(issued'[q])
  <2> SUFFICES ASSUME NEW q \in Requests, sequences[q] # 0
               PROVE  heap'[sequences[q]] <= Len(issued'[q])
    OBVIOUS
  <2>0. sequences[q] \in 1..Len(heap) /\ heap[sequences[q]] <= Len(issued[q])
    BY <1>2 DEF RefineInv, Behind
  <2>1. CASE q = r
    <3>1. heap'[sequences[q]] = order \/ heap'[sequences[q]] = heap[sequences[q]]
      BY <1>6, <2>0
    <3>2. heap[sequences[q]] \in Nat /\ Len(issued[q]) \in Nat
      BY <1>5, <1>6, <2>0
    <3>3. Len(issued'[q]) = Len(issued[q]) + 1 /\ order <= Len(issued[q]) + 1
      BY <1>4, <1>5, <2>1
    <3> QED
      BY <2>0, <3>1, <3>2, <3>3
  <2>2. CASE q # r
    <3>1. sequences[q] # ref[t]
      BY <1>1, <2>2 DEF RefineInv, OrderInv, Unshared
    <3> QED
      BY <1>5, <1>6, <2>0, <2>2, <3>1
  <2> QED
    BY <2>1, <2>2
<1>9. \A s \in Threads : pc[s] = "increment" => heap'[ref[s]] <= Len(issued'[arg[s]])
  <2> SUFFICES ASSUME NEW s \in Threads, pc[s] = "increment"
               PROVE  heap'[ref[s]] <= Len(issued'[arg[s]])
    OBVIOUS
  <2>0. arg[s] \in Requests /\ ref[s] \in 1..Len(heap) /\ heap[ref[s]] <= Len(issued[arg[s]])
    BY <1>2 DEF RefineInv, Behind
  <2>1. CASE arg[s] = r
    <3>1. heap'[ref[s]] = order \/ heap'[ref[s]] = heap[ref[s]]
      BY <1>6, <2>0
    <3>2. heap[ref[s]] \in Nat /\ Len(issued[r]) \in Nat
      BY <1>1, <1>5, <1>6, <2>0, <2>1
    <3>3. /\ Len(issued'[arg[s]]) = Len(issued[r]) + 1
          /\ order <= Len(issued[r]) + 1
          /\ heap[ref[s]] <= Len(issued[r])
      BY <1>4, <1>5, <2>0, <2>1
    <3> QED
      BY <3>1, <3>2, <3>3
  <2>2. CASE arg[s] # r
    <3>1. ref[s] # ref[t]
      BY <1>1, <2>2 DEF RefineInv, Apart
    <3> QED
      BY <1>5, <1>6, <2>0, <2>2, <3>1
  <2> QED
    BY <2>1, <2>2
<1> QED
  BY <1>1, <1>3, <1>7, <1>8, <1>9 DEF RefineInv, Behind

\* RefineInv is inductive.
LEMMA NextRefineInv == RefineInv /\ [Next]_vars => RefineInv'
<1> SUFFICES ASSUME RefineInv, [Next]_vars
             PROVE  RefineInv'
  OBVIOUS
<1>1. OrderInv'
  BY NextOrderInv DEF RefineInv
<1>2. /\ pc \in [Threads -> Steps] /\ arg \in [Threads -> Requests \cup {NoRequest}]
      /\ ref \in [Threads -> Nat] /\ sequences \in [Requests -> Nat]
  BY DEF RefineInv, OrderInv, TypeInv, TypeOK
<1>3. ASSUME NEW t \in Threads, NEW r \in Requests, NEW m \in Requests \cup {NoRequest},
             Call(t, r, m)
      PROVE  RefineInv'
  BY <1>1, <1>2, <1>3, QuietRefineStep DEF Call, table, ghost
<1>4. ASSUME NEW t \in Threads, CallBlank(t) \/ Clear(t)
      PROVE  RefineInv'
  BY <1>1, <1>4, QuietRefineStep DEF CallBlank, Clear, table, call, ghost
<1>5. ASSUME NEW t \in Threads, ComputeIfAbsent(t)
      PROVE  RefineInv'
  BY <1>1, <1>5, ComputeIfAbsentRefineInv
<1>6. ASSUME NEW t \in Threads, IncrementAndGet(t)
      PROVE  RefineInv'
  BY <1>1, <1>6, IncrementRefineInv
<1>7. ASSUME NEW t \in Threads, CheckSize(t) \/ ScanDone(t)
      PROVE  RefineInv'
  <2>1. \A s \in Threads : pc'[s] = "increment" =>
            pc[s] = "increment" /\ arg'[s] = arg[s] /\ ref'[s] = ref[s]
    BY <1>2, <1>7 DEF CheckSize, ScanDone, Return, call
  <2> QED
    BY <1>1, <1>7, <2>1, QuietRefineStep DEF CheckSize, ScanDone, table, ghost
<1>8. ASSUME NEW t \in Threads, NEW k \in Requests, NextKey(t, k)
      PROVE  RefineInv'
  BY <1>1, <1>2, <1>8, QuietRefineStep DEF NextKey, table, call, ghost
<1>9. ASSUME NEW t \in Threads, RemoveKey(t)
      PROVE  RefineInv'
  BY <1>1, <1>2, <1>9, QuietRefineStep DEF RemoveKey, call
<1>10. CASE UNCHANGED vars
  BY <1>1, <1>10, QuietRefineStep DEF vars, table, call, ghost
<1>11. CASE \E t \in Threads : EvictExcess(t)
  BY <1>1, <1>2, <1>11, QuietRefineStep DEF EvictExcess, table, call, ghost
<1> QED
  BY <1>3, <1>4, <1>5, <1>6, <1>7, <1>8, <1>9, <1>10, <1>11 DEF Next, Step

\* incrementAndGet is where a number is issued; every other step of next() is
\* invisible, except it.remove(), which forgets.
LEMMA StepSimulates ==
  RefineInv /\ [Next]_vars => [Numbering!Next]_<<issued, evicted>>
<1> SUFFICES ASSUME RefineInv, [Next]_vars
             PROVE  Numbering!Next \/ UNCHANGED <<issued, evicted>>
  OBVIOUS
<1>1. ASSUME NEW t \in Threads, IncrementAndGet(t)
      PROVE  Numbering!Next
  <2> DEFINE order == heap[ref[t]] + 1
  <2>1. /\ arg[t] \in Requests /\ ref[t] \in 1..Len(heap) /\ pc[t] = "increment"
        /\ UNCHANGED evicted
        /\ issued' = [issued EXCEPT ![arg[t]] = Append(@, order)]
    BY <1>1 DEF IncrementAndGet, RefineInv, OrderInv, TypeInv, TypeOK, Locals
  <2>2. /\ heap[ref[t]] \in Nat /\ Len(issued[arg[t]]) \in Nat
        /\ heap[ref[t]] <= Len(issued[arg[t]])
    BY <2>1 DEF RefineInv, OrderInv, TypeInv, TypeOK, Behind
  <2>3. order \in 1..(Len(issued[arg[t]]) + 1)
    BY <2>2
  <2>4. arg[t] \notin evicted => order = Len(issued[arg[t]]) + 1
    BY <2>1 DEF RefineInv, OrderInv, Counts, TypeInv, TypeOK
  <2>5. Numbering!Issue(arg[t])
    BY <2>1, <2>3, <2>4 DEF Numbering!Issue
  <2> QED
    BY <2>1, <2>5 DEF Numbering!Next
<1>2. ASSUME NEW t \in Threads, RemoveKey(t)
      PROVE  Numbering!Next
  <2>1. evicted \subseteq evicted' /\ evicted' \in SUBSET Requests /\ UNCHANGED issued
    BY <1>2 DEF RemoveKey, Present, RefineInv, OrderInv, TypeInv, TypeOK
  <2> QED
    BY <2>1 DEF Numbering!Next, Numbering!Forget
<1>3. ASSUME NEW t \in Threads,
             \/ \E r \in Requests, m \in Requests \cup {NoRequest} : Call(t, r, m)
             \/ CallBlank(t) \/ Clear(t) \/ ComputeIfAbsent(t) \/ CheckSize(t)
             \/ EvictExcess(t) \/ (\E k \in Requests : NextKey(t, k)) \/ ScanDone(t)
      PROVE  UNCHANGED <<issued, evicted>>
  BY <1>3 DEF Call, CallBlank, Clear, ComputeIfAbsent, CheckSize, EvictExcess, NextKey,
              ScanDone, ghost
<1>4. CASE UNCHANGED vars
  BY <1>4 DEF vars, ghost
<1> QED
  BY <1>1, <1>2, <1>3, <1>4 DEF Next, Step

\* Seen from outside, next() hands out numbers one at a time: threads, table,
\* eviction and stale counters add up to the atomic source of NumberSource.
THEOREM NumberingImplemented == Spec => ImplementsNumberSource
<1>1. Init => RefineInv
  <2> SUFFICES ASSUME Init
               PROVE  RefineInv
    OBVIOUS
  <2>1. OrderInv
    BY InitOrderInv
  <2>2. Apart /\ Behind
    BY DEF Init, Apart, Behind
  <2> QED
    BY <2>1, <2>2 DEF RefineInv
<1>2. Init => Numbering!Init
  BY DEF Init, Numbering!Init
<1> QED
  BY <1>1, <1>2, NextRefineInv, StepSimulates, PTL
  DEF Spec, ImplementsNumberSource, Numbering!Spec
-----------------------------------------------------------------------------
\* A thread that can still bring the table back within its cap: it has yet to
\* compare the size, or no entry was added since it created its iterator, so
\* that every entry it has not visited is before it and its quota suffices.
\* The key it is about to remove may have been removed by another thread.
InCharge(t) ==
    \/ pc[t] = "increment" /\ heap[ref[t]] = 0
    \/ pc[t] \in {"check", "evict"}
    \/ /\ pc[t] = "scan"
       /\ Present \subseteq atStart[t]
       /\ Present \cap visited[t] \subseteq {mdc[t]}
       /\ Size - MaxEntries <= quota[t]
    \/ /\ pc[t] = "remove"
       /\ Present \subseteq atStart[t]
       /\ Present \cap visited[t] \subseteq {mdc[t], cursor[t]}
       /\ Cardinality(Present \ {cursor[t]}) + 1 - MaxEntries <= quota[t]

CapInv == Size > MaxEntries => \E t \in Threads : InCharge(t)

\* The table is finite, and so are its parts.
LEMMA PresentFinite ==
  ASSUME NEW S \in SUBSET Present
  PROVE  /\ IsFiniteSet(S) /\ Cardinality(S) \in Nat /\ Cardinality(S) <= Size
         /\ Size \in Nat /\ IsFiniteSet(Present)
<1>1. Present \subseteq Requests
  BY DEF Present
<1>2. IsFiniteSet(Present)
  BY <1>1, FS_Subset, RequestsAssumption
<1> QED
  BY <1>2, FS_Subset, FS_CardinalityType DEF Size

\* Another thread's step that adds no entry and counts on no fresh counter
\* leaves a thread in charge.
LEMMA OthersStay ==
  ASSUME TypeInv, NEW s \in Threads, InCharge(s), Present' \subseteq Present,
         UNCHANGED <<pc[s], ref[s], atStart[s], visited[s], mdc[s], cursor[s], quota[s]>>,
         pc[s] = "increment" => heap'[ref[s]] = heap[ref[s]]
  PROVE  InCharge(s)'
<1>1. Size \in Nat /\ Size' \in Nat /\ Size' <= Size
  BY PresentFinite DEF Size
<1>2. quota[s] \in Int /\ MaxEntries \in Nat
  BY LimitsAssumption DEF TypeInv, TypeOK
<1>3. ASSUME NEW x PROVE /\ Cardinality(Present' \ {x}) \in Nat /\ Cardinality(Present \ {x}) \in Nat
                         /\ Cardinality(Present' \ {x}) <= Cardinality(Present \ {x})
  <2>1. IsFiniteSet(Present \ {x}) /\ Cardinality(Present \ {x}) \in Nat
    BY PresentFinite
  <2> QED
    BY <2>1, FS_Subset, FS_CardinalityType
<1>4. CASE pc[s] = "scan"
  BY <1>1, <1>2, <1>4 DEF InCharge
<1>5. CASE pc[s] = "remove"
  <2> DEFINE left == Cardinality(Present' \ {cursor[s]})
             before == Cardinality(Present \ {cursor[s]})
  <2>1. /\ left \in Nat /\ before \in Nat /\ left <= before
        /\ before + 1 - MaxEntries <= quota[s]
    BY <1>3, <1>5 DEF InCharge
  <2> HIDE DEF left, before
  <2>2. left + 1 - MaxEntries <= quota[s]
    BY <1>2, <2>1
  <2> QED
    BY <1>5, <2>2 DEF InCharge, left
<1>6. CASE pc[s] \notin {"scan", "remove"}
  BY <1>6 DEF InCharge
<1> QED
  BY <1>4, <1>5, <1>6

\* A step of t that adds no entry, and does not use a counter for the first
\* time, and leaves t in charge if it was, or finds the table within its cap.
LEMMA CapStep ==
  ASSUME TypeInv, CapInv, NEW t \in Threads, Present' \subseteq Present,
         \A s \in Threads : s # t =>
           /\ UNCHANGED <<pc[s], ref[s], atStart[s], visited[s], mdc[s], cursor[s], quota[s]>>
           /\ pc[s] = "increment" => heap'[ref[s]] = heap[ref[s]],
         InCharge(t) => InCharge(t)' \/ Size <= MaxEntries
  PROVE  CapInv'
<1>1. Size \in Nat /\ Size' \in Nat /\ Size' <= Size /\ MaxEntries \in Nat
  BY PresentFinite, LimitsAssumption DEF Size
<1>2. CASE Size <= MaxEntries
  BY <1>1, <1>2 DEF CapInv
<1>3. CASE Size > MaxEntries
  <2>1. PICK s \in Threads : InCharge(s)
    BY <1>3 DEF CapInv
  <2>2. CASE s = t
    BY <1>1, <1>3, <2>1, <2>2 DEF CapInv
  <2>3. CASE s # t
    <3>1. InCharge(s)'
      BY <2>1, <2>3, OthersStay
    <3> QED
      BY <3>1 DEF CapInv
  <2> QED
    BY <2>2, <2>3
<1> QED
  BY <1>1, <1>2, <1>3

LEMMA NextCapInv == TypeInv /\ CapInv /\ [Next]_vars => CapInv'
<1> SUFFICES ASSUME TypeInv, CapInv, [Next]_vars
             PROVE  CapInv'
  OBVIOUS
<1>1. /\ pc \in [Threads -> Steps] /\ quota \in [Threads -> Int] /\ ref \in [Threads -> Nat]
      /\ DOMAIN atStart = Threads /\ DOMAIN visited = Threads /\ DOMAIN mdc = Threads
      /\ DOMAIN cursor = Threads /\ DOMAIN arg = Threads
      /\ sequences \in [Requests -> Nat] /\ heap \in Seq(Nat)
  BY DEF TypeInv, TypeOK
<1>2. MaxEntries \in Nat /\ MaxEntries >= 1 /\ Headroom \in Nat /\ Size \in Nat
  BY LimitsAssumption, PresentFinite
<1>3. sequences' = sequences => Present' = Present /\ Size' = Size
  BY DEF Present, Size
<1>4. ASSUME NEW t \in Threads, NEW r \in Requests, NEW m \in Requests \cup {NoRequest}, Call(t, r, m)
      PROVE  CapInv'
  <2>1. ~InCharge(t) /\ UNCHANGED <<sequences, heap, ref, atStart, visited, cursor, quota>>
    BY <1>4 DEF Call, InCharge, table, scan
  <2>2. \A s \in Threads : s # t => pc'[s] = pc[s] /\ mdc'[s] = mdc[s]
    BY <1>1, <1>4 DEF Call
  <2> QED
    BY <1>3, <2>1, <2>2, CapStep
<1>5. ASSUME NEW t \in Threads, CallBlank(t) \/ Clear(t)
      PROVE  CapInv'
  <2>1. UNCHANGED <<sequences, heap, ref, atStart, visited, cursor, quota, pc, mdc>> /\ ~InCharge(t)
    BY <1>5 DEF CallBlank, Clear, InCharge, table, scan, call
  <2> QED
    BY <1>3, <2>1, CapStep
<1>6. ASSUME NEW t \in Threads, ComputeIfAbsent(t)
      PROVE  CapInv'
  <2>1. /\ UNCHANGED <<atStart, visited, cursor, quota, mdc>> /\ ~InCharge(t)
        /\ pc[t] = "lookup" /\ arg[t] \in Requests /\ pc'[t] = "increment"
        /\ \A s \in Threads : s # t => pc'[s] = pc[s] /\ ref'[s] = ref[s]
    BY <1>1, <1>6 DEF ComputeIfAbsent, InCharge, scan, TypeInv, Locals
  <2>2. CASE sequences[arg[t]] # 0
    <3>1. UNCHANGED <<sequences, heap>>
      BY <1>6, <2>2 DEF ComputeIfAbsent, table
    <3> QED
      BY <1>3, <2>1, <3>1, CapStep
  <2>3. CASE sequences[arg[t]] = 0
    <3>1. heap' = Append(heap, 0) /\ ref'[t] = Len(heap) + 1
      BY <1>1, <1>6, <2>3 DEF ComputeIfAbsent
    <3>2. heap'[ref'[t]] = 0
      BY <1>1, <3>1
    <3>3. InCharge(t)'
      BY <2>1, <3>2 DEF InCharge
    <3> QED
      BY <3>3 DEF CapInv
  <2> QED
    BY <2>2, <2>3
<1>7. ASSUME NEW t \in Threads, IncrementAndGet(t)
      PROVE  CapInv'
  <2>1. /\ UNCHANGED sequences /\ pc[t] = "increment" /\ ref[t] \in 1..Len(heap)
        /\ heap' = [heap EXCEPT ![ref[t]] = heap[ref[t]] + 1]
    BY <1>7 DEF IncrementAndGet, TypeInv, Locals
  <2>2. \A s \in Threads : s # t =>
           UNCHANGED <<pc[s], ref[s], atStart[s], visited[s], mdc[s], cursor[s], quota[s]>>
    BY <1>1, <1>7 DEF IncrementAndGet, Return, call, scan
  <2>3. CASE heap[ref[t]] = 0
    <3>1. pc'[t] = "check"
      BY <1>1, <1>7, <2>3 DEF IncrementAndGet
    <3>2. InCharge(t)'
      BY <3>1 DEF InCharge
    <3> QED
      BY <3>2 DEF CapInv
  <2>4. CASE heap[ref[t]] # 0
    <3>1. ~InCharge(t)
      BY <2>1, <2>4 DEF InCharge
    <3>2. ASSUME NEW s \in Threads, s # t, InCharge(s) PROVE InCharge(s)'
      <4>1. pc[s] = "increment" => heap'[ref[s]] = heap[ref[s]]
        <5> SUFFICES ASSUME pc[s] = "increment" PROVE heap'[ref[s]] = heap[ref[s]]
          OBVIOUS
        <5>1. heap[ref[s]] = 0
          BY <3>2 DEF InCharge
        <5>2. ref[s] # ref[t]
          BY <2>4, <5>1
        <5> QED
          BY <2>1, <5>2
      <4> QED
        BY <1>3, <2>1, <2>2, <3>2, <4>1, OthersStay
    <3> QED
      BY <1>3, <2>1, <3>1, <3>2 DEF CapInv
  <2> QED
    BY <2>3, <2>4
<1>8. ASSUME NEW t \in Threads, CheckSize(t) \/ EvictExcess(t) \/ ScanDone(t)
      PROVE  CapInv'
  <2>1. UNCHANGED <<sequences, heap>>
    BY <1>8 DEF CheckSize, EvictExcess, ScanDone, table
  <2>2. \A s \in Threads : s # t =>
           UNCHANGED <<pc[s], ref[s], atStart[s], visited[s], mdc[s], cursor[s], quota[s]>>
    BY <1>1, <1>8 DEF CheckSize, EvictExcess, ScanDone, Return, call, scan
  <2>3. InCharge(t) => InCharge(t)' \/ Size <= MaxEntries
    <3>1. CASE CheckSize(t)
      <4>1. Size <= MaxEntries \/ pc'[t] = "evict"
        BY <1>1, <3>1 DEF CheckSize
      <4> QED
        BY <4>1 DEF InCharge
    <3>2. CASE EvictExcess(t)
      <4>1. /\ pc'[t] = "scan" /\ atStart'[t] = Present /\ visited'[t] = {}
            /\ quota'[t] = (Size - MaxEntries) + Headroom
        BY <1>1, <3>2 DEF EvictExcess
      <4>2. Size - MaxEntries <= quota'[t]
        BY <1>2, <4>1
      <4> QED
        BY <1>3, <2>1, <4>1, <4>2 DEF InCharge
    <3>3. CASE ScanDone(t)
      <4> SUFFICES ASSUME InCharge(t) PROVE Size <= MaxEntries
        OBVIOUS
      <4>1. /\ Present \subseteq atStart[t] /\ Present \cap visited[t] \subseteq {mdc[t]}
            /\ Size - MaxEntries <= quota[t] /\ quota[t] \in Int
        BY <1>1, <3>3 DEF InCharge, ScanDone
      <4>2. CASE quota[t] <= 0
        BY <1>2, <4>1, <4>2
      <4>3. CASE atStart[t] \cap Present \subseteq visited[t]
        <5>1. Present \subseteq {mdc[t]}
          BY <4>1, <4>3
        <5>2. IsFiniteSet({mdc[t]}) /\ Cardinality({mdc[t]}) = 1
          BY FS_Singleton
        <5>3. Size <= 1
          BY <5>1, <5>2, FS_Subset DEF Size
        <5> QED
          BY <1>2, <5>3
      <4> QED
        BY <3>3, <4>2, <4>3 DEF ScanDone
    <3> QED
      BY <1>8, <3>1, <3>2, <3>3
  <2> QED
    BY <1>3, <2>1, <2>2, <2>3, CapStep
<1>9. ASSUME NEW t \in Threads, NEW k \in Requests, NextKey(t, k)
      PROVE  CapInv'
  <2>1. /\ UNCHANGED <<sequences, heap, mdc, ref, quota, atStart>> /\ pc[t] = "scan"
        /\ k \in Present \ visited[t] /\ visited'[t] = visited[t] \cup {k}
        /\ \A s \in Threads : s # t =>
             pc'[s] = pc[s] /\ visited'[s] = visited[s] /\ cursor'[s] = cursor[s]
        /\ \/ mdc[t] = k /\ pc'[t] = "scan"
           \/ cursor'[t] = k /\ pc'[t] = "remove"
    BY <1>1, <1>9 DEF NextKey, table, call
  <2>2. InCharge(t) => InCharge(t)'
    <3> SUFFICES ASSUME InCharge(t) PROVE InCharge(t)'
      OBVIOUS
    <3>1. /\ Present \subseteq atStart[t] /\ Present \cap visited[t] \subseteq {mdc[t]}
          /\ Size - MaxEntries <= quota[t] /\ quota[t] \in Int
      BY <1>1, <2>1 DEF InCharge
    <3>2. CASE mdc[t] = k /\ pc'[t] = "scan"
      BY <1>3, <2>1, <3>1, <3>2 DEF InCharge
    <3>3. CASE cursor'[t] = k /\ pc'[t] = "remove"
      <4>1. Cardinality(Present \ {k}) = Size - 1
        BY <2>1, PresentFinite, FS_RemoveElement DEF Size
      <4>2. Cardinality(Present \ {k}) + 1 - MaxEntries <= quota[t]
        BY <1>2, <3>1, <4>1
      <4> QED
        BY <1>3, <2>1, <3>1, <3>3, <4>2 DEF InCharge
    <3> QED
      BY <2>1, <3>2, <3>3
  <2> QED
    BY <1>3, <2>1, <2>2, CapStep
<1>10. ASSUME NEW t \in Threads, RemoveKey(t)
       PROVE  CapInv'
  <2>1. /\ UNCHANGED <<heap, mdc, arg, ref, atStart, visited, cursor>> /\ pc[t] = "remove"
        /\ sequences' = [sequences EXCEPT ![cursor[t]] = 0] /\ cursor[t] \in Requests
        /\ pc'[t] = "scan" /\ quota'[t] = quota[t] - 1
        /\ \A s \in Threads : s # t => pc'[s] = pc[s] /\ quota'[s] = quota[s]
    BY <1>1, <1>10 DEF RemoveKey, call, TypeInv, Locals
  <2>2. Present' = Present \ {cursor[t]}
    BY <1>1, <2>1 DEF Present
  <2>3. InCharge(t) => InCharge(t)'
    <3> SUFFICES ASSUME InCharge(t) PROVE InCharge(t)'
      OBVIOUS
    <3>1. /\ Present \subseteq atStart[t] /\ Present \cap visited[t] \subseteq {mdc[t], cursor[t]}
          /\ Cardinality(Present \ {cursor[t]}) + 1 - MaxEntries <= quota[t] /\ quota[t] \in Int
      BY <1>1, <2>1 DEF InCharge
    <3>2. Size' = Cardinality(Present \ {cursor[t]}) /\ Size' \in Nat
      BY <2>2, PresentFinite DEF Size
    <3>3. Size' - MaxEntries <= quota'[t]
      BY <1>2, <2>1, <3>1, <3>2
    <3> QED
      BY <2>1, <2>2, <3>1, <3>3 DEF InCharge
  <2> QED
    BY <2>1, <2>2, <2>3, CapStep
<1>11. CASE UNCHANGED vars
  BY <1>3, <1>11 DEF vars, table, call, scan, CapInv, InCharge
<1> QED
  BY <1>4, <1>5, <1>6, <1>7, <1>8, <1>9, <1>10, <1>11 DEF Next, Step

\* However many threads add and evict at the same time, and however often two of
\* them count the same key: when no call is in progress the table is within its
\* cap.
THEOREM CapIsRestored == Spec => []CapRestored
<1>1. Init => CapInv
  <2> SUFFICES ASSUME Init PROVE CapInv
    OBVIOUS
  <2>1. Present = {}
    BY DEF Init, Present
  <2>2. Size = 0
    BY <2>1, FS_EmptySet DEF Size
  <2> QED
    BY <2>2, LimitsAssumption DEF CapInv
<1>2. CapInv => CapRestored
  <2> SUFFICES ASSUME CapInv, \A t \in Threads : pc[t] = "idle" PROVE Size <= MaxEntries
    BY DEF CapRestored
  <2>1. Size \in Nat /\ MaxEntries \in Nat
    BY PresentFinite, LimitsAssumption
  <2>2. \A t \in Threads : ~InCharge(t)
    BY DEF InCharge
  <2>3. ~(Size > MaxEntries)
    BY <2>2 DEF CapInv
  <2> QED
    BY <2>1, <2>3
<1> QED
  BY <1>1, <1>2, InitTypeInv, NextTypeInv, NextCapInv, PTL DEF Spec
=============================================================================
