-------------------------- MODULE RequestSequence --------------------------
(***************************************************************************)
(* common/RequestSequence.java: the static table of per-request counters   *)
(* that gives every audit row its event_order.  The table is a             *)
(* ConcurrentHashMap shared by all request threads; each map operation and *)
(* each AtomicInteger operation is one atomic step here, and everything    *)
(* between two of them may be interleaved with other threads.              *)
(*                                                                         *)
(* A counter object is an index of "heap": a thread keeps its reference    *)
(* while the table entry that led to it is evicted and created again, so   *)
(* object identity matters.                                                *)
(***************************************************************************)
EXTENDS Integers, Sequences, FiniteSets

CONSTANTS
    Threads,     \* threads that write audit rows
    Requests,    \* request ids
    NoRequest,   \* MDC holds no request id
    MaxEntries,  \* MAX_ENTRIES
    Headroom,    \* the 500 of evictExcess
    MaxCalls     \* bound: calls of next() and clear() in one behaviour

ASSUME RequestsAssumption == NoRequest \notin Requests /\ IsFiniteSet(Requests)
ASSUME LimitsAssumption ==
    /\ MaxEntries \in Nat \ {0}
    /\ Headroom \in Nat
    /\ MaxCalls \in Nat

VARIABLES
    sequences,  \* request -> its counter object, 0 when the table has no entry
    heap,       \* counter object -> its value
    local,      \* thread -> its fallback counter
    pc,         \* thread -> the step it is at
    mdc,        \* thread -> the request id MDC holds during the call in progress
    arg,        \* thread -> the argument of the call in progress
    ref,        \* thread -> the counter object computeIfAbsent returned
    quota,      \* thread -> toRemove - removed
    atStart,    \* thread -> the keys the table held when its iterator was created
    visited,    \* thread -> the keys its iterator has returned
    cursor,     \* thread -> the key it.next() returned last
    calls,      \* ghost: calls made so far
    issued,     \* ghost: request -> the orders next() gave it, oldest first
    evicted     \* ghost: requests whose entry an eviction has removed

table == <<sequences, heap>>
call  == <<mdc, arg, ref>>
scan  == <<quota, atStart, visited, cursor>>
ghost == <<issued, evicted>>
vars  == <<table, local, pc, call, scan, calls, ghost>>

Present == {r \in Requests : sequences[r] # 0}
Size    == Cardinality(Present)

Init ==
    /\ sequences = [r \in Requests |-> 0]
    /\ heap = <<>>
    /\ local = [t \in Threads |-> 0]
    /\ pc = [t \in Threads |-> "idle"]
    /\ mdc = [t \in Threads |-> NoRequest]
    /\ arg = [t \in Threads |-> NoRequest]
    /\ ref = [t \in Threads |-> 0]
    /\ quota = [t \in Threads |-> 0]
    /\ atStart = [t \in Threads |-> {}]
    /\ visited = [t \in Threads |-> {}]
    /\ cursor = [t \in Threads |-> NoRequest]
    /\ calls = 0
    /\ issued = [r \in Requests |-> <<>>]
    /\ evicted = {}

(***************************************************************************)
(* next(requestId).  The auditor and the event logger pass the id that MDC *)
(* holds; a deferred POST_COMMIT row passes the id of its ExecutionContext *)
(* after a dispatcher has cleared MDC.                                     *)
(***************************************************************************)
Call(t, r, m) ==
    /\ pc[t] = "idle"
    /\ calls < MaxCalls
    /\ m \in {r, NoRequest}
    /\ pc' = [pc EXCEPT ![t] = "lookup"]
    /\ arg' = [arg EXCEPT ![t] = r]
    /\ mdc' = [mdc EXCEPT ![t] = m]
    /\ calls' = calls + 1
    /\ UNCHANGED <<table, local, ref, scan, ghost>>

\* next(null) or next(""): the thread-local counter.
CallBlank(t) ==
    /\ pc[t] = "idle"
    /\ calls < MaxCalls
    /\ local' = [local EXCEPT ![t] = @ + 1]
    /\ calls' = calls + 1
    /\ UNCHANGED <<table, pc, call, scan, ghost>>

\* clear(), from the finally block of a top-level invoke: the table is kept.
Clear(t) ==
    /\ pc[t] = "idle"
    /\ local' = [local EXCEPT ![t] = 0]
    /\ UNCHANGED <<table, pc, call, scan, calls, ghost>>

\* The call returns and its locals are gone.
Return(t) ==
    /\ pc' = [pc EXCEPT ![t] = "idle"]
    /\ mdc' = [mdc EXCEPT ![t] = NoRequest]
    /\ arg' = [arg EXCEPT ![t] = NoRequest]
    /\ ref' = [ref EXCEPT ![t] = 0]
    /\ quota' = [quota EXCEPT ![t] = 0]
    /\ atStart' = [atStart EXCEPT ![t] = {}]
    /\ visited' = [visited EXCEPT ![t] = {}]
    /\ cursor' = [cursor EXCEPT ![t] = NoRequest]

\* Mutant of ComputeIfAbsent: put() in its place, which replaces a live counter.
Bug_Put(t) ==
    /\ pc[t] = "lookup"
    /\ heap' = Append(heap, 0)
    /\ sequences' = [sequences EXCEPT ![arg[t]] = Len(heap) + 1]
    /\ ref' = [ref EXCEPT ![t] = Len(heap) + 1]
    /\ pc' = [pc EXCEPT ![t] = "increment"]
    /\ UNCHANGED <<local, mdc, arg, scan, calls, ghost>>

\* Mutant of ComputeIfAbsent: the entry is published before its counter exists.
Bug_PublishBeforeCreate(t) ==
    /\ pc[t] = "lookup"
    /\ sequences[arg[t]] = 0
    /\ sequences' = [sequences EXCEPT ![arg[t]] = Len(heap) + 1]
    /\ UNCHANGED <<heap, local, pc, call, scan, calls, ghost>>

\* sequences.computeIfAbsent(requestId, k -> new AtomicInteger(0))
ComputeIfAbsent(t) ==
    /\ pc[t] = "lookup"
    /\ \/ /\ sequences[arg[t]] # 0
          /\ ref' = [ref EXCEPT ![t] = sequences[arg[t]]]
          /\ UNCHANGED table
       \/ /\ sequences[arg[t]] = 0
          /\ heap' = Append(heap, 0)
          /\ sequences' = [sequences EXCEPT ![arg[t]] = Len(heap) + 1]
          /\ ref' = [ref EXCEPT ![t] = Len(heap) + 1]
    /\ pc' = [pc EXCEPT ![t] = "increment"]
    /\ UNCHANGED <<local, mdc, arg, scan, calls, ghost>>

\* Mutant of IncrementAndGet: getAndIncrement() in its place.
Bug_GetAndIncrement(t) ==
    /\ pc[t] = "increment"
    /\ LET order == heap[ref[t]]
       IN  /\ heap' = [heap EXCEPT ![ref[t]] = order + 1]
           /\ issued' = [issued EXCEPT ![arg[t]] = Append(@, order)]
           /\ pc' = [pc EXCEPT ![t] = "check"]
    /\ UNCHANGED <<sequences, local, call, scan, calls, evicted>>

\* counter.incrementAndGet(); only the caller that got 1 looks at the size.
IncrementAndGet(t) ==
    /\ pc[t] = "increment"
    /\ LET order == heap[ref[t]] + 1
       IN  /\ heap' = [heap EXCEPT ![ref[t]] = order]
           /\ issued' = [issued EXCEPT ![arg[t]] = Append(@, order)]
           /\ \/ /\ order = 1
                 /\ pc' = [pc EXCEPT ![t] = "check"]
                 /\ UNCHANGED <<call, scan>>
              \/ /\ order # 1
                 /\ Return(t)
    /\ UNCHANGED <<sequences, local, calls, evicted>>

\* Mutant of CheckSize: one entry above the cap is tolerated.
Bug_LateCheck(t) ==
    /\ pc[t] = "check"
    /\ \/ /\ Size > MaxEntries + 1
          /\ pc' = [pc EXCEPT ![t] = "evict"]
          /\ UNCHANGED <<call, scan>>
       \/ /\ Size <= MaxEntries + 1
          /\ Return(t)
    /\ UNCHANGED <<table, local, calls, ghost>>

\* sequences.size() > MAX_ENTRIES
CheckSize(t) ==
    /\ pc[t] = "check"
    /\ \/ /\ Size > MaxEntries
          /\ pc' = [pc EXCEPT ![t] = "evict"]
          /\ UNCHANGED <<call, scan>>
       \/ /\ Size <= MaxEntries
          /\ Return(t)
    /\ UNCHANGED <<table, local, calls, ghost>>

\* evictExcess: toRemove from a second reading of the size, and a new iterator.
EvictExcess(t) ==
    /\ pc[t] = "evict"
    /\ quota' = [quota EXCEPT ![t] = (Size - MaxEntries) + Headroom]
    /\ atStart' = [atStart EXCEPT ![t] = Present]
    /\ visited' = [visited EXCEPT ![t] = {}]
    /\ pc' = [pc EXCEPT ![t] = "scan"]
    /\ UNCHANGED <<table, local, call, cursor, calls, ghost>>

\* Mutant of NextKey: the test against MDC restarts the iterator instead of
\* moving it on.
Bug_RestartOnOwnKey(t, k) ==
    /\ pc[t] = "scan"
    /\ quota[t] > 0
    /\ k \in Present \ visited[t]
    /\ \/ /\ mdc[t] = k
          /\ visited' = [visited EXCEPT ![t] = {}]
          /\ UNCHANGED <<pc, cursor>>
       \/ /\ mdc[t] # k
          /\ visited' = [visited EXCEPT ![t] = @ \cup {k}]
          /\ cursor' = [cursor EXCEPT ![t] = k]
          /\ pc' = [pc EXCEPT ![t] = "remove"]
    /\ UNCHANGED <<table, local, call, quota, atStart, calls, ghost>>

(***************************************************************************)
(* One turn of the loop: it.next() and the test against MDC.  The iterator *)
(* is weakly consistent: its order is the hash order, it returns a key at  *)
(* most once, and a key inserted since it was created may be missed.       *)
(***************************************************************************)
NextKey(t, k) ==
    /\ pc[t] = "scan"
    /\ quota[t] > 0
    /\ k \in Present \ visited[t]
    /\ visited' = [visited EXCEPT ![t] = @ \cup {k}]
    /\ \/ /\ mdc[t] = k
          /\ UNCHANGED <<pc, cursor>>
       \/ /\ mdc[t] # k
          /\ cursor' = [cursor EXCEPT ![t] = k]
          /\ pc' = [pc EXCEPT ![t] = "remove"]
    /\ UNCHANGED <<table, local, call, quota, atStart, calls, ghost>>

\* it.remove(): by key, so it takes whatever counter the key has by now.
RemoveKey(t) ==
    /\ pc[t] = "remove"
    /\ sequences' = [sequences EXCEPT ![cursor[t]] = 0]
    /\ evicted' = evicted \cup ({cursor[t]} \cap Present)
    /\ quota' = [quota EXCEPT ![t] = @ - 1]
    /\ pc' = [pc EXCEPT ![t] = "scan"]
    /\ UNCHANGED <<heap, local, call, atStart, visited, cursor, calls, issued>>

ScanDone(t) ==
    /\ pc[t] = "scan"
    /\ \/ quota[t] <= 0
       \/ atStart[t] \cap Present \subseteq visited[t]
    /\ Return(t)
    /\ UNCHANGED <<table, local, calls, ghost>>

\* The steps of a call in progress, as opposed to the caller's choice to make one.
Step(t) ==
    \/ ComputeIfAbsent(t)
    \/ IncrementAndGet(t)
    \/ CheckSize(t)
    \/ EvictExcess(t)
    \/ \E k \in Requests : NextKey(t, k)
    \/ RemoveKey(t)
    \/ ScanDone(t)

Next == \E t \in Threads :
    \/ \E r \in Requests, m \in Requests \cup {NoRequest} : Call(t, r, m)
    \/ CallBlank(t)
    \/ Clear(t)
    \/ Step(t)

\* A thread inside next() holds no lock and waits for nobody: it keeps running.
Fairness == \A t \in Threads : WF_vars(Step(t))

Spec == Init /\ [][Next]_vars /\ Fairness
-----------------------------------------------------------------------------
Steps == {"idle", "lookup", "increment", "check", "evict", "scan", "remove"}

TypeOK ==
    /\ sequences \in [Requests -> Nat]
    /\ heap \in Seq(Nat)
    /\ \A r \in Requests : sequences[r] \in 0..Len(heap)
    /\ local \in [Threads -> Nat]
    /\ pc \in [Threads -> Steps]
    /\ mdc \in [Threads -> Requests \cup {NoRequest}]
    /\ arg \in [Threads -> Requests \cup {NoRequest}]
    /\ ref \in [Threads -> Nat]
    /\ quota \in [Threads -> Int]
    /\ atStart \in [Threads -> SUBSET Requests]
    /\ visited \in [Threads -> SUBSET Requests]
    /\ cursor \in [Threads -> Requests \cup {NoRequest}]
    /\ calls \in Nat
    /\ issued \in [Requests -> Seq(Nat)]
    /\ evicted \in SUBSET Requests

\* Whatever threads interleave inside next(), a request whose entry no eviction
\* has touched gets 1, 2, 3, ...: no order is lost to a race between two
\* computeIfAbsent calls or two increments.
OrdersGapFreeUnlessEvicted ==
    \A r \in Requests \ evicted : \A i \in 1..Len(issued[r]) : issued[r][i] = i

\* Evicting threads compute their quotas from sizes that other threads change
\* and may count the same key twice, yet once no call is in progress the table
\* is back within its cap.
CapRestored ==
    (\A t \in Threads : pc[t] = "idle") => Size <= MaxEntries

\* next() as a whole, its map and counter steps included, is one atomic step of
\* an ideal source of numbers, and even the counters that eviction splits never
\* hand a request a number that skips ahead.
Numbering == INSTANCE NumberSource WITH forgotten <- evicted
ImplementsNumberSource == Numbering!Spec

\* The loop over a table that other threads grow and shrink always ends.
CallsReturn == \A t \in Threads : pc[t] # "idle" ~> pc[t] = "idle"
=============================================================================
