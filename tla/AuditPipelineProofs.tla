------------------------ MODULE AuditPipelineProofs ------------------------
(* For any number of threads, kinds, handlers and rows: the variables keep  *)
(* their types, and a row that had the pipeline of its kind to itself gets  *)
(* the reason of its own failure and of no other, although the field the    *)
(* reason travels through is shared and plain.  The argument is that a      *)
(* failure stays in the field only while the thread that put it there has   *)
(* still to reset it (FieldHeld), so a thread that enters an empty pipeline *)
(* finds the field clean.                                                   *)
(*                                                                          *)
(* What a row has been through is a matter of its own execution: the stage  *)
(* and the position in the loop over the handlers tell which of them have   *)
(* run (Stages).  And the memory of a request is all its rows but the one   *)
(* under way, which is the youngest (Remembers).                            *)
EXTENDS AuditPipeline, SequenceTheorems, FiniteSetTheorems, TLAPS

Working == {"pres", "joinPres", "joinPosts", "posts"}
Busy(t) == pc[t] \notin Outside

(* Every execution has a row of its own.                                    *)
OwnRow ==
  \A t, u \in Threads : t # u /\ Busy(t) /\ Busy(u) => cur[t] # cur[u]

(* "alone" means what it says.                                              *)
Alone ==
  \A t, u \in Threads :
    t # u /\ Busy(t) /\ Busy(u) /\ rows[cur[t]].alone => Kind(t) # Kind(u)

(* A failure in the field has an owner who will reset it.                   *)
FieldHeld ==
  \A k \in Kinds : persistFailure[k] # 0 =>
    \E t \in Threads :
      pc[t] \in {"take", "reset"} /\ Kind(t) = k /\ cur[t] = persistFailure[k]

(* The way of the failure text of a row that is alone: nowhere, in the      *)
(* field, in the local variable.                                            *)
Own(t) == IF rows[cur[t]].failed THEN cur[t] ELSE 0
OnItsWay(t) ==
  Busy(t) /\ rows[cur[t]].alone =>
    /\ pc[t] \in Working => persistFailure[Kind(t)] = 0 /\ ~rows[cur[t]].failed
    /\ pc[t] = "take" => persistFailure[Kind(t)] = Own(t)
    /\ pc[t] \in {"reset", "remember"} => taken[t] = Own(t)

PipelineInv ==
  /\ TypeOK
  /\ OwnRow
  /\ Alone
  /\ FieldHeld
  /\ \A t \in Threads : OnItsWay(t)
  /\ ReasonIsOwnUnlessOverlapped

----------------------------------------------------------------------------
LEMMA BusyThreads ==
  ASSUME TypeOK, NEW t \in Threads, Busy(t)
  PROVE  /\ cur[t] \in 1..Len(rows) /\ rows[cur[t]] \in RowType /\ Kind(t) \in Kinds
         /\ rows \in Seq(RowType) /\ Len(rows) \in Nat
         /\ Pres \in Seq({"JOIN", "REQUIRES_NEW"}) /\ Posts \in Seq({"JOIN", "REQUIRES_NEW"})
         /\ Len(Pres) \in Nat /\ Len(Posts) \in Nat
<1>1. rows \in Seq(RowType) /\ Len(rows) \in Nat /\ cur[t] \in 0..Len(rows) /\ cur[t] # 0
  BY DEF TypeOK, Busy
<1>2. cur[t] \in 1..Len(rows) /\ rows[cur[t]] \in RowType
  BY <1>1
<1>3. Kind(t) \in Kinds
  BY <1>2 DEF Kind, RowType
<1> QED
  BY <1>1, <1>2, <1>3, PipelineAssumption

LEMMA PipelineInitInv == Init => PipelineInv
<1> SUFFICES ASSUME Init PROVE PipelineInv
  OBVIOUS
<1>1. rows = << >> /\ Len(rows) = 0 /\ \A t \in Threads : ~Busy(t)
  BY DEF Init, Busy, Outside
<1>2. TypeOK
  <2>1. Len(Pres) \in Nat /\ Len(Posts) \in Nat
    BY PipelineAssumption
  <2> QED
    BY <1>1, <2>1 DEF Init, TypeOK, PipelineSteps, Outside
<1>3. OwnRow /\ Alone /\ \A t \in Threads : OnItsWay(t)
  BY <1>1 DEF OwnRow, Alone, OnItsWay
<1>4. FieldHeld /\ ReasonIsOwnUnlessOverlapped
  BY <1>1 DEF Init, FieldHeld, ReasonIsOwnUnlessOverlapped, Executed
<1> QED
  BY <1>2, <1>3, <1>4 DEF PipelineInv

(* A step of a busy thread that stays busy and may change its row, the      *)
(* field of its kind and its own locals.                                    *)
LEMMA BusyStep ==
  ASSUME PipelineInv, NEW t \in Threads, Busy(t),
         NEW s \in PipelineSteps \ Outside, pc' = [pc EXCEPT ![t] = s],
         UNCHANGED <<pending, cur, given>>,
         rows' \in Seq(RowType), Len(rows') = Len(rows),
         \A i \in 1..Len(rows) : i # cur[t] => rows'[i] = rows[i],
         /\ rows'[cur[t]].kind = rows[cur[t]].kind /\ rows'[cur[t]].alone = rows[cur[t]].alone,
         persistFailure' \in [Kinds -> 0..Len(rows)],
         \A k \in Kinds : k # Kind(t) => persistFailure'[k] = persistFailure[k],
         taken' \in [Threads -> 0..Len(rows)],
         \A u \in Threads : u # t => taken'[u] = taken[u],
         at' \in [Threads -> 1..(Len(Pres) + Len(Posts) + 1)],
         OnItsWay(t)', FieldHeld'
  PROVE  PipelineInv'
<1>1. cur[t] \in 1..Len(rows) /\ rows[cur[t]] \in RowType
  BY BusyThreads DEF PipelineInv
<1>2. TypeOK'
  BY <1>1 DEF PipelineInv, TypeOK, Busy
<1>3. /\ \A u \in Threads : Busy(u)' <=> Busy(u)
      /\ \A u \in Threads : u # t => pc'[u] = pc[u]
      /\ pc'[t] = s
  BY DEF PipelineInv, TypeOK, Busy
<1>4. \A u \in Threads : u # t /\ Busy(u) => cur[u] \in 1..Len(rows) /\ cur[u] # cur[t]
                                             /\ rows'[cur[u]] = rows[cur[u]]
  BY BusyThreads DEF PipelineInv, OwnRow
<1>5. \A u \in Threads : Busy(u) =>
         Kind(u)' = Kind(u) /\ rows'[cur[u]].alone = rows[cur[u]].alone
  BY <1>4 DEF Kind
<1>6. OwnRow' /\ Alone'
  <2>1. OwnRow'
    BY <1>3 DEF PipelineInv, OwnRow
  <2>2. ASSUME NEW u \in Threads, NEW v \in Threads, u # v, Busy(u)', Busy(v)',
               rows'[cur'[u]].alone
        PROVE  Kind(u)' # Kind(v)'
    <3>1. Busy(u) /\ Busy(v) /\ rows[cur[u]].alone
      BY <1>3, <1>5, <2>2
    <3>2. Kind(u) # Kind(v)
      BY <2>2, <3>1 DEF PipelineInv, Alone
    <3> QED
      BY <1>5, <3>1, <3>2
  <2> QED
    BY <2>1, <2>2 DEF Alone
<1>7. ASSUME NEW u \in Threads, u # t, Busy(u), rows[cur[u]].alone
      PROVE  persistFailure'[Kind(u)] = persistFailure[Kind(u)]
  BY <1>7, BusyThreads DEF PipelineInv, Alone
<1>8. \A u \in Threads : OnItsWay(u)'
  <2>1. ASSUME NEW u \in Threads, u # t PROVE OnItsWay(u)'
    <3>1. OnItsWay(u)
      BY DEF PipelineInv
    <3> QED
      BY <1>3, <1>4, <1>5, <1>7, <2>1, <3>1 DEF OnItsWay, Own
  <2> QED
    BY <2>1
<1>9. ReasonIsOwnUnlessOverlapped'
  <2>1. Executed' = Executed /\ cur[t] \notin Executed
    BY <1>3 DEF Executed, Busy
  <2>2. \A i \in Executed : rows'[i] = rows[i]
    BY <2>1 DEF Executed
  <2> QED
    BY <2>1, <2>2 DEF PipelineInv, ReasonIsOwnUnlessOverlapped, OwnReason
<1> QED
  BY <1>2, <1>6, <1>8, <1>9 DEF PipelineInv

LEMMA RowUpdate ==
  ASSUME rows \in Seq(RowType), NEW c \in 1..Len(rows), NEW r \in RowType
  PROVE  /\ [rows EXCEPT ![c] = r] \in Seq(RowType)
         /\ Len([rows EXCEPT ![c] = r]) = Len(rows)
         /\ \A i \in 1..Len(rows) : i # c => [rows EXCEPT ![c] = r][i] = rows[i]
         /\ [rows EXCEPT ![c] = r][c] = r
  BY ExceptSeq

----------------------------------------------------------------------------
(* One turn of a loop over the handlers: at most a counter of the row moves. *)
LEMMA LoopTurn ==
  ASSUME PipelineInv, NEW t \in Threads, pc[t] \in Working,
         at[t] \in 1..Len(Pres) \/ at[t] \in 1..Len(Posts),
         NEW r \in RowType, rows' = [rows EXCEPT ![cur[t]] = r],
         r.kind = Kind(t) /\ r.alone = rows[cur[t]].alone /\ r.failed = rows[cur[t]].failed,
         NextHandler(t), UNCHANGED <<persistFailure, pending, pc, cur, taken, given>>
  PROVE  PipelineInv'
<1>1. Busy(t) /\ pc[t] \in PipelineSteps \ Outside /\ pc' = [pc EXCEPT ![t] = pc[t]]
  BY DEF Busy, Working, Outside, PipelineSteps, PipelineInv, TypeOK
<1>2. cur[t] \in 1..Len(rows) /\ rows \in Seq(RowType) /\ Len(Pres) \in Nat /\ Len(Posts) \in Nat
  BY <1>1, BusyThreads DEF PipelineInv
<1>3. /\ rows' \in Seq(RowType) /\ Len(rows') = Len(rows)
      /\ \A i \in 1..Len(rows) : i # cur[t] => rows'[i] = rows[i]
      /\ rows'[cur[t]] = r
  BY <1>2, RowUpdate
<1>4. at' \in [Threads -> 1..(Len(Pres) + Len(Posts) + 1)]
  BY <1>2 DEF PipelineInv, TypeOK, NextHandler
<1>5. OnItsWay(t)'
  <2>1. OnItsWay(t)
    BY DEF PipelineInv
  <2> QED
    BY <1>1, <1>3, <2>1 DEF OnItsWay, Working, Kind, Own
<1>6. FieldHeld'
  <2>1. \A u \in Threads : pc[u] \in {"take", "reset"} => Kind(u)' = Kind(u)
    <3> SUFFICES ASSUME NEW u \in Threads, pc[u] \in {"take", "reset"} PROVE Kind(u)' = Kind(u)
      OBVIOUS
    <3>1. Busy(u) /\ u # t
      BY DEF Busy, Outside, Working
    <3>2. cur[u] # cur[t] /\ cur[u] \in 1..Len(rows)
      BY <1>1, <3>1, BusyThreads DEF PipelineInv, OwnRow
    <3> QED
      BY <1>3, <3>2 DEF Kind
  <2> QED
    BY <2>1 DEF PipelineInv, FieldHeld
<1>7. /\ persistFailure' \in [Kinds -> 0..Len(rows)] /\ taken' \in [Threads -> 0..Len(rows)]
      /\ rows'[cur[t]].kind = rows[cur[t]].kind /\ rows'[cur[t]].alone = rows[cur[t]].alone
  BY <1>3 DEF PipelineInv, TypeOK, Kind
<1> QED
  BY <1>1, <1>3, <1>4, <1>5, <1>6, <1>7, BusyStep

LEMMA CountedRow ==
  ASSUME NEW r \in RowType
  PROVE  /\ [r EXCEPT !.isolated = @ + 1] \in RowType
         /\ [r EXCEPT !.isolated = @ + 1].kind = r.kind
         /\ [r EXCEPT !.isolated = @ + 1].alone = r.alone
         /\ [r EXCEPT !.isolated = @ + 1].failed = r.failed
         /\ [r EXCEPT !.joined = @ + 1] \in RowType
         /\ [r EXCEPT !.joined = @ + 1].kind = r.kind
         /\ [r EXCEPT !.joined = @ + 1].alone = r.alone
         /\ [r EXCEPT !.joined = @ + 1].failed = r.failed
  BY DEF RowType

LEMMA IsolatedKeeps ==
  ASSUME PipelineInv, NEW t \in Threads,
         Isolated(t, "pres", Pres) \/ Isolated(t, "posts", Posts)
  PROVE  PipelineInv'
<1>1. pc[t] \in Working /\ Busy(t)
  BY DEF Isolated, Working, Busy, Outside
<1>2. /\ cur[t] \in 1..Len(rows) /\ rows[cur[t]] \in RowType /\ rows \in Seq(RowType)
      /\ Len(Pres) \in Nat /\ Len(Posts) \in Nat /\ at[t] \in Nat \ {0}
  BY <1>1, BusyThreads DEF PipelineInv, TypeOK
<1> DEFINE more == [rows[cur[t]] EXCEPT !.isolated = @ + 1]
<1>3. /\ more \in RowType /\ more.kind = Kind(t) /\ more.alone = rows[cur[t]].alone
      /\ more.failed = rows[cur[t]].failed
  BY <1>2, CountedRow DEF Kind
<1>4. rows = [rows EXCEPT ![cur[t]] = rows[cur[t]]]
  BY <1>2
<1>5. /\ rows' = [rows EXCEPT ![cur[t]] = more] \/ rows' = rows
      /\ at[t] \in 1..Len(Pres) \/ at[t] \in 1..Len(Posts)
      /\ NextHandler(t) /\ UNCHANGED <<persistFailure, pending, pc, cur, taken, given>>
  BY <1>2 DEF Isolated
<1> HIDE DEF more
<1>6. CASE rows' = [rows EXCEPT ![cur[t]] = more]
  BY <1>1, <1>3, <1>5, <1>6, LoopTurn
<1>7. CASE rows' = rows
  BY <1>1, <1>2, <1>4, <1>5, <1>7, LoopTurn DEF Kind
<1> QED
  BY <1>5, <1>6, <1>7

LEMMA JoinedKeeps ==
  ASSUME PipelineInv, NEW t \in Threads,
         \/ Joined(t, "joinPres", Pres) \/ Joined(t, "joinPosts", Posts)
         \/ NotJoined(t, "joinPres", Pres) \/ NotJoined(t, "joinPosts", Posts)
  PROVE  PipelineInv'
<1>1. pc[t] \in Working /\ Busy(t)
  BY DEF Joined, NotJoined, Working, Busy, Outside
<1>2. /\ cur[t] \in 1..Len(rows) /\ rows[cur[t]] \in RowType /\ rows \in Seq(RowType)
      /\ Len(Pres) \in Nat /\ Len(Posts) \in Nat /\ at[t] \in Nat \ {0}
  BY <1>1, BusyThreads DEF PipelineInv, TypeOK
<1> DEFINE more == [rows[cur[t]] EXCEPT !.joined = @ + 1]
<1>3. /\ more \in RowType /\ more.kind = Kind(t) /\ more.alone = rows[cur[t]].alone
      /\ more.failed = rows[cur[t]].failed
  BY <1>2, CountedRow DEF Kind
<1>4. rows = [rows EXCEPT ![cur[t]] = rows[cur[t]]]
  BY <1>2
<1>5. /\ rows' = [rows EXCEPT ![cur[t]] = more] \/ rows' = rows
      /\ at[t] \in 1..Len(Pres) \/ at[t] \in 1..Len(Posts)
      /\ NextHandler(t) /\ UNCHANGED <<persistFailure, pending, pc, cur, taken, given>>
  BY <1>2 DEF Joined, NotJoined
<1> HIDE DEF more
<1>6. CASE rows' = [rows EXCEPT ![cur[t]] = more]
  BY <1>1, <1>3, <1>5, <1>6, LoopTurn
<1>7. CASE rows' = rows
  BY <1>1, <1>2, <1>4, <1>5, <1>7, LoopTurn DEF Kind
<1> QED
  BY <1>5, <1>6, <1>7

(* A step to the next stage of the pipeline.                                *)
LEMMA StageStep ==
  ASSUME PipelineInv, NEW t \in Threads, Busy(t),
         NEW s \in PipelineSteps \ Outside, Goto(t, s),
         UNCHANGED <<pending, cur, given>>,
         NEW r \in RowType, rows' = [rows EXCEPT ![cur[t]] = r],
         r.kind = Kind(t), r.alone = rows[cur[t]].alone,
         persistFailure' \in [Kinds -> 0..Len(rows)],
         \A k \in Kinds : k # Kind(t) => persistFailure'[k] = persistFailure[k],
         persistFailure'[Kind(t)] # 0 /\ persistFailure'[Kind(t)] # persistFailure[Kind(t)] =>
           s \in {"take", "reset"} /\ persistFailure'[Kind(t)] = cur[t],
         pc[t] \in {"take", "reset"} => s \in {"take", "reset"} \/ persistFailure'[Kind(t)] = 0,
         taken' \in [Threads -> 0..Len(rows)],
         \A u \in Threads : u # t => taken'[u] = taken[u],
         OnItsWay(t)'
  PROVE  PipelineInv'
<1>1. /\ cur[t] \in 1..Len(rows) /\ rows \in Seq(RowType) /\ Kind(t) \in Kinds
      /\ Len(Pres) \in Nat /\ Len(Posts) \in Nat
  BY BusyThreads DEF PipelineInv
<1>2. /\ rows' \in Seq(RowType) /\ Len(rows') = Len(rows)
      /\ \A i \in 1..Len(rows) : i # cur[t] => rows'[i] = rows[i]
      /\ rows'[cur[t]] = r
  BY <1>1, RowUpdate
<1>3. at' \in [Threads -> 1..(Len(Pres) + Len(Posts) + 1)] /\ pc' = [pc EXCEPT ![t] = s]
  BY <1>1 DEF PipelineInv, TypeOK, Goto
<1>4. \A u \in Threads : Busy(u) => Kind(u)' = Kind(u)
  <2> SUFFICES ASSUME NEW u \in Threads, Busy(u), u # t PROVE Kind(u)' = Kind(u)
    BY <1>2 DEF Kind
  <2>1. cur[u] # cur[t] /\ cur[u] \in 1..Len(rows)
    BY BusyThreads DEF PipelineInv, OwnRow
  <2> QED
    BY <1>2, <2>1 DEF Kind
<1>5. FieldHeld'
  <2> SUFFICES ASSUME NEW k \in Kinds, persistFailure'[k] # 0
               PROVE  \E u \in Threads : /\ pc'[u] \in {"take", "reset"} /\ Kind(u)' = k
                                         /\ cur'[u] = persistFailure'[k]
    BY DEF FieldHeld
  <2>1. CASE persistFailure'[k] # persistFailure[k]
    <3>1. k = Kind(t) /\ s \in {"take", "reset"} /\ persistFailure'[k] = cur[t]
      BY <2>1
    <3>2. pc'[t] = s
      BY <1>3 DEF PipelineInv, TypeOK
    <3> QED
      BY <1>4, <3>1, <3>2
  <2>2. CASE persistFailure'[k] = persistFailure[k]
    <3>1. PICK u \in Threads : /\ pc[u] \in {"take", "reset"} /\ Kind(u) = k
                               /\ cur[u] = persistFailure[k]
      BY <2>2 DEF PipelineInv, FieldHeld
    <3>2. pc'[u] \in {"take", "reset"}
      BY <1>3, <2>2, <3>1 DEF PipelineInv, TypeOK
    <3>3. Busy(u)
      BY <3>1 DEF Busy, Outside
    <3> QED
      BY <1>4, <2>2, <3>1, <3>2, <3>3
  <2> QED
    BY <2>1, <2>2
<1>6. rows'[cur[t]].kind = rows[cur[t]].kind /\ rows'[cur[t]].alone = rows[cur[t]].alone
  BY <1>2 DEF Kind
<1> QED
  BY <1>2, <1>3, <1>5, <1>6, BusyStep

(* What the actions that end a stage have in common.                        *)
LEMMA StageFacts ==
  ASSUME PipelineInv, NEW t \in Threads, Busy(t)
  PROVE  /\ rows[cur[t]] \in RowType /\ rows = [rows EXCEPT ![cur[t]] = rows[cur[t]]]
         /\ cur[t] \in 1..Len(rows) /\ rows \in Seq(RowType) /\ Kind(t) \in Kinds
         /\ persistFailure \in [Kinds -> 0..Len(rows)] /\ taken \in [Threads -> 0..Len(rows)]
         /\ OnItsWay(t) /\ pc \in [Threads -> PipelineSteps] /\ Len(rows) \in Nat
         /\ rows[cur[t]].failed \in BOOLEAN /\ rows[cur[t]].kind = Kind(t)
         /\ Len(Pres) \in Nat /\ Len(Posts) \in Nat
<1>1. cur[t] \in 1..Len(rows) /\ rows \in Seq(RowType) /\ rows[cur[t]] \in RowType
  BY BusyThreads DEF PipelineInv
<1>2. rows = [rows EXCEPT ![cur[t]] = rows[cur[t]]]
  BY <1>1
<1>3. rows[cur[t]].failed \in BOOLEAN /\ rows[cur[t]].kind = Kind(t)
  BY <1>1 DEF RowType, Kind
<1>4. /\ persistFailure \in [Kinds -> 0..Len(rows)] /\ taken \in [Threads -> 0..Len(rows)]
      /\ OnItsWay(t) /\ pc \in [Threads -> PipelineSteps]
  BY DEF PipelineInv, TypeOK
<1> QED
  BY <1>1, <1>2, <1>3, <1>4, BusyThreads DEF PipelineInv

LEMMA IsolatedDoneKeeps ==
  ASSUME PipelineInv, NEW t \in Threads, IsolatedDone(t)
  PROVE  PipelineInv'
<1>1. Busy(t)
  BY DEF IsolatedDone, Busy, Outside
<1>2. PICK s \in {"joinPres", "take"} :
        Goto(t, s) /\ UNCHANGED <<persistFailure, rows, pending, cur, taken, given>>
  BY DEF IsolatedDone
<1>3. OnItsWay(t)'
  BY <1>1, <1>2, StageFacts DEF OnItsWay, IsolatedDone, Goto, Working, Own, Kind, Busy
<1>4. s \in PipelineSteps \ Outside /\ pc[t] \notin {"take", "reset"}
  BY DEF PipelineSteps, Outside, IsolatedDone
<1> QED
  BY <1>1, <1>2, <1>3, <1>4, StageFacts, StageStep

LEMMA MainHandlerKeeps ==
  ASSUME PipelineInv, NEW t \in Threads, NEW saves \in BOOLEAN, MainHandler(t, saves)
  PROVE  PipelineInv'
<1>1. Busy(t) /\ "joinPosts" \in PipelineSteps \ Outside /\ pc[t] \notin {"take", "reset"}
  BY DEF MainHandler, Busy, Outside, PipelineSteps
<1> DEFINE r == IF saves THEN [rows[cur[t]] EXCEPT !.db = "written"] ELSE rows[cur[t]]
<1>2. /\ r \in RowType /\ r.kind = Kind(t) /\ r.alone = rows[cur[t]].alone
      /\ r.failed = rows[cur[t]].failed
  <2>1. rows[cur[t]] \in RowType
    BY <1>1, StageFacts
  <2> QED
    BY <2>1 DEF RowType, Kind
<1>3. rows' = [rows EXCEPT ![cur[t]] = r]
  BY <1>1, StageFacts DEF MainHandler
<1> HIDE DEF r
<1>4. rows'[cur[t]] = r
  BY <1>1, <1>3, StageFacts
<1>5. OnItsWay(t)'
  BY <1>1, <1>2, <1>4, StageFacts DEF OnItsWay, MainHandler, Goto, Working, Own, Kind, Busy
<1> QED
  BY <1>1, <1>2, <1>3, <1>5, StageFacts, StageStep DEF MainHandler

LEMMA PersistCommitsKeeps ==
  ASSUME PipelineInv, NEW t \in Threads, PersistCommits(t)
  PROVE  PipelineInv'
<1>1. Busy(t) /\ "posts" \in PipelineSteps \ Outside /\ pc[t] \notin {"take", "reset"}
  BY DEF PersistCommits, Busy, Outside, PipelineSteps
<1> DEFINE r == IF rows[cur[t]].db = "written"
                THEN [rows[cur[t]] EXCEPT !.db = "committed"] ELSE rows[cur[t]]
<1>2. /\ r \in RowType /\ r.kind = Kind(t) /\ r.alone = rows[cur[t]].alone
      /\ r.failed = rows[cur[t]].failed
  <2>1. rows[cur[t]] \in RowType
    BY <1>1, StageFacts
  <2> QED
    BY <2>1 DEF RowType, Kind
<1>3. rows' = [rows EXCEPT ![cur[t]] = r]
  BY <1>1, StageFacts DEF PersistCommits
<1> HIDE DEF r
<1>4. rows'[cur[t]] = r
  BY <1>1, <1>3, StageFacts
<1>5. OnItsWay(t)'
  BY <1>1, <1>2, <1>4, StageFacts DEF OnItsWay, PersistCommits, Goto, Working, Own, Kind, Busy
<1> QED
  BY <1>1, <1>2, <1>3, <1>5, StageFacts, StageStep DEF PersistCommits

LEMMA PersistThrowsKeeps ==
  ASSUME PipelineInv, NEW t \in Threads, PersistThrows(t)
  PROVE  PipelineInv'
<1>1. Busy(t) /\ "take" \in PipelineSteps \ Outside /\ pc[t] \notin {"take", "reset"}
  BY DEF PersistThrows, Busy, Outside, PipelineSteps
<1> DEFINE r == [rows[cur[t]] EXCEPT !.failed = TRUE,
                                     !.db = IF @ = "written" THEN "rolledBack" ELSE @]
<1>2. r \in RowType /\ r.kind = Kind(t) /\ r.alone = rows[cur[t]].alone /\ r.failed = TRUE
  <2>1. rows[cur[t]] \in RowType
    BY <1>1, StageFacts
  <2> QED
    BY <2>1 DEF RowType, Kind
<1>3. rows' = [rows EXCEPT ![cur[t]] = r]
  BY <1>1, StageFacts DEF PersistThrows, RolledBack
<1> HIDE DEF r
<1>4. rows'[cur[t]] = r
  BY <1>1, <1>3, StageFacts
<1>5. /\ persistFailure' = [persistFailure EXCEPT ![Kind(t)] = cur[t]]
      /\ Goto(t, "take") /\ UNCHANGED <<pending, cur, taken, given>>
  BY DEF PersistThrows
<1>6. /\ persistFailure' \in [Kinds -> 0..Len(rows)] /\ persistFailure'[Kind(t)] = cur[t]
      /\ \A k \in Kinds : k # Kind(t) => persistFailure'[k] = persistFailure[k]
  BY <1>1, <1>5, StageFacts
<1>7. OnItsWay(t)'
  <2>1. pc'[t] = "take" /\ Kind(t)' = Kind(t) /\ cur'[t] = cur[t]
    BY <1>1, <1>2, <1>4, <1>5, StageFacts DEF Goto, Kind
  <2> QED
    BY <1>2, <1>4, <1>6, <2>1 DEF OnItsWay, Own, Working
<1> QED
  BY <1>1, <1>2, <1>3, <1>5, <1>6, <1>7, StageFacts, StageStep

LEMMA TakeKeeps ==
  ASSUME PipelineInv, NEW t \in Threads, Take(t)
  PROVE  PipelineInv'
<1>1. Busy(t) /\ "reset" \in PipelineSteps \ Outside
  BY DEF Take, Busy, Outside, PipelineSteps
<1>2. /\ taken' \in [Threads -> 0..Len(rows)] /\ taken'[t] = persistFailure[Kind(t)]
      /\ \A u \in Threads : u # t => taken'[u] = taken[u]
  BY <1>1, StageFacts DEF Take
<1>3. OnItsWay(t)'
  BY <1>1, <1>2, StageFacts DEF OnItsWay, Take, Goto, Working, Own, Kind
<1> QED
  BY <1>1, <1>2, <1>3, StageFacts, StageStep DEF Take

LEMMA ResetKeeps ==
  ASSUME PipelineInv, NEW t \in Threads, Reset(t)
  PROVE  PipelineInv'
<1>1. Busy(t) /\ "remember" \in PipelineSteps \ Outside
  BY DEF Reset, Busy, Outside, PipelineSteps
<1>2. /\ persistFailure' \in [Kinds -> 0..Len(rows)] /\ persistFailure'[Kind(t)] = 0
      /\ \A k \in Kinds : k # Kind(t) => persistFailure'[k] = persistFailure[k]
  BY <1>1, StageFacts DEF Reset
<1>3. OnItsWay(t)'
  BY <1>1, <1>2, StageFacts DEF OnItsWay, Reset, Goto, Working, Own, Kind
<1> QED
  BY <1>1, <1>2, <1>3, StageFacts, StageStep DEF Reset

(* The end of an execution: the row joins those that are over, with the     *)
(* reason that came along.                                                  *)
LEMMA RememberKeeps ==
  ASSUME PipelineInv, NEW t \in Threads, Remember(t)
  PROVE  PipelineInv'
<1>1. Busy(t) /\ pc[t] = "remember" /\ UNCHANGED <<persistFailure, given>>
  BY DEF Remember, Busy, Outside
<1> DEFINE c == cur[t]
           r == [rows[c] EXCEPT !.reason = taken[t]]
<1>2. /\ c \in 1..Len(rows) /\ rows[c] \in RowType /\ taken[t] \in 0..Len(rows)
      /\ rows \in Seq(RowType) /\ Len(rows) \in Nat /\ OnItsWay(t)
  BY <1>1, StageFacts
<1>3. /\ r \in RowType /\ r.kind = rows[c].kind /\ r.alone = rows[c].alone
      /\ r.failed = rows[c].failed /\ r.reason = taken[t]
  <2>1. taken[t] \in Nat /\ rows[c] \in RowType
    BY <1>2
  <2> HIDE DEF c
  <2> QED
    BY <2>1 DEF RowType
<1>4. rows' = [rows EXCEPT ![c] = r]
  BY <1>2 DEF Remember
<1> HIDE DEF r
<1>5. /\ rows' \in Seq(RowType) /\ Len(rows') = Len(rows) /\ rows'[c] = r
      /\ \A i \in 1..Len(rows) : i # c => rows'[i] = rows[i]
  BY <1>2, <1>3, <1>4, RowUpdate
<1>6. /\ pc' = [pc EXCEPT ![t] = "idle"] /\ at' = [at EXCEPT ![t] = 1]
      /\ cur' = [cur EXCEPT ![t] = 0] /\ taken' = [taken EXCEPT ![t] = 0]
  BY DEF Remember, Return, Goto
<1>7. pending' \in [Threads -> Seq(1..Len(rows))]
  <2>1. pending[t] \in Seq(1..Len(rows)) /\ pending \in [Threads -> Seq(1..Len(rows))]
    BY DEF PipelineInv, TypeOK
  <2>2. Append(pending[t], c) \in Seq(1..Len(rows))
    BY <1>2, <2>1
  <2>3. pending' = pending \/ pending' = [pending EXCEPT ![t] = Append(pending[t], c)]
    BY DEF Remember
  <2> QED
    BY <2>1, <2>2, <2>3
<1>8. TypeOK'
  <2>1. Len(Pres) \in Nat /\ Len(Posts) \in Nat
    BY <1>1, StageFacts
  <2>2. /\ pc' \in [Threads -> PipelineSteps] /\ cur' \in [Threads -> 0..Len(rows)]
        /\ taken' \in [Threads -> 0..Len(rows)]
    BY <1>2, <1>6 DEF PipelineInv, TypeOK, Outside, PipelineSteps
  <2>3. at' \in [Threads -> 1..(Len(Pres) + Len(Posts) + 1)]
    BY <1>6, <2>1 DEF PipelineInv, TypeOK
  <2>4. \A u \in Threads : pc'[u] \notin Outside => cur'[u] # 0
    BY <1>6 DEF PipelineInv, TypeOK, Outside
  <2>5. persistFailure' \in [Kinds -> 0..Len(rows)] /\ given' \in [Threads -> Seq(Seq(1..Len(rows)))]
    BY <1>1 DEF PipelineInv, TypeOK
  <2> QED
    BY <1>5, <1>7, <2>2, <2>3, <2>4, <2>5 DEF TypeOK
<1>9. /\ ~Busy(t)' /\ \A u \in Threads : u # t => (Busy(u)' <=> Busy(u)) /\ pc'[u] = pc[u]
      /\ \A u \in Threads : u # t => cur'[u] = cur[u] /\ taken'[u] = taken[u]
  BY <1>6 DEF PipelineInv, TypeOK, Busy, Outside
<1>10. \A u \in Threads : u # t /\ Busy(u) =>
          /\ cur[u] \in 1..Len(rows) /\ cur[u] # c
          /\ rows'[cur'[u]] = rows[cur[u]] /\ Kind(u)' = Kind(u)
  <2> SUFFICES ASSUME NEW u \in Threads, u # t, Busy(u)
               PROVE  /\ cur[u] \in 1..Len(rows) /\ cur[u] # c
                      /\ rows'[cur'[u]] = rows[cur[u]] /\ Kind(u)' = Kind(u)
    OBVIOUS
  <2>1. cur[u] \in 1..Len(rows) /\ cur[u] # c
    BY <1>1, BusyThreads DEF PipelineInv, OwnRow
  <2> QED
    BY <1>5, <1>9, <2>1 DEF Kind
<1>11. OwnRow'
  BY <1>9 DEF PipelineInv, OwnRow
<1>12. Alone'
  <2> SUFFICES ASSUME NEW u \in Threads, NEW v \in Threads, u # v, Busy(u)', Busy(v)',
                      rows'[cur'[u]].alone
               PROVE  Kind(u)' # Kind(v)'
    BY DEF Alone
  <2>1. u # t /\ v # t /\ Busy(u) /\ Busy(v)
    BY <1>9
  <2> QED
    BY <1>10, <2>1 DEF PipelineInv, Alone
<1>13. FieldHeld'
  <2> SUFFICES ASSUME NEW k \in Kinds, persistFailure[k] # 0
               PROVE  \E u \in Threads : /\ pc'[u] \in {"take", "reset"} /\ Kind(u)' = k
                                         /\ cur'[u] = persistFailure[k]
    BY <1>1 DEF FieldHeld
  <2>1. PICK u \in Threads : /\ pc[u] \in {"take", "reset"} /\ Kind(u) = k
                             /\ cur[u] = persistFailure[k]
    BY DEF PipelineInv, FieldHeld
  <2>2. u # t /\ Busy(u)
    BY <1>1, <2>1 DEF Busy, Outside
  <2> QED
    BY <1>9, <1>10, <2>1, <2>2
<1>14. \A u \in Threads : OnItsWay(u)'
  <2> SUFFICES ASSUME NEW u \in Threads, u # t, Busy(u) PROVE OnItsWay(u)'
    BY <1>9 DEF OnItsWay
  <2>1. OnItsWay(u)
    BY DEF PipelineInv
  <2> QED
    BY <1>1, <1>9, <1>10, <2>1 DEF OnItsWay, Own
<1>15. ReasonIsOwnUnlessOverlapped'
  <2> SUFFICES ASSUME NEW i \in Executed', rows'[i].alone PROVE OwnReason(i)'
    BY DEF ReasonIsOwnUnlessOverlapped
  <2>1. i \in 1..Len(rows)
    BY <1>5 DEF Executed
  <2>2. CASE i = c
    <3>1. rows[c].alone /\ taken[t] = Own(t)
      BY <1>1, <1>2, <1>3, <1>5, <2>2 DEF OnItsWay
    <3> QED
      BY <1>3, <1>5, <2>2, <3>1 DEF OwnReason, Own
  <2>3. CASE i # c
    <3>1. i \in Executed
      <4> SUFFICES ASSUME NEW u \in Threads, Busy(u), cur[u] = i PROVE FALSE
        BY <2>1 DEF Executed, Busy
      <4>1. u # t
        BY <2>3
      <4>2. Busy(u)' /\ cur'[u] = i
        BY <1>9, <4>1
      <4> QED
        BY <4>2 DEF Executed, Busy
    <3> QED
      BY <1>5, <2>1, <2>3, <3>1 DEF PipelineInv, ReasonIsOwnUnlessOverlapped, OwnReason
  <2> QED
    BY <2>2, <2>3
<1> QED
  BY <1>8, <1>11, <1>12, <1>13, <1>14, <1>15 DEF PipelineInv

LEMMA AfterTransactionKeeps ==
  ASSUME PipelineInv, NEW t \in Threads, ExecuteAfterTransaction(t)
  PROVE  PipelineInv'
<1>1. /\ pc[t] = "idle" /\ pc' = [pc EXCEPT ![t] = "done"] /\ at' = [at EXCEPT ![t] = 1]
      /\ UNCHANGED <<persistFailure, rows, cur, taken>>
  BY DEF ExecuteAfterTransaction, Goto
<1>2. TypeOK'
  <2>1. pending[t] \in Seq(1..Len(rows)) /\ pending \in [Threads -> Seq(1..Len(rows))]
    BY DEF PipelineInv, TypeOK
  <2>2. pending' \in [Threads -> Seq(1..Len(rows))]
    BY <2>1 DEF ExecuteAfterTransaction
  <2>3. [h \in 1..AfterHandlers |-> pending[t]] \in Seq(Seq(1..Len(rows)))
    <3>1. AfterHandlers \in Nat
      BY PipelineAssumption
    <3> QED
      BY <2>1, <3>1
  <2>4. given' \in [Threads -> Seq(Seq(1..Len(rows)))]
    BY <2>3 DEF PipelineInv, TypeOK, ExecuteAfterTransaction
  <2>5. Len(Pres) \in Nat /\ Len(Posts) \in Nat
    BY PipelineAssumption
  <2>6. at' \in [Threads -> 1..(Len(Pres) + Len(Posts) + 1)]
    BY <1>1, <2>5 DEF PipelineInv, TypeOK
  <2>7. /\ pc' \in [Threads -> PipelineSteps]
        /\ \A u \in Threads : pc'[u] \notin Outside => cur[u] # 0
    BY <1>1 DEF PipelineInv, TypeOK, Outside, PipelineSteps
  <2> QED
    BY <1>1, <2>2, <2>4, <2>6, <2>7 DEF PipelineInv, TypeOK
<1>3. /\ ~Busy(t) /\ ~Busy(t)' /\ \A u \in Threads : u # t => pc'[u] = pc[u]
      /\ \A u \in Threads : Busy(u)' <=> Busy(u)
  BY <1>1 DEF PipelineInv, TypeOK, Busy, Outside
<1>4. OwnRow' /\ Alone'
  BY <1>1, <1>3 DEF PipelineInv, OwnRow, Alone, Kind
<1>5. FieldHeld'
  <2>1. \A u \in Threads : pc[u] \in {"take", "reset"} => pc'[u] = pc[u] /\ Kind(u)' = Kind(u)
    BY <1>1, <1>3 DEF Kind
  <2> QED
    BY <1>1, <2>1 DEF PipelineInv, FieldHeld
<1>6. \A u \in Threads : OnItsWay(u)'
  <2> SUFFICES ASSUME NEW u \in Threads, u # t PROVE OnItsWay(u)'
    BY <1>3 DEF OnItsWay
  <2>1. OnItsWay(u)
    BY DEF PipelineInv
  <2> QED
    BY <1>1, <1>3, <2>1 DEF OnItsWay, Own, Kind
<1>7. ReasonIsOwnUnlessOverlapped'
  BY <1>1, <1>3 DEF PipelineInv, ReasonIsOwnUnlessOverlapped, OwnReason, Executed, Busy
<1> QED
  BY <1>2, <1>4, <1>5, <1>6, <1>7 DEF PipelineInv

(* A new row: the executions it overlaps with are no longer alone, and if   *)
(* there are none the field of its kind is clean.                           *)
LEMMA BeginKeeps ==
  ASSUME PipelineInv, NEW t \in Threads, NEW k \in Kinds, NEW req \in Threads \cup {NoRequest},
         Begin(t, k, req)
  PROVE  PipelineInv'
<1> DEFINE n == Len(rows)
           busy == {u \in Threads : pc[u] \notin Outside /\ Kind(u) = k}
           old == [i \in 1..n |-> IF \E u \in busy : cur[u] = i
                                  THEN [rows[i] EXCEPT !.alone = FALSE] ELSE rows[i]]
           new == [req |-> req, kind |-> k, db |-> "none", failed |-> FALSE,
                   joined |-> 0, isolated |-> 0, reason |-> 0, alone |-> busy = {}]
<1>1. /\ pc[t] = "idle" /\ pc' = [pc EXCEPT ![t] = "pres"] /\ at' = [at EXCEPT ![t] = 1]
      /\ cur' = [cur EXCEPT ![t] = n + 1] /\ rows' = Append(old, new)
      /\ UNCHANGED <<persistFailure, pending, taken, given>>
  BY DEF Begin, Goto
<1>2. rows \in Seq(RowType) /\ n \in Nat /\ \A i \in 1..n : rows[i] \in RowType
  BY DEF PipelineInv, TypeOK
<1>3. old \in Seq(RowType) /\ Len(old) = n
  <2>1. \A i \in 1..n : [rows[i] EXCEPT !.alone = FALSE] \in RowType /\ rows[i] \in RowType
    BY <1>2 DEF RowType
  <2>2. \A i \in 1..n : old[i] \in RowType
    BY <2>1
  <2>3. old \in [1..n -> RowType]
    BY <2>2
  <2> HIDE DEF old
  <2> QED
    BY <1>2, <2>3
<1>4. new \in RowType
  BY DEF RowType
<1>5. \A i \in 1..n : i \notin {cur[u] : u \in busy} => old[i] = rows[i]
  OBVIOUS
<1>6. \A i \in 1..n : /\ old[i].kind = rows[i].kind /\ old[i].failed = rows[i].failed
                      /\ old[i].reason = rows[i].reason
                      /\ old[i].alone => rows[i].alone /\ old[i] = rows[i]
  <2> SUFFICES ASSUME NEW i \in 1..n
               PROVE  /\ old[i].kind = rows[i].kind /\ old[i].failed = rows[i].failed
                      /\ old[i].reason = rows[i].reason
                      /\ old[i].alone => rows[i].alone /\ old[i] = rows[i]
    OBVIOUS
  <2>1. old[i] = [rows[i] EXCEPT !.alone = FALSE] \/ old[i] = rows[i]
    OBVIOUS
  <2>2. rows[i] \in RowType
    BY <1>2
  <2> HIDE DEF old
  <2> QED
    BY <2>1, <2>2 DEF RowType
<1>7. \A u \in busy : cur[u] \in 1..n => ~old[cur[u]].alone
  <2> SUFFICES ASSUME NEW u \in busy, cur[u] \in 1..n PROVE ~old[cur[u]].alone
    OBVIOUS
  <2>1. old[cur[u]] = [rows[cur[u]] EXCEPT !.alone = FALSE] /\ rows[cur[u]] \in RowType
    BY <1>2
  <2> HIDE DEF old
  <2> QED
    BY <2>1 DEF RowType
<1>8. new.kind = k /\ new.failed = FALSE /\ (new.alone <=> busy = {})
  OBVIOUS
<1>9. \A u \in Threads : u \in busy <=> Busy(u) /\ Kind(u) = k
  BY DEF Busy
<1> HIDE DEF old, new, busy
<1>10. /\ rows' \in Seq(RowType) /\ Len(rows') = n + 1 /\ rows'[n + 1] = new
       /\ \A i \in 1..n : rows'[i] = old[i]
  BY <1>1, <1>2, <1>3, <1>4
<1>11. /\ Busy(t)' /\ ~Busy(t) /\ cur'[t] = n + 1 /\ pc'[t] = "pres"
       /\ \A u \in Threads : u # t => (Busy(u)' <=> Busy(u)) /\ pc'[u] = pc[u] /\ cur'[u] = cur[u]
  BY <1>1 DEF PipelineInv, TypeOK, Busy, Outside
<1>12. \A u \in Threads : u # t /\ Busy(u) =>
          /\ cur[u] \in 1..n /\ rows'[cur'[u]] = old[cur[u]] /\ Kind(u)' = Kind(u)
  <2> SUFFICES ASSUME NEW u \in Threads, u # t, Busy(u)
               PROVE  /\ cur[u] \in 1..n /\ rows'[cur'[u]] = old[cur[u]] /\ Kind(u)' = Kind(u)
    OBVIOUS
  <2>1. cur[u] \in 1..n
    BY BusyThreads DEF PipelineInv
  <2> QED
    BY <1>6, <1>10, <1>11, <2>1 DEF Kind
<1>13. Kind(t)' = k
  BY <1>8, <1>10, <1>11 DEF Kind
<1>14. TypeOK'
  <2>1. 1..n \subseteq 1..(n + 1) /\ 0..n \subseteq 0..(n + 1)
    BY <1>2
  <2>2. pending' \in [Threads -> Seq(1..(n + 1))]
    <3>1. pending \in [Threads -> Seq(1..n)]
      BY DEF PipelineInv, TypeOK
    <3>2. \A u \in Threads : pending[u] \in Seq(1..(n + 1))
      BY <2>1, <3>1, SeqMonotonic
    <3> QED
      BY <1>1, <3>1, <3>2
  <2>3. given' \in [Threads -> Seq(Seq(1..(n + 1)))]
    <3>1. given \in [Threads -> Seq(Seq(1..n))]
      BY DEF PipelineInv, TypeOK
    <3>2. Seq(1..n) \subseteq Seq(1..(n + 1))
      BY <2>1, SeqMonotonic
    <3>3. \A u \in Threads : given[u] \in Seq(Seq(1..(n + 1)))
      BY <3>1, <3>2, SeqMonotonic
    <3> QED
      BY <1>1, <3>1, <3>3
  <2>4. /\ persistFailure' \in [Kinds -> 0..(n + 1)] /\ taken' \in [Threads -> 0..(n + 1)]
        /\ cur' \in [Threads -> 0..(n + 1)]
    BY <1>1, <1>2, <2>1 DEF PipelineInv, TypeOK
  <2>5. at' \in [Threads -> 1..(Len(Pres) + Len(Posts) + 1)]
    <3>1. Len(Pres) \in Nat /\ Len(Posts) \in Nat
      BY PipelineAssumption
    <3> QED
      BY <1>1, <3>1 DEF PipelineInv, TypeOK
  <2>6. pc' \in [Threads -> PipelineSteps]
    BY <1>1 DEF PipelineInv, TypeOK, PipelineSteps
  <2>7. \A u \in Threads : pc'[u] \notin Outside => cur'[u] # 0
    <3>1. n + 1 # 0
      BY <1>2
    <3>2. \A u \in Threads : pc[u] \notin Outside => cur[u] # 0
      BY DEF PipelineInv, TypeOK
    <3> QED
      BY <1>11, <3>1, <3>2
  <2> QED
    BY <1>10, <2>2, <2>3, <2>4, <2>5, <2>6, <2>7 DEF TypeOK
<1>15. OwnRow'
  <2> SUFFICES ASSUME NEW u \in Threads, NEW v \in Threads, u # v, Busy(u)', Busy(v)'
               PROVE  cur'[u] # cur'[v]
    BY DEF OwnRow
  <2>1. CASE u # t /\ v # t
    BY <1>11, <2>1 DEF PipelineInv, OwnRow
  <2>2. CASE u = t
    BY <1>2, <1>11, <1>12, <2>2
  <2>3. CASE v = t
    BY <1>2, <1>11, <1>12, <2>3
  <2> QED
    BY <2>1, <2>2, <2>3
<1>16. Alone'
  <2> SUFFICES ASSUME NEW u \in Threads, NEW v \in Threads, u # v, Busy(u)', Busy(v)',
                      rows'[cur'[u]].alone
               PROVE  Kind(u)' # Kind(v)'
    BY DEF Alone
  <2>1. CASE u # t /\ v # t
    <3>1. Busy(u) /\ Busy(v) /\ cur[u] \in 1..n /\ rows[cur[u]].alone
      BY <1>6, <1>11, <1>12, <2>1
    <3>2. Kind(u) # Kind(v)
      BY <3>1 DEF PipelineInv, Alone
    <3> QED
      BY <1>12, <2>1, <3>1, <3>2
  <2>2. CASE u = t
    <3>1. v # t /\ Busy(v) /\ v \notin busy
      BY <1>8, <1>10, <1>11, <2>2
    <3> QED
      BY <1>9, <1>12, <1>13, <2>2, <3>1
  <2>3. CASE v = t
    <3>1. u # t /\ Busy(u) /\ u \notin busy
      BY <1>7, <1>11, <1>12, <2>3
    <3> QED
      BY <1>9, <1>12, <1>13, <2>3, <3>1
  <2> QED
    BY <2>1, <2>2, <2>3
<1>17. FieldHeld'
  <2> SUFFICES ASSUME NEW j \in Kinds, persistFailure[j] # 0
               PROVE  \E u \in Threads : /\ pc'[u] \in {"take", "reset"} /\ Kind(u)' = j
                                         /\ cur'[u] = persistFailure[j]
    BY <1>1 DEF FieldHeld
  <2>1. PICK u \in Threads : /\ pc[u] \in {"take", "reset"} /\ Kind(u) = j
                             /\ cur[u] = persistFailure[j]
    BY DEF PipelineInv, FieldHeld
  <2>2. u # t /\ Busy(u)
    BY <1>1, <2>1 DEF Busy, Outside
  <2> QED
    BY <1>11, <1>12, <2>1, <2>2
<1>18. \A u \in Threads : OnItsWay(u)'
  <2>1. ASSUME NEW u \in Threads, u # t PROVE OnItsWay(u)'
    <3> SUFFICES ASSUME Busy(u)', rows'[cur'[u]].alone PROVE OnItsWay(u)'
      BY DEF OnItsWay
    <3>1. Busy(u) /\ cur[u] \in 1..n /\ rows'[cur'[u]] = rows[cur[u]] /\ rows[cur[u]].alone
      BY <1>6, <1>11, <1>12, <2>1
    <3>2. OnItsWay(u)
      BY DEF PipelineInv
    <3> QED
      BY <1>1, <1>11, <1>12, <2>1, <3>1, <3>2 DEF OnItsWay, Own
  <2>2. OnItsWay(t)'
    <3> SUFFICES ASSUME rows'[cur'[t]].alone PROVE persistFailure[k] = 0 /\ ~rows'[cur'[t]].failed
      BY <1>1, <1>11, <1>13 DEF OnItsWay, Working
    <3>1. busy = {} /\ ~rows'[cur'[t]].failed
      BY <1>8, <1>10, <1>11
    <3>2. ASSUME persistFailure[k] # 0 PROVE FALSE
      <4>1. PICK u \in Threads : pc[u] \in {"take", "reset"} /\ Kind(u) = k
        BY <3>2 DEF PipelineInv, FieldHeld
      <4>2. Busy(u)
        BY <4>1 DEF Busy, Outside
      <4> QED
        BY <1>9, <3>1, <4>1, <4>2
    <3> QED
      BY <3>1, <3>2
  <2> QED
    BY <2>1, <2>2
<1>19. ReasonIsOwnUnlessOverlapped'
  <2> SUFFICES ASSUME NEW i \in Executed', rows'[i].alone PROVE OwnReason(i)'
    BY DEF ReasonIsOwnUnlessOverlapped
  <2>1. i \in 1..(n + 1) /\ i # n + 1
    BY <1>10, <1>11 DEF Executed, Busy
  <2>2. i \in 1..n
    BY <1>2, <2>1
  <2>3. i \in Executed
    <3> SUFFICES ASSUME NEW u \in Threads, Busy(u), cur[u] = i PROVE FALSE
      BY <2>2 DEF Executed, Busy
    <3>1. Busy(u)' /\ cur'[u] = i
      BY <1>11
    <3> QED
      BY <3>1 DEF Executed, Busy
  <2>4. rows'[i] = rows[i] /\ rows[i].alone
    BY <1>6, <1>10, <2>2
  <2> QED
    BY <2>3, <2>4 DEF PipelineInv, ReasonIsOwnUnlessOverlapped, OwnReason
<1> QED
  BY <1>14, <1>15, <1>16, <1>17, <1>18, <1>19 DEF PipelineInv

----------------------------------------------------------------------------
LEMMA PipelineInvariant == Spec => []PipelineInv
<1>1. PipelineInv /\ [Next]_vars => PipelineInv'
  <2> SUFFICES ASSUME PipelineInv, [Next]_vars PROVE PipelineInv'
    OBVIOUS
  <2>1. CASE UNCHANGED vars
    BY <2>1 DEF vars, PipelineInv, TypeOK, OwnRow, Alone, FieldHeld, OnItsWay, Own, Busy, Kind,
                ReasonIsOwnUnlessOverlapped, Executed, OwnReason
  <2>2. ASSUME NEW t \in Threads,
               \/ \E k \in Kinds, req \in Threads \cup {NoRequest} : Begin(t, k, req)
               \/ Isolated(t, "pres", Pres) \/ Isolated(t, "posts", Posts)
               \/ IsolatedDone(t)
               \/ Joined(t, "joinPres", Pres) \/ Joined(t, "joinPosts", Posts)
               \/ NotJoined(t, "joinPres", Pres) \/ NotJoined(t, "joinPosts", Posts)
               \/ \E saves \in BOOLEAN : MainHandler(t, saves)
               \/ PersistCommits(t) \/ PersistThrows(t)
               \/ Take(t) \/ Reset(t) \/ Remember(t) \/ ExecuteAfterTransaction(t)
        PROVE  PipelineInv'
    BY <2>2, BeginKeeps, IsolatedKeeps, IsolatedDoneKeeps, JoinedKeeps, MainHandlerKeeps,
       PersistCommitsKeeps, PersistThrowsKeeps, TakeKeeps, ResetKeeps, RememberKeeps,
       AfterTransactionKeeps
  <2> QED
    BY <2>1, <2>2 DEF Next
<1> QED
  BY <1>1, PipelineInitInv, PTL DEF Spec

(* The variables of the pipelines keep their types, whatever the handlers   *)
(* and the saves throw (AuditConfiguration.executeCommand, executeEvent).   *)
THEOREM PipelineTypeCorrect == Spec => []TypeOK
<1>1. PipelineInv => TypeOK
  BY DEF PipelineInv
<1> QED
  BY <1>1, PipelineInvariant, PTL

(* A row during whose execution no other thread was in the pipeline of its  *)
(* kind gets the reason of its own failed save, and none if it was saved:   *)
(* the shared field never carries a failure from one execution into a later *)
(* one (AuditConfiguration.takePersistFailure).                             *)
THEOREM ReasonsAreOwnUnlessOverlapped == Spec => []ReasonIsOwnUnlessOverlapped
<1>1. PipelineInv => ReasonIsOwnUnlessOverlapped
  BY DEF PipelineInv
<1> QED
  BY <1>1, PipelineInvariant, PTL

----------------------------------------------------------------------------
(* How many of the first n handlers of a list have this AuditTx.            *)
First(list, tx, n) == Cardinality({i \in 1..n : list[i] = tx})

LEMMA FirstCounts ==
  ASSUME NEW list \in Seq({"JOIN", "REQUIRES_NEW"}), NEW tx
  PROVE  /\ First(list, tx, 0) = 0
         /\ First(list, tx, Len(list)) = Count(list, tx)
         /\ \A n \in 0..Len(list) : First(list, tx, n) \in 0..Count(list, tx)
         /\ \A n \in 1..Len(list) : First(list, tx, n) =
              IF list[n] = tx THEN First(list, tx, n - 1) + 1 ELSE First(list, tx, n - 1)
<1> DEFINE Upto(n) == {i \in 1..n : list[i] = tx}
<1>1. Len(list) \in Nat
  OBVIOUS
<1>2. ASSUME NEW n \in 0..Len(list)
      PROVE  IsFiniteSet(Upto(n)) /\ Cardinality(Upto(n)) \in Nat
  <2>1. IsFiniteSet(1..n) /\ Upto(n) \subseteq 1..n
    BY <1>1, FS_Interval
  <2> QED
    BY <2>1, FS_Subset, FS_CardinalityType
<1>3. First(list, tx, 0) = 0
  <2>1. Upto(0) = {}
    OBVIOUS
  <2> QED
    BY <2>1, FS_EmptySet DEF First
<1>4. First(list, tx, Len(list)) = Count(list, tx)
  BY DEF First, Count
<1>5. ASSUME NEW n \in 0..Len(list) PROVE First(list, tx, n) \in 0..Count(list, tx)
  <2>1. Upto(n) \subseteq Upto(Len(list)) /\ IsFiniteSet(Upto(Len(list)))
    BY <1>1, <1>2
  <2>2. Cardinality(Upto(n)) <= Cardinality(Upto(Len(list)))
    BY <2>1, FS_Subset
  <2>3. Len(list) \in 0..Len(list) /\ First(list, tx, n) <= Count(list, tx)
    BY <1>1, <2>2 DEF First, Count
  <2>4. First(list, tx, n) \in Nat /\ First(list, tx, Len(list)) \in Nat
    BY <1>2, <2>3 DEF First
  <2> QED
    BY <1>4, <2>3, <2>4
<1>6. ASSUME NEW n \in 1..Len(list)
      PROVE  First(list, tx, n) =
               IF list[n] = tx THEN First(list, tx, n - 1) + 1 ELSE First(list, tx, n - 1)
  <2>1. n - 1 \in 0..Len(list) /\ n \notin Upto(n - 1)
    BY <1>1
  <2>2. CASE list[n] = tx
    <3>1. Upto(n) = Upto(n - 1) \cup {n}
      BY <2>2
    <3>2. Cardinality(Upto(n - 1) \cup {n}) = Cardinality(Upto(n - 1)) + 1
      BY <1>2, <2>1, FS_AddElement
    <3> QED
      BY <2>2, <3>1, <3>2 DEF First
  <2>3. CASE list[n] # tx
    <3>1. Upto(n) = Upto(n - 1)
      BY <2>3
    <3> QED
      BY <2>3, <3>1 DEF First
  <2> QED
    BY <2>2, <2>3
<1> QED
  BY <1>3, <1>4, <1>5, <1>6

LEMMA CountType ==
  ASSUME NEW list \in Seq({"JOIN", "REQUIRES_NEW"}), NEW tx
  PROVE  Count(list, tx) \in Nat
<1>1. IsFiniteSet({i \in 1..Len(list) : list[i] = tx})
  <2>1. IsFiniteSet(1..Len(list))
    BY FS_Interval
  <2> QED
    BY <2>1, FS_Subset
<1> QED
  BY <1>1, FS_CardinalityType DEF Count

(* One turn of a loop counts one handler, or none.                          *)
LEMMA TurnCount ==
  ASSUME NEW list \in Seq({"JOIN", "REQUIRES_NEW"}), NEW tx, NEW n \in 1..Len(list)
  PROVE  /\ First(list, tx, n - 1) \in Nat
         /\ list[n] = tx => First(list, tx, (n + 1) - 1) = First(list, tx, n - 1) + 1
         /\ list[n] # tx => First(list, tx, (n + 1) - 1) = First(list, tx, n - 1)
<1>1. (n + 1) - 1 = n /\ n - 1 \in 0..Len(list)
  OBVIOUS
<1>2. First(list, tx, n - 1) \in 0..Count(list, tx) /\ Count(list, tx) \in Nat
  BY <1>1, FirstCounts, CountType
<1>3. First(list, tx, n - 1) \in Nat
  BY <1>2
<1>4. First(list, tx, (n + 1) - 1) = First(list, tx, n)
  BY <1>1
<1>5. First(list, tx, n) =
        IF list[n] = tx THEN First(list, tx, n - 1) + 1 ELSE First(list, tx, n - 1)
  BY FirstCounts
<1> QED
  BY <1>3, <1>4, <1>5

(* A row whose execution is over, or about to be: all handlers have run, or *)
(* the persist transaction failed and only the REQUIRES_NEW pres have.      *)
Ended(r) ==
  IF r.failed = TRUE
  THEN r.isolated = Count(Pres, "REQUIRES_NEW") /\ r.db \notin {"written", "committed"}
  ELSE /\ r.isolated = Count(Pres, "REQUIRES_NEW") + Count(Posts, "REQUIRES_NEW")
       /\ r.joined = Count(Pres, "JOIN") + Count(Posts, "JOIN")
       /\ r.db \in {"none", "committed"}

(* What a stage and the position of its loop say about the row.             *)
Staged(r, s, n) ==
  /\ s = "pres" =>
       /\ n \in 1..(Len(Pres) + 1) /\ r.failed = FALSE /\ r.db = "none"
       /\ r.isolated = First(Pres, "REQUIRES_NEW", n - 1) /\ r.joined = 0
  /\ s = "joinPres" =>
       /\ n \in 1..(Len(Pres) + 1) /\ r.failed = FALSE /\ r.db = "none"
       /\ r.isolated = Count(Pres, "REQUIRES_NEW") /\ r.joined = First(Pres, "JOIN", n - 1)
  /\ s = "joinPosts" =>
       /\ n \in 1..(Len(Posts) + 1) /\ r.failed = FALSE /\ r.db \in {"none", "written"}
       /\ r.isolated = Count(Pres, "REQUIRES_NEW")
       /\ r.joined = Count(Pres, "JOIN") + First(Posts, "JOIN", n - 1)
  /\ s = "posts" =>
       /\ n \in 1..(Len(Posts) + 1) /\ r.failed = FALSE /\ r.db \in {"none", "committed"}
       /\ r.isolated = Count(Pres, "REQUIRES_NEW") + First(Posts, "REQUIRES_NEW", n - 1)
       /\ r.joined = Count(Pres, "JOIN") + Count(Posts, "JOIN")
  /\ s \in {"take", "reset", "remember"} => Ended(r)
StageOf(t) == Staged(rows[cur[t]], pc[t], at[t])

Stages ==
  /\ \A t \in Threads : Busy(t) => StageOf(t)
  /\ \A i \in Executed : Ended(rows[i])

(* The memory of a request: its rows but the one being executed, which is   *)
(* younger than they are; afterwards the handlers, if there are any, have   *)
(* them all.                                                                *)
Mine(t) == {i \in 1..Len(rows) : rows[i].req = t /\ ~(Busy(t) /\ cur[t] = i)}
Remembered(t) ==
  /\ InOrder(pending[t])
  /\ pc[t] # "done" => Range(pending[t]) = Mine(t)
  /\ Busy(t) => \A i \in Mine(t) : i < cur[t]
  /\ pc[t] = "done" /\ AfterHandlers # 0 =>
       /\ pending[t] = << >>
       /\ \A h \in 1..AfterHandlers : InOrder(given[t][h]) /\ Range(given[t][h]) = RowsOf(t)
Remembers == \A t \in Threads : Remembered(t)

(* A step of an execution that goes on.                                     *)
LEMMA TurnKeeps ==
  ASSUME PipelineInv, Stages, Remembers, NEW t \in Threads, Busy(t),
         NEW s \in PipelineSteps \ Outside, pc' = [pc EXCEPT ![t] = s],
         NEW n, at' = [at EXCEPT ![t] = n],
         NEW r \in RowType, rows' = [rows EXCEPT ![cur[t]] = r], r.req = rows[cur[t]].req,
         UNCHANGED <<pending, cur, given>>, Staged(r, s, n)
  PROVE  Stages' /\ Remembers'
<1>1. cur[t] \in 1..Len(rows) /\ rows \in Seq(RowType) /\ Len(rows) \in Nat
  BY StageFacts
<1>2. /\ Len(rows') = Len(rows) /\ rows'[cur[t]] = r
      /\ \A i \in 1..Len(rows) : i # cur[t] => rows'[i] = rows[i]
  BY <1>1, RowUpdate
<1>3. /\ pc'[t] = s /\ at'[t] = n /\ \A u \in Threads : u # t => pc'[u] = pc[u] /\ at'[u] = at[u]
      /\ \A u \in Threads : Busy(u)' <=> Busy(u)
  BY DEF PipelineInv, TypeOK, Busy
<1>4. \A i \in 1..Len(rows) : rows'[i].req = rows[i].req
  BY <1>2
<1>5. Stages'
  <2>1. ASSUME NEW u \in Threads, Busy(u) PROVE StageOf(u)'
    <3>1. CASE u = t
      BY <1>2, <1>3, <3>1 DEF StageOf
    <3>2. CASE u # t
      <4>1. cur[u] \in 1..Len(rows) /\ cur[u] # cur[t]
        BY <2>1, <3>2, BusyThreads DEF PipelineInv, OwnRow
      <4>2. StageOf(u)
        BY <2>1 DEF Stages
      <4> QED
        BY <1>2, <1>3, <3>2, <4>1, <4>2 DEF StageOf
    <3> QED
      BY <3>1, <3>2
  <2>2. Executed' = Executed /\ cur[t] \notin Executed
    BY <1>2, <1>3 DEF Executed, Busy
  <2>3. \A i \in Executed : Ended(rows'[i])
    BY <1>2, <2>2 DEF Stages, Executed
  <2> QED
    BY <1>3, <2>1, <2>2, <2>3 DEF Stages
<1>6. Remembers'
  <2> SUFFICES ASSUME NEW u \in Threads PROVE Remembered(u)'
    BY DEF Remembers
  <2>1. Mine(u)' = Mine(u) /\ RowsOf(u)' = RowsOf(u)
    BY <1>2, <1>3, <1>4 DEF Mine, RowsOf
  <2>2. Remembered(u) /\ (pc'[u] = "done" <=> pc[u] = "done")
    BY <1>3 DEF Remembers, Busy, Outside
  <2> QED
    BY <1>3, <2>1, <2>2 DEF Remembered
<1> QED
  BY <1>5, <1>6

(* One turn of a loop.                                                      *)
LEMMA LoopStages ==
  ASSUME PipelineInv, Stages, Remembers, NEW t \in Threads,
         \/ Isolated(t, "pres", Pres) \/ Isolated(t, "posts", Posts)
         \/ Joined(t, "joinPres", Pres) \/ Joined(t, "joinPosts", Posts)
         \/ NotJoined(t, "joinPres", Pres) \/ NotJoined(t, "joinPosts", Posts)
  PROVE  Stages' /\ Remembers'
<1>1. Busy(t) /\ pc[t] \in PipelineSteps \ Outside /\ pc' = [pc EXCEPT ![t] = pc[t]]
  BY DEF Isolated, Joined, NotJoined, Busy, Outside, PipelineInv, TypeOK, PipelineSteps
<1>2. /\ UNCHANGED <<pending, cur, given>> /\ at' = [at EXCEPT ![t] = at[t] + 1]
      /\ StageOf(t) /\ Staged(rows[cur[t]], pc[t], at[t])
  BY <1>1 DEF Isolated, Joined, NotJoined, NextHandler, Stages, StageOf
<1>3. /\ rows[cur[t]] \in RowType /\ rows = [rows EXCEPT ![cur[t]] = rows[cur[t]]]
      /\ Len(Pres) \in Nat /\ Len(Posts) \in Nat
  BY <1>1, StageFacts
<1> DEFINE p == rows[cur[t]]
           more == [p EXCEPT !.isolated = @ + 1]
           joins == [p EXCEPT !.joined = @ + 1]
           n == at[t]
<1>4. /\ more \in RowType /\ more.req = p.req /\ more.failed = p.failed /\ more.db = p.db
      /\ more.isolated = p.isolated + 1 /\ more.joined = p.joined
      /\ joins \in RowType /\ joins.req = p.req /\ joins.failed = p.failed /\ joins.db = p.db
      /\ joins.joined = p.joined + 1 /\ joins.isolated = p.isolated
  BY <1>3 DEF RowType
<1>5. /\ rows' = [rows EXCEPT ![cur[t]].isolated = @ + 1] =>
           rows' = [rows EXCEPT ![cur[t]] = more]
      /\ rows' = [rows EXCEPT ![cur[t]].joined = @ + 1] =>
           rows' = [rows EXCEPT ![cur[t]] = joins]
      /\ rows' = rows => rows' = [rows EXCEPT ![cur[t]] = p]
  BY <1>3
<1> HIDE DEF more, joins
<1>6. /\ Pres \in Seq({"JOIN", "REQUIRES_NEW"}) /\ Posts \in Seq({"JOIN", "REQUIRES_NEW"})
      /\ \A tx \in {"JOIN", "REQUIRES_NEW"} : Count(Pres, tx) \in Nat /\ Count(Posts, tx) \in Nat
  <2>1. Pres \in Seq({"JOIN", "REQUIRES_NEW"}) /\ Posts \in Seq({"JOIN", "REQUIRES_NEW"})
    BY PipelineAssumption
  <2>2. ASSUME NEW list \in Seq({"JOIN", "REQUIRES_NEW"}), NEW tx PROVE Count(list, tx) \in Nat
    BY CountType
  <2> QED
    BY <2>1, <2>2
<1>7. n \in Nat \ {0}
  BY DEF PipelineInv, TypeOK
<1>8. /\ n <= Len(Pres) => n \in 1..Len(Pres)
      /\ n <= Len(Posts) => n \in 1..Len(Posts)
  BY <1>3, <1>7
<1>9. ASSUME NEW r \in {p, more, joins}, rows' = [rows EXCEPT ![cur[t]] = r],
             Staged(r, pc[t], n + 1)
      PROVE  Stages' /\ Remembers'
  BY <1>1, <1>2, <1>3, <1>4, <1>9, TurnKeeps
<1>10. CASE Isolated(t, "pres", Pres)
  <2>1. pc[t] = "pres" /\ n \in 1..Len(Pres) /\ Pres[n] \in {"JOIN", "REQUIRES_NEW"}
    BY <1>6, <1>8, <1>10 DEF Isolated
  <2>2. Staged(p, "pres", n)
    BY <1>2, <2>1
  <2>3. CASE Pres[n] = "REQUIRES_NEW"
    <3>1. rows' = [rows EXCEPT ![cur[t]] = more]
      BY <1>5, <1>10, <2>3 DEF Isolated
    <3>2. First(Pres, "REQUIRES_NEW", (n + 1) - 1) = First(Pres, "REQUIRES_NEW", n - 1) + 1
      BY <1>6, <2>1, <2>3, TurnCount
    <3>3. Staged(more, "pres", n + 1)
      BY <1>3, <1>4, <2>1, <2>2, <3>2 DEF Staged
    <3> QED
      BY <1>9, <2>1, <3>1, <3>3
  <2>4. CASE Pres[n] # "REQUIRES_NEW"
    <3>1. rows' = [rows EXCEPT ![cur[t]] = p]
      BY <1>5, <1>10, <2>4 DEF Isolated
    <3>2. First(Pres, "REQUIRES_NEW", (n + 1) - 1) = First(Pres, "REQUIRES_NEW", n - 1)
      BY <1>6, <2>1, <2>4, TurnCount
    <3>3. Staged(p, "pres", n + 1)
      BY <1>3, <2>1, <2>2, <3>2 DEF Staged
    <3> QED
      BY <1>9, <2>1, <3>1, <3>3
  <2> QED
    BY <2>3, <2>4
<1>11. CASE Isolated(t, "posts", Posts)
  <2>1. pc[t] = "posts" /\ n \in 1..Len(Posts) /\ Posts[n] \in {"JOIN", "REQUIRES_NEW"}
    BY <1>6, <1>8, <1>11 DEF Isolated
  <2>2. Staged(p, "posts", n)
    BY <1>2, <2>1
  <2>3. CASE Posts[n] = "REQUIRES_NEW"
    <3>1. rows' = [rows EXCEPT ![cur[t]] = more]
      BY <1>5, <1>11, <2>3 DEF Isolated
    <3>2. /\ First(Posts, "REQUIRES_NEW", (n + 1) - 1) = First(Posts, "REQUIRES_NEW", n - 1) + 1
          /\ First(Posts, "REQUIRES_NEW", n - 1) \in Nat
      BY <1>6, <2>1, <2>3, TurnCount
    <3>3. /\ p.isolated = Count(Pres, "REQUIRES_NEW") + First(Posts, "REQUIRES_NEW", n - 1)
          /\ Count(Pres, "REQUIRES_NEW") \in Nat
      BY <1>6, <2>2 DEF Staged
    <3>4. more.isolated =
            Count(Pres, "REQUIRES_NEW") + First(Posts, "REQUIRES_NEW", (n + 1) - 1)
      BY <1>4, <3>2, <3>3
    <3>5. Staged(more, "posts", n + 1)
      BY <1>3, <1>4, <2>1, <2>2, <3>4 DEF Staged
    <3> QED
      BY <1>9, <2>1, <3>1, <3>5
  <2>4. CASE Posts[n] # "REQUIRES_NEW"
    <3>1. rows' = [rows EXCEPT ![cur[t]] = p]
      BY <1>5, <1>11, <2>4 DEF Isolated
    <3>2. First(Posts, "REQUIRES_NEW", (n + 1) - 1) = First(Posts, "REQUIRES_NEW", n - 1)
      BY <1>6, <2>1, <2>4, TurnCount
    <3>3. Staged(p, "posts", n + 1)
      BY <1>3, <2>1, <2>2, <3>2 DEF Staged
    <3> QED
      BY <1>9, <2>1, <3>1, <3>3
  <2> QED
    BY <2>3, <2>4
<1>12. CASE Joined(t, "joinPres", Pres)
  <2>1. pc[t] = "joinPres" /\ n \in 1..Len(Pres) /\ Pres[n] = "JOIN"
    BY <1>8, <1>12 DEF Joined
  <2>2. Staged(p, "joinPres", n)
    BY <1>2, <2>1
  <2>3. rows' = [rows EXCEPT ![cur[t]] = joins]
    BY <1>5, <1>12 DEF Joined
  <2>4. First(Pres, "JOIN", (n + 1) - 1) = First(Pres, "JOIN", n - 1) + 1
    BY <1>6, <2>1, TurnCount
  <2>5. Staged(joins, "joinPres", n + 1)
    BY <1>3, <1>4, <2>1, <2>2, <2>4 DEF Staged
  <2> QED
    BY <1>9, <2>1, <2>3, <2>5
<1>13. CASE Joined(t, "joinPosts", Posts)
  <2>1. pc[t] = "joinPosts" /\ n \in 1..Len(Posts) /\ Posts[n] = "JOIN"
    BY <1>8, <1>13 DEF Joined
  <2>2. Staged(p, "joinPosts", n)
    BY <1>2, <2>1
  <2>3. rows' = [rows EXCEPT ![cur[t]] = joins]
    BY <1>5, <1>13 DEF Joined
  <2>4. /\ First(Posts, "JOIN", (n + 1) - 1) = First(Posts, "JOIN", n - 1) + 1
        /\ First(Posts, "JOIN", n - 1) \in Nat
    BY <1>6, <2>1, TurnCount
  <2>5. p.joined = Count(Pres, "JOIN") + First(Posts, "JOIN", n - 1) /\ Count(Pres, "JOIN") \in Nat
    BY <1>6, <2>2 DEF Staged
  <2>6. joins.joined = Count(Pres, "JOIN") + First(Posts, "JOIN", (n + 1) - 1)
    BY <1>4, <2>4, <2>5
  <2>7. Staged(joins, "joinPosts", n + 1)
    BY <1>3, <1>4, <2>1, <2>2, <2>6 DEF Staged
  <2> QED
    BY <1>9, <2>1, <2>3, <2>7
<1>14. CASE NotJoined(t, "joinPres", Pres)
  <2>1. pc[t] = "joinPres" /\ n \in 1..Len(Pres) /\ Pres[n] # "JOIN"
    BY <1>8, <1>14 DEF NotJoined
  <2>2. Staged(p, "joinPres", n)
    BY <1>2, <2>1
  <2>3. rows' = [rows EXCEPT ![cur[t]] = p]
    BY <1>5, <1>14 DEF NotJoined
  <2>4. First(Pres, "JOIN", (n + 1) - 1) = First(Pres, "JOIN", n - 1)
    BY <1>6, <2>1, TurnCount
  <2>5. Staged(p, "joinPres", n + 1)
    BY <1>3, <2>1, <2>2, <2>4 DEF Staged
  <2> QED
    BY <1>9, <2>1, <2>3, <2>5
<1>15. CASE NotJoined(t, "joinPosts", Posts)
  <2>1. pc[t] = "joinPosts" /\ n \in 1..Len(Posts) /\ Posts[n] # "JOIN"
    BY <1>8, <1>15 DEF NotJoined
  <2>2. Staged(p, "joinPosts", n)
    BY <1>2, <2>1
  <2>3. rows' = [rows EXCEPT ![cur[t]] = p]
    BY <1>5, <1>15 DEF NotJoined
  <2>4. First(Posts, "JOIN", (n + 1) - 1) = First(Posts, "JOIN", n - 1)
    BY <1>6, <2>1, TurnCount
  <2>5. Staged(p, "joinPosts", n + 1)
    BY <1>3, <2>1, <2>2, <2>4 DEF Staged
  <2> QED
    BY <1>9, <2>1, <2>3, <2>5
<1> QED
  BY <1>10, <1>11, <1>12, <1>13, <1>14, <1>15

(* The loop over a list is over.                                            *)
LEMMA LoopOver ==
  ASSUME NEW list \in Seq({"JOIN", "REQUIRES_NEW"}), NEW tx, NEW n \in 1..(Len(list) + 1),
         n > Len(list)
  PROVE  First(list, tx, n - 1) = Count(list, tx)
<1>1. n - 1 = Len(list)
  OBVIOUS
<1> QED
  BY <1>1, FirstCounts

(* No handler has run yet.                                                  *)
LEMMA LoopStarts ==
  ASSUME NEW list \in Seq({"JOIN", "REQUIRES_NEW"}), NEW tx
  PROVE  First(list, tx, 1 - 1) = 0 /\ 1 \in 1..(Len(list) + 1) /\ Count(list, tx) \in Nat
<1>1. 1 - 1 = 0 /\ 1 \in 1..(Len(list) + 1)
  OBVIOUS
<1>2. First(list, tx, 0) = 0 /\ Count(list, tx) \in Nat
  BY FirstCounts, CountType
<1> QED
  BY <1>1, <1>2

(* The steps from one stage to the next.                                    *)
LEMMA StageStages ==
  ASSUME PipelineInv, Stages, Remembers, NEW t \in Threads,
         \/ IsolatedDone(t) \/ \E saves \in BOOLEAN : MainHandler(t, saves)
         \/ PersistCommits(t) \/ PersistThrows(t) \/ Take(t) \/ Reset(t)
  PROVE  Stages' /\ Remembers'
<1>1. Busy(t)
  BY DEF IsolatedDone, MainHandler, PersistCommits, PersistThrows, Take, Reset, Busy, Outside
<1>2. Staged(rows[cur[t]], pc[t], at[t])
  BY <1>1 DEF Stages, StageOf
<1>3. rows[cur[t]] \in RowType /\ rows = [rows EXCEPT ![cur[t]] = rows[cur[t]]]
  BY <1>1, StageFacts
<1> DEFINE p == rows[cur[t]]
           n == at[t]
<1>4. /\ Pres \in Seq({"JOIN", "REQUIRES_NEW"}) /\ Posts \in Seq({"JOIN", "REQUIRES_NEW"})
      /\ Len(Pres) \in Nat /\ Len(Posts) \in Nat
  BY PipelineAssumption
<1>5. \A tx \in {"JOIN", "REQUIRES_NEW"} :
         /\ n \in 1..(Len(Pres) + 1) /\ n > Len(Pres) => First(Pres, tx, n - 1) = Count(Pres, tx)
         /\ n \in 1..(Len(Posts) + 1) /\ n > Len(Posts) => First(Posts, tx, n - 1) = Count(Posts, tx)
  BY <1>4, LoopOver
<1>6. /\ 1 \in 1..(Len(Pres) + 1) /\ 1 \in 1..(Len(Posts) + 1)
      /\ First(Pres, "JOIN", 1 - 1) = 0
      /\ First(Posts, "JOIN", 1 - 1) = 0 /\ First(Posts, "REQUIRES_NEW", 1 - 1) = 0
      /\ Count(Pres, "JOIN") \in Nat /\ Count(Posts, "JOIN") \in Nat
      /\ Count(Pres, "REQUIRES_NEW") \in Nat /\ Count(Posts, "REQUIRES_NEW") \in Nat
  BY <1>4, LoopStarts
<1>7. ASSUME NEW s \in PipelineSteps \ Outside, Goto(t, s), UNCHANGED <<pending, cur, given>>,
             NEW r \in RowType, rows' = [rows EXCEPT ![cur[t]] = r], r.req = p.req,
             Staged(r, s, 1)
      PROVE  Stages' /\ Remembers'
  BY <1>1, <1>7, TurnKeeps DEF Goto
<1> HIDE DEF n
<1>8. CASE IsolatedDone(t)
  <2>1. /\ UNCHANGED <<pending, cur, given>> /\ rows' = [rows EXCEPT ![cur[t]] = p]
        /\ "joinPres" \in PipelineSteps \ Outside /\ "take" \in PipelineSteps \ Outside
    BY <1>3, <1>8 DEF IsolatedDone, PipelineSteps, Outside
  <2>2. CASE pc[t] = "pres" /\ n > Len(Pres) /\ Goto(t, "joinPres")
    <3>1. n \in 1..(Len(Pres) + 1) /\ First(Pres, "REQUIRES_NEW", n - 1) = Count(Pres, "REQUIRES_NEW")
      BY <1>2, <1>5, <2>2 DEF Staged, n
    <3>2. Staged(p, "joinPres", 1)
      BY <1>2, <1>6, <2>2, <3>1 DEF Staged, n
    <3> QED
      BY <1>3, <1>7, <2>1, <2>2, <3>2
  <2>3. CASE pc[t] = "posts" /\ n > Len(Posts) /\ Goto(t, "take")
    <3>1. n \in 1..(Len(Posts) + 1) /\ First(Posts, "REQUIRES_NEW", n - 1) = Count(Posts, "REQUIRES_NEW")
      BY <1>2, <1>5, <2>3 DEF Staged, n
    <3>2. Staged(p, "take", 1)
      BY <1>2, <2>3, <3>1 DEF Staged, Ended, n
    <3> QED
      BY <1>3, <1>7, <2>1, <2>3, <3>2
  <2> QED
    BY <1>8, <2>2, <2>3 DEF IsolatedDone, n
<1>9. ASSUME NEW saves \in BOOLEAN, MainHandler(t, saves) PROVE Stages' /\ Remembers'
  <2> DEFINE r == IF saves THEN [p EXCEPT !.db = "written"] ELSE p
  <2>1. /\ r \in RowType /\ r.req = p.req /\ r.failed = p.failed /\ r.db \in {p.db, "written"}
        /\ r.isolated = p.isolated /\ r.joined = p.joined
    BY <1>3 DEF RowType
  <2>2. rows' = [rows EXCEPT ![cur[t]] = r]
    BY <1>3, <1>9 DEF MainHandler
  <2> HIDE DEF r
  <2>3. /\ pc[t] = "joinPres" /\ n > Len(Pres) /\ Goto(t, "joinPosts")
        /\ "joinPosts" \in PipelineSteps \ Outside /\ UNCHANGED <<pending, cur, given>>
    BY <1>9 DEF MainHandler, PipelineSteps, Outside, n
  <2>4. n \in 1..(Len(Pres) + 1) /\ First(Pres, "JOIN", n - 1) = Count(Pres, "JOIN")
    BY <1>2, <1>5, <2>3 DEF Staged, n
  <2>5. Staged(r, "joinPosts", 1)
    BY <1>2, <1>6, <2>1, <2>3, <2>4 DEF Staged, n
  <2> QED
    BY <1>7, <2>1, <2>2, <2>3, <2>5
<1>10. CASE PersistCommits(t)
  <2> DEFINE r == IF p.db = "written" THEN [p EXCEPT !.db = "committed"] ELSE p
  <2>1. /\ r \in RowType /\ r.req = p.req /\ r.failed = p.failed
        /\ p.db \in {"none", "written"} => r.db \in {"none", "committed"}
        /\ r.isolated = p.isolated /\ r.joined = p.joined
    BY <1>3 DEF RowType
  <2>2. rows' = [rows EXCEPT ![cur[t]] = r]
    BY <1>3, <1>10 DEF PersistCommits
  <2> HIDE DEF r
  <2>3. /\ pc[t] = "joinPosts" /\ n > Len(Posts) /\ Goto(t, "posts")
        /\ "posts" \in PipelineSteps \ Outside /\ UNCHANGED <<pending, cur, given>>
    BY <1>10 DEF PersistCommits, PipelineSteps, Outside, n
  <2>4. n \in 1..(Len(Posts) + 1) /\ First(Posts, "JOIN", n - 1) = Count(Posts, "JOIN")
    BY <1>2, <1>5, <2>3 DEF Staged, n
  <2>5. Staged(r, "posts", 1)
    BY <1>2, <1>6, <2>1, <2>3, <2>4 DEF Staged, n
  <2> QED
    BY <1>7, <2>1, <2>2, <2>3, <2>5
<1>11. CASE PersistThrows(t)
  <2> DEFINE r == [p EXCEPT !.failed = TRUE, !.db = IF @ = "written" THEN "rolledBack" ELSE @]
  <2>1. /\ r \in RowType /\ r.req = p.req /\ r.failed = TRUE
        /\ p.db \in {"none", "written"} => r.db \in {"none", "rolledBack"}
        /\ r.isolated = p.isolated
    BY <1>3 DEF RowType
  <2>2. rows' = [rows EXCEPT ![cur[t]] = r]
    BY <1>3, <1>11 DEF PersistThrows, RolledBack
  <2> HIDE DEF r
  <2>3. /\ pc[t] \in {"joinPres", "joinPosts"} /\ Goto(t, "take")
        /\ "take" \in PipelineSteps \ Outside /\ UNCHANGED <<pending, cur, given>>
    BY <1>11 DEF PersistThrows, PipelineSteps, Outside
  <2>4. Staged(r, "take", 1)
    BY <1>2, <2>1, <2>3 DEF Staged, Ended
  <2> QED
    BY <1>7, <2>1, <2>2, <2>3, <2>4
<1>12. CASE Take(t) \/ Reset(t)
  <2>1. PICK s \in {"reset", "remember"} : Goto(t, s)
    BY <1>12 DEF Take, Reset
  <2>2. /\ UNCHANGED <<pending, cur, given>> /\ rows' = [rows EXCEPT ![cur[t]] = p]
        /\ s \in PipelineSteps \ Outside /\ pc[t] \in {"take", "reset"}
    BY <1>3, <1>12, <2>1 DEF Take, Reset, PipelineSteps, Outside
  <2>3. Staged(p, s, 1)
    BY <1>2, <2>1, <2>2 DEF Staged
  <2> QED
    BY <1>3, <1>7, <2>1, <2>2, <2>3
<1> QED
  BY <1>8, <1>9, <1>10, <1>11, <1>12

(* A new row starts with nothing counted and is nobody's memory yet.        *)
LEMMA BeginStages ==
  ASSUME PipelineInv, Stages, Remembers,
         NEW t \in Threads, NEW k \in Kinds, NEW req \in Threads \cup {NoRequest},
         Begin(t, k, req)
  PROVE  Stages' /\ Remembers'
<1> DEFINE n == Len(rows)
           busy == {u \in Threads : pc[u] \notin Outside /\ Kind(u) = k}
           old == [i \in 1..n |-> IF \E u \in busy : cur[u] = i
                                  THEN [rows[i] EXCEPT !.alone = FALSE] ELSE rows[i]]
           new == [req |-> req, kind |-> k, db |-> "none", failed |-> FALSE,
                   joined |-> 0, isolated |-> 0, reason |-> 0, alone |-> busy = {}]
<1>1. /\ pc[t] = "idle" /\ pc' = [pc EXCEPT ![t] = "pres"] /\ at' = [at EXCEPT ![t] = 1]
      /\ cur' = [cur EXCEPT ![t] = n + 1] /\ rows' = Append(old, new)
      /\ req \in {t, NoRequest} /\ UNCHANGED <<pending, given>>
  BY DEF Begin, Goto
<1>2. rows \in Seq(RowType) /\ n \in Nat /\ \A i \in 1..n : rows[i] \in RowType
  BY DEF PipelineInv, TypeOK
<1>3. \A i \in 1..n : /\ old[i].req = rows[i].req /\ old[i].failed = rows[i].failed
                      /\ old[i].db = rows[i].db /\ old[i].joined = rows[i].joined
                      /\ old[i].isolated = rows[i].isolated
  <2> SUFFICES ASSUME NEW i \in 1..n
               PROVE  /\ old[i].req = rows[i].req /\ old[i].failed = rows[i].failed
                      /\ old[i].db = rows[i].db /\ old[i].joined = rows[i].joined
                      /\ old[i].isolated = rows[i].isolated
    OBVIOUS
  <2>1. old[i] = [rows[i] EXCEPT !.alone = FALSE] \/ old[i] = rows[i]
    OBVIOUS
  <2>2. rows[i] \in RowType
    BY <1>2
  <2> HIDE DEF old
  <2> QED
    BY <2>1, <2>2 DEF RowType
<1>4. new.req = req /\ new.failed = FALSE /\ new.db = "none" /\ new.joined = 0 /\ new.isolated = 0
  OBVIOUS
<1>5. Len(Append(old, new)) = n + 1 /\ Append(old, new)[n + 1] = new
      /\ \A i \in 1..n : Append(old, new)[i] = old[i]
  <2>1. old \in Seq(Range(old)) /\ Len(old) = n
    <3>1. old \in [1..n -> Range(old)]
      BY DEF Range
    <3> HIDE DEF old
    <3> QED
      BY <1>2, <3>1
  <2> HIDE DEF old, new, n
  <2> QED
    BY <1>2, <2>1
<1> HIDE DEF old, new, busy
<1>6. /\ Len(rows') = n + 1 /\ rows'[n + 1] = new /\ \A i \in 1..n : rows'[i] = old[i]
  BY <1>1, <1>5
<1>7. \A i \in 1..n : /\ rows'[i].req = rows[i].req
                      /\ Ended(rows[i]) => Ended(rows'[i])
                      /\ \A s, m : Staged(rows[i], s, m) => Staged(rows'[i], s, m)
  <2> SUFFICES ASSUME NEW i \in 1..n
               PROVE  /\ rows'[i].req = rows[i].req
                      /\ Ended(rows[i]) => Ended(rows'[i])
                      /\ \A s, m : Staged(rows[i], s, m) => Staged(rows'[i], s, m)
    OBVIOUS
  <2>1. /\ rows'[i].req = rows[i].req /\ rows'[i].failed = rows[i].failed
        /\ rows'[i].db = rows[i].db /\ rows'[i].joined = rows[i].joined
        /\ rows'[i].isolated = rows[i].isolated
    BY <1>3, <1>6
  <2>2. Ended(rows[i]) => Ended(rows'[i])
    BY <2>1 DEF Ended
  <2> QED
    BY <2>1, <2>2 DEF Staged
<1>8. /\ Busy(t)' /\ ~Busy(t) /\ cur'[t] = n + 1 /\ pc'[t] = "pres" /\ at'[t] = 1
      /\ \A u \in Threads : u # t =>
           /\ Busy(u)' <=> Busy(u)
           /\ pc'[u] = pc[u] /\ cur'[u] = cur[u] /\ at'[u] = at[u]
  BY <1>1 DEF PipelineInv, TypeOK, Busy, Outside
<1>9. \A u \in Threads : Busy(u) => cur[u] \in 1..n /\ u # t
  BY <1>8, BusyThreads DEF PipelineInv
<1>10. Stages'
  <2>1. ASSUME NEW u \in Threads, Busy(u)' PROVE StageOf(u)'
    <3>1. CASE u = t
      <4>1. Staged(new, "pres", 1)
        <5>1. Pres \in Seq({"JOIN", "REQUIRES_NEW"})
          BY PipelineAssumption
        <5>2. First(Pres, "REQUIRES_NEW", 1 - 1) = 0 /\ 1 \in 1..(Len(Pres) + 1)
          BY <5>1, LoopStarts
        <5> QED
          BY <1>4, <5>2 DEF Staged
      <4> QED
        BY <1>6, <1>8, <3>1, <4>1 DEF StageOf
    <3>2. CASE u # t
      <4>1. Busy(u) /\ cur[u] \in 1..n
        BY <1>8, <1>9, <2>1, <3>2
      <4>2. StageOf(u)
        BY <4>1 DEF Stages
      <4> QED
        BY <1>7, <1>8, <3>2, <4>1, <4>2 DEF StageOf
    <3> QED
      BY <3>1, <3>2
  <2>2. ASSUME NEW i \in Executed' PROVE Ended(rows'[i])
    <3>1. i \in 1..(n + 1) /\ i # n + 1
      BY <1>6, <1>8 DEF Executed, Busy
    <3>2. i \in 1..n
      BY <1>2, <3>1
    <3>3. i \in Executed
      <4> SUFFICES ASSUME NEW u \in Threads, Busy(u), cur[u] = i PROVE FALSE
        BY <3>2 DEF Executed, Busy
      <4>1. Busy(u)' /\ cur'[u] = i
        BY <1>8
      <4> QED
        BY <4>1 DEF Executed, Busy
    <3> QED
      BY <1>7, <3>2, <3>3 DEF Stages
  <2> QED
    BY <2>1, <2>2 DEF Stages
<1>11. Remembers'
  <2> SUFFICES ASSUME NEW u \in Threads PROVE Remembered(u)'
    BY DEF Remembers
  <2>1. Remembered(u)
    BY DEF Remembers
  <2>2. 1..(n + 1) = 1..n \cup {n + 1} /\ n + 1 \notin 1..n
    BY <1>2
  <2>3. Mine(u)' = Mine(u)
    <3>1. CASE u = t
      <4>1. \A i \in 1..n : Busy(t)' /\ cur'[t] = i <=> Busy(t) /\ cur[t] = i
        BY <1>8, <2>2
      <4> QED
        BY <1>6, <1>7, <1>8, <2>2, <3>1, <4>1 DEF Mine
    <3>2. CASE u # t
      <4>1. rows'[n + 1].req # u
        BY <1>1, <1>4, <1>6, <3>2, PipelineAssumption
      <4> QED
        BY <1>6, <1>7, <1>8, <2>2, <3>2, <4>1 DEF Mine
    <3> QED
      BY <3>1, <3>2
  <2>4. CASE u = t
    <3>1. \A i \in Mine(t) : i < n + 1
      BY <1>2 DEF Mine
    <3> QED
      BY <1>1, <1>8, <2>1, <2>3, <2>4, <3>1 DEF Remembered
  <2>5. CASE u # t
    <3>1. RowsOf(u)' = RowsOf(u)
      <4>1. rows'[n + 1].req # u
        BY <1>1, <1>4, <1>6, <2>5, PipelineAssumption
      <4> QED
        BY <1>6, <1>7, <2>2, <4>1 DEF RowsOf
    <3> QED
      BY <1>1, <1>8, <2>1, <2>3, <2>5, <3>1 DEF Remembered
  <2> QED
    BY <2>4, <2>5
<1> QED
  BY <1>10, <1>11

(* What Append does to the order and the range of a list.                   *)
LEMMA AppendInOrder ==
  ASSUME NEW list \in Seq(Nat), NEW c \in Nat, InOrder(list), \A i \in Range(list) : i < c
  PROVE  InOrder(Append(list, c)) /\ Range(Append(list, c)) = Range(list) \cup {c}
<1>1. /\ Append(list, c) \in Seq(Nat) /\ Len(Append(list, c)) = Len(list) + 1 /\ Len(list) \in Nat
      /\ Append(list, c)[Len(list) + 1] = c
      /\ \A i \in 1..Len(list) : Append(list, c)[i] = list[i]
  OBVIOUS
<1>2. \A i \in 1..Len(list) : list[i] < c
  BY DEF Range
<1>3. InOrder(Append(list, c))
  <2> SUFFICES ASSUME NEW i \in 1..(Len(list) + 1), NEW j \in 1..(Len(list) + 1), i < j
               PROVE  Append(list, c)[i] < Append(list, c)[j]
    BY <1>1 DEF InOrder
  <2>1. i \in 1..Len(list)
    BY <1>1
  <2>2. CASE j = Len(list) + 1
    BY <1>1, <1>2, <2>1, <2>2
  <2>3. CASE j # Len(list) + 1
    <3>1. j \in 1..Len(list)
      BY <1>1, <2>3
    <3> QED
      BY <1>1, <2>1, <3>1 DEF InOrder
  <2> QED
    BY <2>2, <2>3
<1>4. Range(Append(list, c)) = Range(list) \cup {c}
  <2>1. DOMAIN Append(list, c) = 1..Len(list) \cup {Len(list) + 1} /\ DOMAIN list = 1..Len(list)
    BY <1>1
  <2> QED
    BY <1>1, <2>1 DEF Range
<1> QED
  BY <1>3, <1>4

(* The execution is over and its row joins the memory of its request.       *)
LEMMA RememberStages ==
  ASSUME PipelineInv, Stages, Remembers, NEW t \in Threads, Remember(t)
  PROVE  Stages' /\ Remembers'
<1>1. Busy(t) /\ pc[t] = "remember" /\ given' = given
  BY DEF Remember, Busy, Outside
<1> DEFINE c == cur[t]
           r == [rows[c] EXCEPT !.reason = taken[t]]
<1>2. /\ c \in 1..Len(rows) /\ rows[c] \in RowType /\ taken[t] \in 0..Len(rows)
      /\ rows \in Seq(RowType) /\ Len(rows) \in Nat
  BY <1>1, StageFacts
<1>3. /\ r \in RowType /\ r.req = rows[c].req /\ r.failed = rows[c].failed /\ r.db = rows[c].db
      /\ r.joined = rows[c].joined /\ r.isolated = rows[c].isolated
  <2>1. taken[t] \in Nat /\ rows[c] \in RowType
    BY <1>2
  <2> HIDE DEF c
  <2> QED
    BY <2>1 DEF RowType
<1>4. rows' = [rows EXCEPT ![c] = r]
  BY <1>2 DEF Remember
<1> HIDE DEF r
<1>5. /\ Len(rows') = Len(rows) /\ rows'[c] = r
      /\ \A i \in 1..Len(rows) : i # c => rows'[i] = rows[i]
  BY <1>2, <1>3, <1>4, RowUpdate
<1>6. /\ pc' = [pc EXCEPT ![t] = "idle"] /\ at' = [at EXCEPT ![t] = 1]
      /\ cur' = [cur EXCEPT ![t] = 0]
  BY DEF Remember, Return, Goto
<1>7. /\ ~Busy(t)' /\ pc'[t] = "idle" /\ cur'[t] = 0
      /\ \A u \in Threads : u # t =>
           /\ Busy(u)' <=> Busy(u)
           /\ pc'[u] = pc[u] /\ cur'[u] = cur[u] /\ at'[u] = at[u]
  BY <1>6 DEF PipelineInv, TypeOK, Busy, Outside
<1>8. \A i \in 1..Len(rows) : rows'[i].req = rows[i].req
  BY <1>3, <1>5
<1>9. Stages'
  <2>1. ASSUME NEW u \in Threads, Busy(u)' PROVE StageOf(u)'
    <3>1. u # t /\ Busy(u)
      BY <1>7, <2>1
    <3>2. cur[u] \in 1..Len(rows) /\ cur[u] # c
      BY <1>1, <3>1, BusyThreads DEF PipelineInv, OwnRow
    <3>3. StageOf(u)
      BY <3>1 DEF Stages
    <3> QED
      BY <1>5, <1>7, <3>1, <3>2, <3>3 DEF StageOf
  <2>2. ASSUME NEW i \in Executed' PROVE Ended(rows'[i])
    <3>1. i \in 1..Len(rows)
      BY <1>5 DEF Executed
    <3>2. CASE i = c
      <4>1. Ended(rows[c])
        BY <1>1 DEF Stages, StageOf, Staged
      <4> QED
        BY <1>3, <1>5, <3>2, <4>1 DEF Ended
    <3>3. CASE i # c
      <4>1. i \in Executed
        <5> SUFFICES ASSUME NEW u \in Threads, Busy(u), cur[u] = i PROVE FALSE
          BY <3>1 DEF Executed, Busy
        <5>1. u # t
          BY <3>3
        <5>2. Busy(u)' /\ cur'[u] = i
          BY <1>7, <5>1
        <5> QED
          BY <5>2 DEF Executed, Busy
      <4> QED
        BY <1>5, <3>1, <3>3, <4>1 DEF Stages
    <3> QED
      BY <3>2, <3>3
  <2> QED
    BY <2>1, <2>2 DEF Stages
<1>10. pending' = IF rows[c].req = t THEN [pending EXCEPT ![t] = Append(pending[t], c)] ELSE pending
  BY DEF Remember
<1>11. pending \in [Threads -> Seq(1..Len(rows))]
  BY DEF PipelineInv, TypeOK
<1>12. ASSUME NEW u \in Threads, u # t PROVE Remembered(u)'
  <2>1. Mine(u)' = Mine(u) /\ RowsOf(u)' = RowsOf(u)
    BY <1>5, <1>7, <1>8, <1>12 DEF Mine, RowsOf
  <2>2. Remembered(u) /\ pending'[u] = pending[u]
    BY <1>10, <1>11, <1>12 DEF Remembers
  <2> QED
    BY <1>1, <1>7, <1>12, <2>1, <2>2 DEF Remembered
<1>13. Remembered(t)'
  <2>1. InOrder(pending[t]) /\ Range(pending[t]) = Mine(t) /\ \A i \in Mine(t) : i < c
    BY <1>1 DEF Remembers, Remembered
  <2>2. Mine(t) = RowsOf(t) \ {c} /\ Mine(t)' = RowsOf(t)
    BY <1>1, <1>5, <1>7, <1>8 DEF Mine, RowsOf
  <2>3. CASE rows[c].req = t
    <3>1. pending'[t] = Append(pending[t], c)
      BY <1>10, <1>11, <2>3
    <3>2. pending[t] \in Seq(Nat) /\ c \in Nat
      <4>1. 1..Len(rows) \subseteq Nat /\ pending[t] \in Seq(1..Len(rows))
        BY <1>11
      <4> QED
        BY <1>2, <4>1, SeqMonotonic
    <3>3. InOrder(pending'[t]) /\ Range(pending'[t]) = Mine(t) \cup {c}
      BY <2>1, <3>1, <3>2, AppendInOrder
    <3>4. c \in RowsOf(t)
      BY <1>2, <2>3 DEF RowsOf
    <3> QED
      BY <1>7, <2>2, <3>3, <3>4 DEF Remembered
  <2>4. CASE rows[c].req # t
    <3>1. pending'[t] = pending[t] /\ c \notin RowsOf(t)
      BY <1>10, <2>4 DEF RowsOf
    <3> QED
      BY <1>7, <2>1, <2>2, <3>1 DEF Remembered
  <2> QED
    BY <2>3, <2>4
<1>14. Remembers'
  BY <1>12, <1>13 DEF Remembers
<1> QED
  BY <1>9, <1>14

(* The handlers get what is remembered, which is all there is.              *)
LEMMA AfterTransactionStages ==
  ASSUME PipelineInv, Stages, Remembers, NEW t \in Threads, ExecuteAfterTransaction(t)
  PROVE  Stages' /\ Remembers'
<1>1. /\ pc[t] = "idle" /\ pc' = [pc EXCEPT ![t] = "done"] /\ at' = [at EXCEPT ![t] = 1]
      /\ rows' = rows /\ cur' = cur
      /\ pending' = IF AfterHandlers = 0 THEN pending ELSE [pending EXCEPT ![t] = << >>]
      /\ given' = [given EXCEPT ![t] = [h \in 1..AfterHandlers |-> pending[t]]]
  BY DEF ExecuteAfterTransaction, Goto
<1>2. /\ ~Busy(t) /\ ~Busy(t)' /\ pc'[t] = "done"
      /\ \A u \in Threads : u # t => pc'[u] = pc[u] /\ at'[u] = at[u]
      /\ \A u \in Threads : Busy(u)' <=> Busy(u)
  BY <1>1 DEF PipelineInv, TypeOK, Busy, Outside
<1>3. Stages'
  <2>1. \A u \in Threads : Busy(u) => u # t /\ StageOf(u)
    BY <1>2 DEF Stages
  <2>2. \A u \in Threads : Busy(u)' => StageOf(u)'
    BY <1>1, <1>2, <2>1 DEF StageOf
  <2>3. Executed' = Executed
    BY <1>1, <1>2 DEF Executed, Busy
  <2> QED
    BY <1>1, <2>2, <2>3 DEF Stages
<1>4. ASSUME NEW u \in Threads PROVE Remembered(u)'
  <2>1. Mine(u)' = Mine(u) /\ RowsOf(u)' = RowsOf(u) /\ Remembered(u)
    BY <1>1, <1>2 DEF Mine, RowsOf, Remembers
  <2>2. pending \in [Threads -> Seq(1..Len(rows))] /\ given \in [Threads -> Seq(Seq(1..Len(rows)))]
    BY DEF PipelineInv, TypeOK
  <2>3. CASE u = t
    <3>1. /\ \A h \in 1..AfterHandlers : given'[t][h] = pending[t]
          /\ pending'[t] = IF AfterHandlers = 0 THEN pending[t] ELSE << >>
      BY <1>1, <2>2
    <3>2. Mine(t) = RowsOf(t)
      BY <1>2 DEF Mine, RowsOf
    <3>3. InOrder(pending[t]) /\ Range(pending[t]) = RowsOf(t)
      BY <1>1, <2>1, <2>3, <3>2 DEF Remembered
    <3>4. InOrder(<< >>)
      BY DEF InOrder
    <3> QED
      BY <1>2, <2>1, <2>3, <3>1, <3>3, <3>4 DEF Remembered
  <2>4. CASE u # t
    <3>1. pending'[u] = pending[u] /\ given'[u] = given[u]
      BY <1>1, <2>2, <2>4
    <3> QED
      BY <1>1, <1>2, <2>1, <2>4, <3>1 DEF Remembered
  <2> QED
    BY <2>3, <2>4
<1>5. Remembers'
  BY <1>4 DEF Remembers
<1> QED
  BY <1>3, <1>5

(* The three together are inductive.                                        *)
LEMMA ExecutionInvariant == Spec => [](Stages /\ Remembers)
<1>1. Init => Stages /\ Remembers
  <2> SUFFICES ASSUME Init PROVE Stages /\ Remembers
    OBVIOUS
  <2>1. rows = << >> /\ Len(rows) = 0 /\ \A t \in Threads : ~Busy(t) /\ pc[t] = "idle"
    BY DEF Init, Busy, Outside
  <2>2. Stages
    BY <2>1 DEF Stages, Executed
  <2>3. ASSUME NEW t \in Threads PROVE Remembered(t)
    <3>1. pending[t] = << >> /\ Mine(t) = {} /\ Range(<< >>) = {} /\ InOrder(<< >>)
      BY <2>1 DEF Init, Mine, Range, InOrder
    <3> QED
      BY <2>1, <3>1 DEF Remembered
  <2> QED
    BY <2>2, <2>3 DEF Remembers
<1>2. PipelineInv /\ Stages /\ Remembers /\ [Next]_vars => Stages' /\ Remembers'
  <2> SUFFICES ASSUME PipelineInv, Stages, Remembers, [Next]_vars PROVE Stages' /\ Remembers'
    OBVIOUS
  <2>1. CASE UNCHANGED vars
    BY <2>1 DEF vars, Stages, StageOf, Remembers, Remembered, Executed, Mine, RowsOf, Busy
  <2>2. ASSUME NEW t \in Threads,
               \/ \E k \in Kinds, req \in Threads \cup {NoRequest} : Begin(t, k, req)
               \/ Isolated(t, "pres", Pres) \/ Isolated(t, "posts", Posts)
               \/ IsolatedDone(t)
               \/ Joined(t, "joinPres", Pres) \/ Joined(t, "joinPosts", Posts)
               \/ NotJoined(t, "joinPres", Pres) \/ NotJoined(t, "joinPosts", Posts)
               \/ \E saves \in BOOLEAN : MainHandler(t, saves)
               \/ PersistCommits(t) \/ PersistThrows(t)
               \/ Take(t) \/ Reset(t) \/ Remember(t) \/ ExecuteAfterTransaction(t)
        PROVE  Stages' /\ Remembers'
    BY <2>2, BeginStages, LoopStages, StageStages, RememberStages, AfterTransactionStages
  <2> QED
    BY <2>1, <2>2 DEF Next
<1> QED
  BY <1>1, <1>2, PipelineInvariant, PTL DEF Spec

(* A row is in the database only if every JOIN handler returned, and a row  *)
(* that failed is not, wherever the failure struck                          *)
(* (AuditConfiguration.Pipeline.persist).                                   *)
THEOREM RowsAreAtomic == Spec => []RowIsAtomic
<1>1. Stages => RowIsAtomic
  BY DEF Stages, RowIsAtomic, Ended
<1> QED
  BY <1>1, ExecutionInvariant, PTL

(* The REQUIRES_NEW posts run once each, after the row has committed, and   *)
(* not at all for a row that failed (AuditConfiguration.Pipeline.execute).  *)
THEOREM PostsRunAfterCommit == Spec => []PostsOnlyAfterCommit
<1>1. PipelineInv /\ Stages => PostsOnlyAfterCommit
  <2> SUFFICES ASSUME PipelineInv, Stages, NEW i \in 1..Len(rows)
               PROVE  LET pres == Count(Pres, "REQUIRES_NEW")
                      IN  /\ rows[i].isolated > pres => ~rows[i].failed /\ rows[i].db # "written"
                          /\ i \in Executed /\ ~rows[i].failed =>
                               rows[i].isolated = pres + Count(Posts, "REQUIRES_NEW")
    BY DEF PostsOnlyAfterCommit
  <2> DEFINE p == Count(Pres, "REQUIRES_NEW")
  <2>1. Pres \in Seq({"JOIN", "REQUIRES_NEW"}) /\ p \in Nat /\ Len(Pres) \in Nat
    BY PipelineAssumption, CountType
  <2>2. rows[i] \in RowType
    BY DEF PipelineInv, TypeOK
  <2>3. CASE i \in Executed
    <3>1. Ended(rows[i]) /\ rows[i].failed \in BOOLEAN
      BY <2>2, <2>3 DEF Stages, RowType
    <3> QED
      BY <2>1, <3>1 DEF Ended
  <2>4. CASE i \notin Executed
    <3>1. PICK t \in Threads : Busy(t) /\ cur[t] = i
      BY <2>4 DEF Executed, Busy
    <3>2. Staged(rows[i], pc[t], at[t]) /\ pc[t] \in PipelineSteps \ Outside
      BY <3>1 DEF Stages, StageOf, PipelineInv, TypeOK, Busy
    <3>3. rows[i].failed \in BOOLEAN
      BY <2>2 DEF RowType
    <3>4. rows[i].isolated > p => rows[i].failed = FALSE /\ rows[i].db # "written"
      <4>1. CASE pc[t] = "pres"
        <5>1. at[t] \in 1..(Len(Pres) + 1) /\ rows[i].isolated = First(Pres, "REQUIRES_NEW", at[t] - 1)
          BY <3>2, <4>1 DEF Staged
        <5>2. at[t] - 1 \in 0..Len(Pres)
          BY <2>1, <5>1
        <5>3. First(Pres, "REQUIRES_NEW", at[t] - 1) \in 0..p
          BY <2>1, <5>2, FirstCounts
        <5> QED
          BY <2>1, <5>1, <5>3
      <4>2. CASE pc[t] \in {"joinPres", "joinPosts"}
        BY <2>1, <3>2, <4>2 DEF Staged
      <4>3. CASE pc[t] = "posts"
        BY <3>2, <4>3 DEF Staged
      <4>4. CASE pc[t] \in {"take", "reset", "remember"}
        BY <2>1, <3>2, <3>3, <4>4 DEF Staged, Ended
      <4> QED
        BY <3>2, <4>1, <4>2, <4>3, <4>4 DEF PipelineSteps, Outside
    <3> QED
      BY <2>4, <3>3, <3>4
  <2> QED
    BY <2>3, <2>4
<1> QED
  BY <1>1, PipelineInvariant, ExecutionInvariant, PTL

(* When a request is over, every after-transaction handler has got all its  *)
(* rows and no other, in the order of execution, and the request is         *)
(* forgotten (AuditConfiguration.executeAfterTransaction).  That there is   *)
(* a handler is needed: without one, executeAfterTransaction returns at     *)
(* once and the rows stay in pendingEvents.                                 *)
THEOREM SnapshotsAreComplete ==
  ASSUME AfterHandlers # 0
  PROVE  Spec => []SnapshotIsComplete
<1>1. Remembers => SnapshotIsComplete
  BY DEF Remembers, Remembered, SnapshotIsComplete
<1> QED
  BY <1>1, ExecutionInvariant, PTL
============================================================================
