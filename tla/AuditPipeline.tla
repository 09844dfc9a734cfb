--------------------------- MODULE AuditPipeline ---------------------------
(***************************************************************************)
(* common/audit/AuditConfiguration.java: the row pipelines, one for        *)
(* command rows and one for event rows, which all request threads share,   *)
(* and the memory of a request that the after-transaction handlers get.    *)
(*                                                                         *)
(* A thread runs one request.  Handlers and saves may throw at every call. *)
(* Everything a thread does between two accesses to the shared field       *)
(* persistFailure is its own; that field is plain, so each access is one   *)
(* step.  (A racy read that returns an older value is the same read taken  *)
(* earlier.)  The transaction manager is bound, as in an application.      *)
(***************************************************************************)
EXTENDS Naturals, Sequences, FiniteSets, SequencesExt

CONSTANTS
    Threads,        \* threads; each stands for its request id as well
    NoRequest,      \* a blank request id
    Kinds,          \* the pipelines: "command", "event"
    Pres, Posts,    \* the AuditTx of each registered handler, in order
    AfterHandlers,  \* number of after-transaction handlers
    MaxRows         \* bound: rows in one behaviour

ASSUME PipelineAssumption ==
    /\ NoRequest \notin Threads
    /\ Pres \in Seq({"JOIN", "REQUIRES_NEW"})
    /\ Posts \in Seq({"JOIN", "REQUIRES_NEW"})
    /\ AfterHandlers \in Nat /\ MaxRows \in Nat

VARIABLES
    persistFailure,  \* kind -> the row whose failure text the field holds, 0 for null
    rows,            \* the rows built so far
    pending,         \* request -> the rows remembered (pendingEvents)
    pc,              \* thread -> its step
    at,              \* thread -> the next handler of the loop it is in
    cur,             \* thread -> the row it is executing
    taken,           \* thread -> what takePersistFailure returned
    given            \* thread -> what each after-transaction handler was given

vars == <<persistFailure, rows, pending, pc, at, cur, taken, given>>

Outside == {"idle", "done"}
Kind(t) == rows[cur[t]].kind
Count(list, tx) == Cardinality({i \in 1..Len(list) : list[i] = tx})

Init ==
    /\ persistFailure = [k \in Kinds |-> 0]
    /\ rows = <<>>
    /\ pending = [t \in Threads |-> <<>>]
    /\ pc = [t \in Threads |-> "idle"]
    /\ at = [t \in Threads |-> 1]
    /\ cur = [t \in Threads |-> 0]
    /\ taken = [t \in Threads |-> 0]
    /\ given = [t \in Threads |-> <<>>]

Goto(t, s) == pc' = [pc EXCEPT ![t] = s] /\ at' = [at EXCEPT ![t] = 1]
Return(t) == \* the locals are gone
    /\ Goto(t, "idle")
    /\ cur' = [cur EXCEPT ![t] = 0]
    /\ taken' = [taken EXCEPT ![t] = 0]
NextHandler(t) == at' = [at EXCEPT ![t] = @ + 1]

\* Mutant of Begin: the thread goes on with the row before the one it built.
Bug_PreviousRow(t, k, req) ==
    /\ pc[t] = "idle"
    /\ Len(rows) < MaxRows
    /\ req \in {t, NoRequest}
    /\ rows' = Append(rows, [req |-> req, kind |-> k, db |-> "none", failed |-> FALSE,
                             joined |-> 0, isolated |-> 0, reason |-> 0, alone |-> FALSE])
    /\ cur' = [cur EXCEPT ![t] = Len(rows)]
    /\ Goto(t, "pres")
    /\ UNCHANGED <<persistFailure, pending, taken, given>>

\* executeCommand / executeEvent with a new row.  "alone" is a ghost: no other row
\* of this kind is in the pipeline while this one is.
Begin(t, k, req) ==
    /\ pc[t] = "idle"
    /\ Len(rows) < MaxRows
    /\ req \in {t, NoRequest}
    /\ LET busy == {u \in Threads : pc[u] \notin Outside /\ Kind(u) = k}
       IN  rows' = Append([i \in 1..Len(rows) |->
                              IF \E u \in busy : cur[u] = i
                              THEN [rows[i] EXCEPT !.alone = FALSE] ELSE rows[i]],
                          [req |-> req, kind |-> k, db |-> "none", failed |-> FALSE,
                           joined |-> 0, isolated |-> 0, reason |-> 0,
                           alone |-> busy = {}])
    /\ cur' = [cur EXCEPT ![t] = Len(rows) + 1]
    /\ Goto(t, "pres")
    /\ UNCHANGED <<persistFailure, pending, taken, given>>

\* One turn of runIsolatedPres or runIsolatedPosts.  What the handler throws is
\* logged and the loop goes on, so both outcomes are this step.
Isolated(t, s, list) ==
    /\ pc[t] = s
    /\ at[t] <= Len(list)
    /\ rows' = IF list[at[t]] = "REQUIRES_NEW"
               THEN [rows EXCEPT ![cur[t]].isolated = @ + 1] ELSE rows
    /\ NextHandler(t)
    /\ UNCHANGED <<persistFailure, pending, pc, cur, taken, given>>

IsolatedDone(t) ==
    \/ /\ pc[t] = "pres" /\ at[t] > Len(Pres)
       /\ Goto(t, "joinPres")
       /\ UNCHANGED <<persistFailure, rows, pending, cur, taken, given>>
    \/ /\ pc[t] = "posts" /\ at[t] > Len(Posts)
       /\ Goto(t, "take")
       /\ UNCHANGED <<persistFailure, rows, pending, cur, taken, given>>

\* The loops of persistInCurrentTx over the JOIN handlers.
Joined(t, s, list) ==
    /\ pc[t] = s
    /\ at[t] <= Len(list)
    /\ list[at[t]] = "JOIN"
    /\ rows' = [rows EXCEPT ![cur[t]].joined = @ + 1]
    /\ NextHandler(t)
    /\ UNCHANGED <<persistFailure, pending, pc, cur, taken, given>>

NotJoined(t, s, list) ==
    /\ pc[t] = s
    /\ at[t] <= Len(list)
    /\ list[at[t]] # "JOIN"
    /\ NextHandler(t)
    /\ UNCHANGED <<persistFailure, rows, pending, pc, cur, taken, given>>

\* Mutant of MainHandler: the save commits at once, in a transaction of its own.
Bug_SavesOutside(t, saves) ==
    /\ pc[t] = "joinPres"
    /\ at[t] > Len(Pres)
    /\ rows' = IF saves THEN [rows EXCEPT ![cur[t]].db = "committed"] ELSE rows
    /\ Goto(t, "joinPosts")
    /\ UNCHANGED <<persistFailure, pending, cur, taken, given>>

\* main.handle: the repository save, or an override that calls it or does not.
MainHandler(t, saves) ==
    /\ pc[t] = "joinPres"
    /\ at[t] > Len(Pres)
    /\ rows' = IF saves THEN [rows EXCEPT ![cur[t]].db = "written"] ELSE rows
    /\ Goto(t, "joinPosts")
    /\ UNCHANGED <<persistFailure, pending, cur, taken, given>>

PersistCommits(t) ==
    /\ pc[t] = "joinPosts"
    /\ at[t] > Len(Posts)
    /\ rows' = IF rows[cur[t]].db = "written"
               THEN [rows EXCEPT ![cur[t]].db = "committed"] ELSE rows
    /\ Goto(t, "posts")
    /\ UNCHANGED <<persistFailure, pending, cur, taken, given>>

\* The rollback of the persist transaction: its write is gone, the row has failed.
RolledBack(t) ==
    rows' = [rows EXCEPT ![cur[t]].failed = TRUE,
                         ![cur[t]].db = IF @ = "written" THEN "rolledBack" ELSE @]

\* Mutant of PersistThrows: the REQUIRES_NEW posts run in a finally block.
Bug_PostsInFinally(t) ==
    /\ pc[t] \in {"joinPres", "joinPosts"}
    /\ RolledBack(t)
    /\ persistFailure' = [persistFailure EXCEPT ![Kind(t)] = cur[t]]
    /\ Goto(t, "posts")
    /\ UNCHANGED <<pending, cur, taken, given>>

\* A JOIN handler, the save or the commit throws: execute rolls back, stores the
\* text of the failure in the field and rethrows.
PersistThrows(t) ==
    /\ pc[t] \in {"joinPres", "joinPosts"}
    /\ RolledBack(t)
    /\ persistFailure' = [persistFailure EXCEPT ![Kind(t)] = cur[t]]
    /\ Goto(t, "take")
    /\ UNCHANGED <<pending, cur, taken, given>>

\* takePersistFailure, the read and then the write.
Take(t) ==
    /\ pc[t] = "take"
    /\ taken' = [taken EXCEPT ![t] = persistFailure[Kind(t)]]
    /\ Goto(t, "reset")
    /\ UNCHANGED <<persistFailure, rows, pending, cur, given>>

\* Mutant of Reset: the field keeps the failure.
Bug_NotReset(t) ==
    /\ pc[t] = "reset"
    /\ Goto(t, "remember")
    /\ UNCHANGED <<persistFailure, rows, pending, cur, taken, given>>

Reset(t) ==
    /\ pc[t] = "reset"
    /\ persistFailure' = [persistFailure EXCEPT ![Kind(t)] = 0]
    /\ Goto(t, "remember")
    /\ UNCHANGED <<rows, pending, cur, taken, given>>

\* Mutant of Remember: only a row that was saved is kept.
Bug_RemembersSaved(t) ==
    /\ pc[t] = "remember"
    /\ rows' = [rows EXCEPT ![cur[t]].reason = taken[t]]
    /\ pending' = IF rows[cur[t]].req = t /\ rows[cur[t]].db = "committed"
                  THEN [pending EXCEPT ![t] = Append(@, cur[t])] ELSE pending
    /\ Return(t)
    /\ UNCHANGED <<persistFailure, given>>

\* The rest of the finally block; a blank request id is not remembered.
Remember(t) ==
    /\ pc[t] = "remember"
    /\ rows' = [rows EXCEPT ![cur[t]].reason = taken[t]]
    /\ pending' = IF rows[cur[t]].req = t
                  THEN [pending EXCEPT ![t] = Append(@, cur[t])] ELSE pending
    /\ Return(t)
    /\ UNCHANGED <<persistFailure, given>>

\* executeAfterTransaction: drain, then every handler, whatever the others throw.
ExecuteAfterTransaction(t) ==
    /\ pc[t] = "idle"
    /\ Goto(t, "done")
    /\ given' = [given EXCEPT ![t] = [h \in 1..AfterHandlers |-> pending[t]]]
    /\ pending' = IF AfterHandlers = 0 THEN pending ELSE [pending EXCEPT ![t] = <<>>]
    /\ UNCHANGED <<persistFailure, rows, cur, taken>>

Next == \E t \in Threads :
    \/ \E k \in Kinds, req \in Threads \cup {NoRequest} : Begin(t, k, req)
    \/ Isolated(t, "pres", Pres)
    \/ Isolated(t, "posts", Posts)
    \/ IsolatedDone(t)
    \/ Joined(t, "joinPres", Pres)
    \/ Joined(t, "joinPosts", Posts)
    \/ NotJoined(t, "joinPres", Pres)
    \/ NotJoined(t, "joinPosts", Posts)
    \/ \E saves \in BOOLEAN : MainHandler(t, saves)
    \/ PersistCommits(t)
    \/ PersistThrows(t)
    \/ Take(t)
    \/ Reset(t)
    \/ Remember(t)
    \/ ExecuteAfterTransaction(t)

Spec == Init /\ [][Next]_vars
-----------------------------------------------------------------------------
PipelineSteps == Outside \cup
    {"pres", "joinPres", "joinPosts", "posts", "take", "reset", "remember"}
RowType == [req : Threads \cup {NoRequest}, kind : Kinds,
            db : {"none", "written", "committed", "rolledBack"},
            failed : BOOLEAN, alone : BOOLEAN, joined : Nat, isolated : Nat, reason : Nat]

TypeOK ==
    /\ persistFailure \in [Kinds -> 0..Len(rows)]
    /\ rows \in Seq(RowType)
    /\ pending \in [Threads -> Seq(1..Len(rows))]
    /\ pc \in [Threads -> PipelineSteps]
    /\ at \in [Threads -> 1..(Len(Pres) + Len(Posts) + 1)]
    /\ cur \in [Threads -> 0..Len(rows)]
    /\ \A t \in Threads : pc[t] \notin Outside => cur[t] # 0
    /\ taken \in [Threads -> 0..Len(rows)]
    /\ given \in [Threads -> Seq(Seq(1..Len(rows)))]

\* The executions that are over.
Executed == {i \in 1..Len(rows) :
                ~\E t \in Threads : pc[t] \notin Outside /\ cur[t] = i}
OwnReason(i) == rows[i].reason = IF rows[i].failed THEN i ELSE 0

\* The comment in executeCommand: a row whose save failed gets the reason of that
\* failure, a successful row is left untouched.
ReasonIsOwn == \A i \in Executed : OwnReason(i)

\* The same for a row during whose execution no other thread was in its pipeline,
\* whatever the threads before it did to the field: no failure is left in it.
ReasonIsOwnUnlessOverlapped == \A i \in Executed : rows[i].alone => OwnReason(i)

\* A row is in the database only if every JOIN handler returned, and a row that
\* failed is not in it.
RowIsAtomic ==
    \A i \in Executed :
        /\ rows[i].db = "committed" =>
               rows[i].joined = Count(Pres, "JOIN") + Count(Posts, "JOIN")
        /\ rows[i].failed => rows[i].db # "committed"

\* The REQUIRES_NEW posts run once each, after the persist transaction of the row
\* has committed; if that failed, only the REQUIRES_NEW pres have run.
PostsOnlyAfterCommit ==
    \A i \in 1..Len(rows) :
        LET pres == Count(Pres, "REQUIRES_NEW")
        IN  /\ rows[i].isolated > pres => ~rows[i].failed /\ rows[i].db # "written"
            /\ i \in Executed /\ ~rows[i].failed =>
                   rows[i].isolated = pres + Count(Posts, "REQUIRES_NEW")

RowsOf(t) == {i \in 1..Len(rows) : rows[i].req = t}
InOrder(list) == \A i, j \in 1..Len(list) : i < j => list[i] < list[j]

\* Every after-transaction handler gets every row of its request and no other, in
\* the order of execution, those whose save failed included; the request is then
\* forgotten.
SnapshotIsComplete ==
    \A t \in Threads : pc[t] = "done" =>
        /\ pending[t] = <<>>
        /\ \A h \in 1..AfterHandlers :
              InOrder(given[t][h]) /\ Range(given[t][h]) = RowsOf(t)
=============================================================================
