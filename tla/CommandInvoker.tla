--------------------------- MODULE CommandInvoker ---------------------------
(***************************************************************************)
(* One thread running command chains: AbstractCommandInvoker.invoke, the   *)
(* dispatcher, the event logger and the external publisher, over           *)
(* SpringTransaction and AuditTrail.  What command handlers, policies and  *)
(* the database do is chosen freely within the bounds.                     *)
(*                                                                         *)
(* The call stack is "stack", its last element running:                    *)
(*   invoke   an invocation of a command handler;                          *)
(*   publish  a loop that publishes events, wrapper first and then the     *)
(*            event itself: of a dispatcher, in or after the transaction,  *)
(*            or of an external publisher;                                 *)
(*   policy   the @EventListener methods of one published event.           *)
(* "exc" says that an exception is on its way up the stack.                *)
(***************************************************************************)
EXTENDS SpringTransaction, AuditTrail

CONSTANTS
    MaxInvokes,       \* bound: invocations in one behaviour
    MaxEvents,        \* bound: events in one behaviour
    MaxCrashes,       \* bound: crashes in one behaviour
    Publishes,        \* timings with which ExternalEventPublisher may be called
    MaxLost,          \* bound: audit rows whose save fails or is skipped
    StampsFail,       \* may logSuccess, logFailure or markEventsFailed throw?
    ParticipantsFail, \* may code inside a handler mark its transaction rollback-only?
    DeferredDefer     \* may a command run by a POST_COMMIT policy defer events itself?

ASSUME BoundsAssumption ==
    /\ MaxInvokes \in Nat /\ MaxEvents \in Nat /\ MaxCrashes \in Nat /\ MaxLost \in Nat
    /\ Publishes \subseteq {"immediate", "deferred"}
    /\ {StampsFail, ParticipantsFail, DeferredDefer} \subseteq BOOLEAN

\* UUIDs do not run out within the bounds.
ASSUME RequestIdsSuffice == 1..(MaxInvokes + MaxEvents) \subseteq RequestIds

VARIABLES
    mdc,        \* request id in MDC, 0 when there is none
    stack,      \* the frames of the thread's call chain
    exc,        \* an exception is propagating to the last frame
    invs,       \* every invocation so far
    events,     \* every event so far
    snapshots,  \* what the after-transaction handler was given, call by call
    ids,        \* request ids drawn so far (UUID.randomUUID)
    crashes     \* ghost: crashes so far

history == <<snapshots, ids, crashes>>
vars == <<tx, trail, mdc, stack, exc, invs, events, history>>

Top     == Last(stack)
Running == stack # <<>>
Push(f) == stack' = Append(stack, f)
Goto(s) == stack' = [stack EXCEPT ![Len(stack)].step = s]

\* Mutant of Leave: what the bottom frame throws stays pending on the thread.
Bug_ExceptionStays(throws) ==
    /\ stack' = Front(stack)
    /\ exc' = throws

\* The last frame returns (FALSE) or throws (TRUE) to the one below; what the
\* bottom frame throws leaves the thread's chain.
Leave(throws) ==
    /\ stack' = Front(stack)
    /\ exc' = (throws /\ Len(stack) > 1)

At(kind, s) == Running /\ ~exc /\ Top.kind = kind /\ Top.step = s
Inv == invs[Top.inv]

Lost == Cardinality({i \in 1..Len(rows) : ~rows[i].saved})
SaveOutcomes == IF Lost < MaxLost THEN BOOLEAN ELSE {TRUE}

\* Somebody may call the library here: outside any chain, in a handler, in a policy.
MayCall == ~exc /\ (Running => Top.kind = "policy" \/ At("invoke", "handle"))

\* The event whose listener makes a call, 0 when no listener does.
Cause == IF Running /\ Top.kind = "policy" THEN Top.event ELSE 0

Init ==
    /\ tx = NoTx
    /\ TrailInit
    /\ mdc = 0
    /\ stack = <<>>
    /\ exc = FALSE
    /\ invs = <<>>
    /\ events = <<>>
    /\ snapshots = <<>>
    /\ ids = 0
    /\ crashes = 0
-----------------------------------------------------------------------------
(***************************************************************************)
(* invoke, up to the handler: the request id of MDC or a new one, the      *)
(* command row, and the choice between joining the caller's transaction    *)
(* and the TransactionTemplate.                                            *)
(***************************************************************************)
Invoke(saved) ==
    /\ MayCall
    /\ Len(invs) < MaxInvokes
    /\ saved \in SaveOutcomes
    /\ LET nested == mdc # 0
           req    == IF nested THEN mdc ELSE ids + 1
           joins  == nested /\ SynchronizationActive
           opens  == ~InTransaction
       IN  /\ mdc' = req
           /\ ids' = IF nested THEN ids ELSE ids + 1
           /\ Record("command", Len(invs) + 1, req, FALSE, saved)
           /\ invs' = Append(invs, [req |-> req, nested |-> nested, joins |-> joins,
                                    opens |-> opens, cause |-> Cause, row |-> Len(rows) + 1,
                                    write |-> "none", outcome |-> "running"])
           /\ IF opens THEN Begin ELSE UNCHANGED tx
           /\ Push([kind |-> "invoke", inv |-> Len(invs) + 1, step |-> "handle",
                    deferred |-> <<>>])
    /\ UNCHANGED <<exc, events, snapshots, crashes>>

\* A write of a handler belongs to the open transaction; one made after the
\* commit is in nobody's hands.
Written == IF tx.phase = "active" THEN "open" ELSE "adrift"

\* An invocation that runs inside the afterCommit callbacks of another one.
AfterCommit == tx.phase = "afterCommit"

\* handler.handle returns, having added events of either timing to its queue, and
\* dispatch publishes the immediate ones.
HandlerReturns(nNow, nLater) ==
    /\ At("invoke", "handle")
    /\ Len(events) + nNow + nLater <= MaxEvents
    /\ nLater > 0 => DeferredDefer \/ ~AfterCommit
    /\ LET n == Top.inv
           new(timing) == [by |-> n, timing |-> timing, delivered |-> 0]
           now   == [k \in 1..nNow |-> Len(events) + k]
           later == [k \in 1..nLater |-> Len(events) + nNow + k]
       IN  /\ events' = events \o [k \in 1..nNow |-> new("immediate")]
                               \o [k \in 1..nLater |-> new("deferred")]
           /\ invs' = [invs EXCEPT ![n].write = Written]
           /\ stack' = Append([stack EXCEPT ![Len(stack)].step = "register",
                                            ![Len(stack)].deferred = later],
                              [kind |-> "publish", step |-> "wrapper", mode |-> "now",
                               todo |-> now, req |-> invs[n].req, opened |-> FALSE])
    /\ UNCHANGED <<tx, trail, mdc, exc, history>>

\* handler.handle throws, before or after its write; its queue is dropped.
HandlerThrows ==
    /\ At("invoke", "handle")
    /\ exc' = TRUE
    /\ Goto("register")
    /\ invs' \in {invs, [invs EXCEPT ![Top.inv].write = Written]}
    /\ UNCHANGED <<tx, trail, mdc, events, history>>

\* Transactional code called by a handler fails, its proxy marks the transaction
\* rollback-only, and the handler catches the exception.
ParticipantFails ==
    /\ ParticipantsFail
    /\ At("invoke", "handle")
    /\ tx.phase = "active"
    /\ ~tx.rollbackOnly
    /\ SetRollbackOnly
    /\ UNCHANGED <<trail, mdc, stack, exc, invs, events, history>>

\* Mutant of RegisterDeferred: the deferred events are published at once.
Bug_PublishesAtOnce ==
    /\ At("invoke", "register")
    /\ stack' = Append([stack EXCEPT ![Len(stack)].step = "stamp"],
                       [kind |-> "publish", step |-> "wrapper", mode |-> "now",
                        todo |-> Top.deferred, req |-> Inv.req, opened |-> FALSE])
    /\ UNCHANGED <<tx, trail, mdc, exc, invs, events, history>>

\* registerPostCommitEvents, with MDC as captureCurrentContext finds it.  An
\* invocation always runs with synchronization active, so its other branch,
\* which publishes at once, is not reached from here.
RegisterDeferred ==
    /\ At("invoke", "register")
    /\ IF Top.deferred = <<>>
       THEN UNCHANGED tx
       ELSE RegisterCallback([events |-> Top.deferred,
                              req |-> IF mdc # 0 THEN mdc ELSE Inv.req])
    /\ Goto("stamp")
    /\ UNCHANGED <<trail, mdc, exc, invs, events, history>>

\* Mutant of StampSuccess: the flag is set on a copy of the row that the caller's
\* transaction holds, and is not written.
Bug_StampsOuterCopy ==
    /\ At("invoke", "stamp")
    /\ rows' = [rows EXCEPT ![Inv.row].mem = TRUE]
    /\ Goto(IF Inv.opens THEN "commit" ELSE "return")
    /\ UNCHANGED <<pending, orders, tx, mdc, exc, invs, events, history>>

\* stampCommandSuccess, then out of the template or of the joined branch.
StampSuccess ==
    /\ At("invoke", "stamp")
    /\ Stamp(Inv.row, TRUE)
    /\ Goto(IF Inv.opens THEN "commit" ELSE "return")
    /\ UNCHANGED <<tx, mdc, exc, invs, events, history>>

\* logSuccess throws: for the invoker this is a failure of the command.
StampSuccessThrows ==
    /\ StampsFail
    /\ At("invoke", "stamp")
    /\ rows[Inv.row].saved
    /\ exc' = TRUE
    /\ UNCHANGED <<tx, trail, mdc, stack, invs, events, history>>

\* What becomes of the writes of the transaction that now ends.
Settle(outcome) ==
    invs' = [n \in 1..Len(invs) |->
                IF invs[n].write = "open" THEN [invs[n] EXCEPT !.write = outcome] ELSE invs[n]]

Commits ==
    /\ At("invoke", "commit")
    /\ ~tx.rollbackOnly
    /\ EnterAfterCommit
    /\ Settle("committed")
    /\ Goto("afterCommit")
    /\ UNCHANGED <<trail, mdc, exc, events, history>>

\* Mutant of CommitThrows: a failure at flush time is not caught, hence not stamped.
Bug_FlushFailureUnaudited ==
    /\ At("invoke", "commit")
    /\ ~tx.rollbackOnly
    /\ End
    /\ Settle("rolledBack")
    /\ Goto("throw")
    /\ UNCHANGED <<trail, mdc, exc, events, history>>

\* A failure while committing, such as a constraint violated at flush time.
CommitThrows ==
    /\ At("invoke", "commit")
    /\ ~tx.rollbackOnly
    /\ End
    /\ Settle("rolledBack")
    /\ Goto("stampFailure")
    /\ UNCHANGED <<trail, mdc, exc, events, history>>

\* UnexpectedRollbackException: caught and ignored, and exceptionHolder is empty.
UnexpectedRollback ==
    /\ At("invoke", "commit")
    /\ tx.rollbackOnly
    /\ End
    /\ Settle("rolledBack")
    /\ Goto("return")
    /\ UNCHANGED <<trail, mdc, exc, events, history>>
-----------------------------------------------------------------------------
(***************************************************************************)
(* After the commit: the dispatcher's callbacks one by one, each restoring *)
(* the MDC it captured and clearing MDC at the end, then the deferred      *)
(* listeners of the event logger, then the cleanup.                        *)
(***************************************************************************)
RunCallback ==
    /\ At("invoke", "afterCommit")
    /\ tx.due > 0
    /\ mdc' = NextCallback.req
    /\ Push([kind |-> "publish", step |-> "wrapper", mode |-> "afterCommit",
             todo |-> NextCallback.events, req |-> NextCallback.req, opened |-> FALSE])
    /\ CallbackTaken
    /\ UNCHANGED <<trail, exc, invs, events, history>>

CallbacksDone ==
    /\ At("invoke", "afterCommit")
    /\ tx.due = 0
    /\ EnterAfterCompletion
    /\ Goto("afterCompletion")
    /\ UNCHANGED <<trail, mdc, exc, invs, events, history>>

\* recordTransactionalEvent, by the id of MDC or else of the event's context.
LogDeferred(saved) ==
    /\ At("invoke", "afterCompletion")
    /\ tx.listeners # <<>>
    /\ saved \in SaveOutcomes
    /\ LET d == Head(tx.listeners)
       IN  Record("event", d.event, IF mdc # 0 THEN mdc ELSE d.req, TRUE, saved)
    /\ ListenerTaken
    /\ UNCHANGED <<mdc, stack, exc, invs, events, history>>

Completed ==
    /\ At("invoke", "afterCompletion")
    /\ tx.listeners = <<>>
    /\ End
    /\ Goto("return")
    /\ UNCHANGED <<trail, mdc, exc, invs, events, history>>
-----------------------------------------------------------------------------
\* The failure path.  The template rolls back the transaction it opened; a command
\* that joined its caller's leaves it alone.  (A template that takes part in a
\* transaction would mark it; JoinsOrOpens says that none ever does.)
Abort ==
    /\ Running /\ exc /\ Top.kind = "invoke"
    /\ exc' = FALSE
    /\ Goto("stampFailure")
    /\ \/ Inv.opens /\ End /\ Settle("rolledBack")
       \/ ~Inv.opens /\ UNCHANGED <<tx, invs>>
    /\ UNCHANGED <<trail, mdc, events, history>>

\* Mutant of StampFailure: a nested command marks the events of its request too.
Bug_NestedMarksEvents ==
    /\ At("invoke", "stampFailure")
    /\ Stamp(Inv.row, FALSE)
    /\ Goto("markFailed")
    /\ UNCHANGED <<tx, mdc, exc, invs, events, history>>

\* stampCommandFailure; only a top-level invocation goes on to markEventsFailed.
StampFailure ==
    /\ At("invoke", "stampFailure")
    /\ Stamp(Inv.row, FALSE)
    /\ Goto(IF Inv.nested THEN "throw" ELSE "markFailed")
    /\ UNCHANGED <<tx, mdc, exc, invs, events, history>>

MarkEventsFailed ==
    /\ At("invoke", "markFailed")
    /\ MarkFailed(Inv.req)
    /\ Goto("throw")
    /\ UNCHANGED <<tx, mdc, exc, invs, events, history>>

\* logFailure or markEventsFailed throws, and what would have followed is skipped.
FailureStampThrows ==
    /\ StampsFail
    /\ \/ At("invoke", "stampFailure") /\ rows[Inv.row].saved
       \/ At("invoke", "markFailed")
    /\ Goto("throw")
    /\ UNCHANGED <<tx, trail, mdc, exc, invs, events, history>>

\* What executeAfterTransaction hands to the handlers, and how invoke ended.
Snapshot(committed) ==
    Append(snapshots,
           [inv |-> Top.inv, committed |-> committed,
            rows |-> [k \in 1..Len(pending[Inv.req]) |->
                         [row |-> pending[Inv.req][k], ok |-> rows[pending[Inv.req][k]].mem]]])
Ended(s) == [invs EXCEPT ![Top.inv].outcome = IF s = "return" THEN "returned" ELSE "threw"]

\* Mutant of Finish: a nested invocation cleans up as a top-level one does.
Bug_NestedCleansUp(s) ==
    /\ At("invoke", s)
    /\ s \in {"return", "throw"}
    /\ invs' = Ended(s)
    /\ snapshots' = Snapshot(s = "return")
    /\ Drain(Inv.req)
    /\ mdc' = 0
    /\ Leave(s = "throw")
    /\ UNCHANGED <<tx, events, ids, crashes>>

\* Mutant of Finish: no MDC.clear().
Bug_KeepsRequestId(s) ==
    /\ At("invoke", s)
    /\ s \in {"return", "throw"}
    /\ invs' = Ended(s)
    /\ IF Inv.nested
       THEN UNCHANGED <<trail, snapshots>>
       ELSE snapshots' = Snapshot(s = "return") /\ Drain(Inv.req)
    /\ Leave(s = "throw")
    /\ UNCHANGED <<tx, mdc, events, ids, crashes>>

\* The finally block, in which only a top-level invocation has work to do: the
\* after-transaction handler, RequestSequence.clear() and MDC.clear().
Finish(s) ==
    /\ At("invoke", s)
    /\ s \in {"return", "throw"}
    /\ invs' = Ended(s)
    /\ IF Inv.nested
       THEN UNCHANGED <<trail, mdc, snapshots>>
       ELSE /\ snapshots' = Snapshot(s = "return")
            /\ Drain(Inv.req)
            /\ mdc' = 0
    /\ Leave(s = "throw")
    /\ UNCHANGED <<tx, events, ids, crashes>>
-----------------------------------------------------------------------------
(***************************************************************************)
(* Publishing.  The wrapper goes to the event logger, which records the    *)
(* event now or, when it is POST_COMMIT and synchronization is active,     *)
(* once the transaction completes; the event itself goes to the policies.  *)
(***************************************************************************)
PublishWrapper(saved) ==
    /\ At("publish", "wrapper")
    /\ Top.todo # <<>>
    /\ saved \in SaveOutcomes
    /\ LET e == Head(Top.todo)
       IN  IF events[e].timing = "deferred" /\ SynchronizationActive
           THEN /\ saved
                /\ DeferListener([event |-> e, req |-> Top.req])
                /\ UNCHANGED trail
           ELSE /\ Record("event", e, IF mdc # 0 THEN mdc ELSE Top.req, TRUE, saved)
                /\ UNCHANGED tx
    /\ Goto("raw")
    /\ UNCHANGED <<mdc, exc, invs, events, history>>

PublishRaw ==
    /\ At("publish", "raw")
    /\ LET e == Head(Top.todo)
       IN  /\ events' = [events EXCEPT ![e].delivered = @ + 1]
           /\ stack' = Append([stack EXCEPT ![Len(stack)].step = "wrapper",
                                            ![Len(stack)].todo = Tail(@)],
                              [kind |-> "policy", step |-> "listen", event |-> e])
    /\ UNCHANGED <<tx, trail, mdc, exc, invs, history>>

\* Mutant of MdcAfterPublish: every publisher clears MDC, as the callback does.
Bug_AlwaysClearsMdc == 0

\* What the publisher's or the callback's finally block does to MDC.
MdcAfterPublish == IF Top.mode = "afterCommit" \/ Top.opened THEN 0 ELSE mdc

PublishDone ==
    /\ At("publish", "wrapper")
    /\ Top.todo = <<>>
    /\ mdc' = MdcAfterPublish
    /\ Leave(FALSE)
    /\ UNCHANGED <<tx, trail, invs, events, history>>

\* Mutant of PublishThrows: no catch around the side effects of a committed command.
Bug_CallbackThrows ==
    /\ Running /\ exc /\ Top.kind = "publish"
    /\ mdc' = MdcAfterPublish
    /\ Leave(TRUE)
    /\ UNCHANGED <<tx, trail, invs, events, history>>

\* Mutant of PublishThrows: the catch is around the loop, not inside it.
Bug_CatchAroundLoop ==
    /\ Running /\ exc /\ Top.kind = "publish"
    /\ mdc' = MdcAfterPublish
    /\ Leave(Top.mode # "afterCommit")
    /\ UNCHANGED <<tx, trail, invs, events, history>>

\* A policy threw: after the commit this is logged and the next event follows,
\* otherwise it ends the loop and reaches the caller.
PublishThrows ==
    /\ Running /\ exc /\ Top.kind = "publish"
    /\ IF Top.mode = "afterCommit"
       THEN exc' = FALSE /\ UNCHANGED <<mdc, stack>>
       ELSE mdc' = MdcAfterPublish /\ Leave(TRUE)
    /\ UNCHANGED <<tx, trail, invs, events, history>>

\* ExternalEventPublisher.publish and publishTransactional: the request in MDC, or
\* one opened for the duration of the call.
PublishExternal(timing) ==
    /\ MayCall
    /\ timing \in Publishes
    /\ Len(events) < MaxEvents
    /\ LET opened == mdc = 0
           req    == IF opened THEN ids + 1 ELSE mdc
       IN  /\ mdc' = req
           /\ ids' = IF opened THEN ids + 1 ELSE ids
           /\ Push([kind |-> "publish", step |-> "wrapper", mode |-> "external",
                    todo |-> <<Len(events) + 1>>, req |-> req, opened |-> opened])
    /\ events' = Append(events, [by |-> 0, timing |-> timing, delivered |-> 0])
    /\ UNCHANGED <<tx, trail, exc, invs, snapshots, crashes>>

\* The listeners of an event are done, or one of them throws, or one of them
\* catches what its nested call threw, or does not.
PolicyReturns ==
    /\ At("policy", "listen")
    /\ Leave(FALSE)
    /\ UNCHANGED <<tx, trail, mdc, invs, events, history>>

PolicyThrows ==
    /\ Running /\ Top.kind = "policy"
    /\ Leave(TRUE)
    /\ UNCHANGED <<tx, trail, mdc, invs, events, history>>

PolicyCatches ==
    /\ Running /\ exc /\ Top.kind = "policy"
    /\ exc' = FALSE
    /\ UNCHANGED <<tx, trail, mdc, stack, invs, events, history>>

\* A handler that called invoke itself catches what that threw.
HandlerCatches ==
    /\ Running /\ exc /\ Top.kind = "invoke" /\ Top.step = "handle"
    /\ exc' = FALSE
    /\ UNCHANGED <<tx, trail, mdc, stack, invs, events, history>>

\* The process dies: the database rolls back, everything in memory is gone.
Crash ==
    /\ Running
    /\ crashes < MaxCrashes
    /\ crashes' = crashes + 1
    /\ Forget
    /\ End
    /\ mdc' = 0 /\ stack' = <<>> /\ exc' = FALSE
    /\ invs' = [n \in 1..Len(invs) |->
           [invs[n] EXCEPT !.outcome = IF @ = "running" THEN "crashed" ELSE @,
                           !.write   = IF @ = "open" THEN "rolledBack" ELSE @]]
    /\ UNCHANGED <<events, snapshots, ids>>

\* What the thread does once it is in a chain, as opposed to being called.
Proceed ==
    \/ \E nNow, nLater \in 0..MaxEvents : HandlerReturns(nNow, nLater)
    \/ HandlerThrows
    \/ RegisterDeferred
    \/ StampSuccess
    \/ StampSuccessThrows
    \/ Commits
    \/ CommitThrows
    \/ UnexpectedRollback
    \/ RunCallback
    \/ CallbacksDone
    \/ \E saved \in BOOLEAN : LogDeferred(saved)
    \/ Completed
    \/ Abort
    \/ StampFailure
    \/ MarkEventsFailed
    \/ FailureStampThrows
    \/ \E s \in {"return", "throw"} : Finish(s)
    \/ \E saved \in BOOLEAN : PublishWrapper(saved)
    \/ PublishRaw
    \/ PublishDone
    \/ PublishThrows
    \/ PolicyReturns
    \/ PolicyThrows
    \/ PolicyCatches
    \/ HandlerCatches

Call ==
    \/ \E saved \in BOOLEAN : Invoke(saved)
    \/ \E timing \in Publishes : PublishExternal(timing)
    \/ ParticipantFails

Next == Proceed \/ Call \/ Crash

\* Handlers and policies are assumed to return; a chain that can go on goes on.
Spec == Init /\ [][Next]_vars /\ WF_vars(Proceed)
-----------------------------------------------------------------------------
Outcomes == {"running", "returned", "threw", "crashed"}
Writes   == {"none", "open", "adrift", "committed", "rolledBack"}
Timings  == {"immediate", "deferred"}

InvType == [req : RequestIds, nested : BOOLEAN, joins : BOOLEAN, opens : BOOLEAN,
            cause : Nat, row : Nat, write : Writes, outcome : Outcomes]
EventType == [by : Nat, timing : Timings, delivered : Nat]
InvokeSteps == {"handle", "register", "stamp", "commit", "afterCommit", "afterCompletion",
                "stampFailure", "markFailed", "return", "throw"}
InvokeFrame  == [kind : {"invoke"}, inv : Nat, deferred : Seq(Nat), step : InvokeSteps]
PublishFrame == [kind : {"publish"}, step : {"wrapper", "raw"}, todo : Seq(Nat),
                 mode : {"now", "afterCommit", "external"}, req : RequestIds,
                 opened : BOOLEAN]
PolicyFrame  == [kind : {"policy"}, step : {"listen"}, event : Nat]
FrameType    == InvokeFrame \cup PublishFrame \cup PolicyFrame
CallbackType == [events : Seq(Nat), req : RequestIds]
ListenerType == [event : Nat, req : RequestIds]
TxType == [phase : Phases, rollbackOnly : BOOLEAN, due : Nat,
           callbacks : Seq(CallbackType), listeners : Seq(ListenerType)]

TypeOK ==
    /\ tx \in TxType
    /\ TrailTypeOK
    /\ mdc \in RequestIds \cup {0}
    /\ stack \in Seq(FrameType)
    /\ exc \in BOOLEAN /\ (exc => Running)
    /\ invs \in Seq(InvType)
    /\ events \in Seq(EventType)
    /\ \A k \in 1..Len(snapshots) :
           /\ snapshots[k].inv \in 1..Len(invs)
           /\ snapshots[k].committed \in BOOLEAN
    /\ ids \in Nat
    /\ crashes \in 0..MaxCrashes

\* The invocation a row tells of: the command's own, or the one that emitted the
\* event; 0 for an event published from outside.
By(i) == IF rows[i].kind = "command" THEN rows[i].of ELSE events[rows[i].of].by

Finished(n) == invs[n].outcome \in {"returned", "threw"}
Crashed(req) == \E n \in 1..Len(invs) : invs[n].req = req /\ invs[n].outcome = "crashed"

\* Once a chain is over, no row in the database calls successful what was rolled
\* back (success is stamped before the commit, which may still fail), and a
\* top-level command whose transaction committed has a successful row.
AuditMatchesOutcome ==
    ~Running =>
        /\ \A i \in 1..Len(rows) :
               rows[i].saved /\ rows[i].ok /\ By(i) # 0 /\ ~Crashed(rows[i].req) =>
                   invs[By(i)].write \in {"committed", "adrift"}
        /\ \A n \in 1..Len(invs) :
               ~invs[n].nested /\ invs[n].write = "committed" /\ rows[invs[n].row].saved =>
                   rows[invs[n].row].ok

\* markEventsFailed works by request id, yet a row of committed work is never
\* turned into a failed one, whatever fails downstream of the commit.
NeverRetroactivelyFailed ==
    [][\A i \in 1..Len(rows) :
           rows[i].saved /\ rows[i].ok /\ ~rows'[i].ok /\ By(i) # 0 =>
               invs[By(i)].write # "committed"]_vars

\* The caller is told the truth: invoke returns exactly when the transaction it
\* opened committed.  A policy that fails after the commit does not make it
\* throw, a commit that fails does.
OutcomeIsTruthful ==
    \A n \in 1..Len(invs) :
        invs[n].opens /\ Finished(n) =>
            (invs[n].outcome = "returned" <=> invs[n].write = "committed")

\* Even at the instant of a crash, business data that is committed is accounted
\* for by a successful command row (if its insert was not lost).
NoCommitWithoutSuccessRow ==
    \A n \in 1..Len(invs) :
        invs[n].opens /\ invs[n].write = "committed" /\ rows[invs[n].row].saved =>
            rows[invs[n].row].ok

\* The after-transaction handler gets every row built for the chain, in order, also one
\* whose save failed; the saved ones as they are stamped in the database; all of them
\* failed if the chain failed.
SnapshotIsTheTrail ==
    [][snapshots' # snapshots =>
          LET s == Last(snapshots')
              shown == {s.rows[k].row : k \in 1..Len(s.rows)}
          IN  /\ shown = RowsOf(invs[s.inv].req)
              /\ \A k \in 1..Len(s.rows) :
                     /\ k > 1 => s.rows[k - 1].row < s.rows[k].row
                     /\ rows[s.rows[k].row].saved => s.rows[k].ok = rows[s.rows[k].row].ok
                     /\ s.rows[k].ok => s.committed]_vars

\* The handler runs once for a top-level invocation that ended, never for a nested
\* one, never for one that is still running.
OneSnapshotPerTopLevel ==
    \A n \in 1..Len(invs) :
        Cardinality({k \in 1..Len(snapshots) : snapshots[k].inv = n}) =
            IF ~invs[n].nested /\ Finished(n) THEN 1 ELSE 0

\* Row i tells of the cause of what row j tells.
Causes(i, j) ==
    \/ /\ rows[i].kind = "command" /\ rows[j].kind = "event"
       /\ events[rows[j].of].by = rows[i].of
    \/ /\ rows[i].kind = "event" /\ rows[j].kind = "command"
       /\ invs[rows[j].of].cause = rows[i].of
       /\ events[rows[i].of].timing = "immediate"

\* event_order follows causality through command, immediate event, policy and
\* nested command, and no two rows of a request share a number.  (A row that could not
\* be built has none.)
CausalOrder ==
    \A i, j \in {k \in 1..Len(rows) : rows[k].order # 0} :
        /\ Causes(i, j) => rows[i].order < rows[j].order
        /\ i # j /\ rows[i].req = rows[j].req => rows[i].order # rows[j].order

\* A POST_COMMIT event reaches policies and the audit trail at most once and only
\* if the transaction of its command committed.
DeferredOnlyAfterCommit ==
    \A e \in 1..Len(events) :
        LET logged == {i \in 1..Len(rows) : rows[i].kind = "event" /\ rows[i].of = e}
        IN  events[e].timing = "deferred" /\ events[e].by # 0 =>
               /\ events[e].delivered + Cardinality(logged) > 0 =>
                      invs[events[e].by].write = "committed"
               /\ events[e].delivered <= 1
               /\ Cardinality(logged) <= 1

\* No request id outlives its chain in the thread's MDC, and a command run by a
\* policy carries the request id of the command whose event it reacts to.
OneRequestPerChain ==
    /\ ~Running => mdc = 0
    /\ \A n \in 1..Len(invs) :
           LET c == invs[n].cause
           IN  c # 0 /\ events[c].by # 0 => invs[n].req = invs[events[c].by].req

\* A POST_COMMIT event is eventually delivered, and taken up by the event logger (which
\* may fail to save its row or to build it), once the transaction its command was in has
\* committed, also when it had already committed, unless the process crashes under it.
\* A nested command that threw never got to defer its events, even if its caller caught
\* that and its writes are committed.
Logged(e) == \E i \in 1..Len(rows) : rows[i].kind = "event" /\ rows[i].of = e
Due(e) ==
    /\ e <= Len(events)
    /\ events[e].timing = "deferred" /\ events[e].by # 0
    /\ invs[events[e].by].write \in {"committed", "adrift"}
    /\ invs[events[e].by].outcome # "threw"
    /\ ~Crashed(invs[events[e].by].req)
DeferredDelivered ==
    \A e \in 1..MaxEvents :
        Due(e) ~> /\ e <= Len(events)
                 /\ \/ events[e].delivered = 1 /\ Logged(e)
                    \/ Crashed(invs[events[e].by].req)

\* Whoever finds a transaction on the thread finds a request id in MDC as well: no
\* command ever runs as a top-level one, with a request, a snapshot and an MDC.clear()
\* of its own, inside the transaction of another, whichever publisher or callback
\* cleared MDC before.
JoinsOrOpens ==
    \A n \in 1..Len(invs) :
        /\ invs[n].joins <=> ~invs[n].opens
        /\ invs[n].joins => invs[n].nested

\* ExternalEventPublisher's comment: the commands that the policies of a published
\* event run all belong to one request.
OneRequestPerPublish ==
    \A m, n \in 1..Len(invs) :
        LET c == invs[m].cause
        IN  c # 0 /\ c = invs[n].cause /\ events[c].by = 0 => invs[m].req = invs[n].req
=============================================================================
