# Verification of domain.util

`domain.util` is a Spring library for applications built from commands, domain
events and policies. A `CommandInvoker` runs a command handler in a transaction,
publishes the events it emitted, and writes an audit trail of the whole chain. A
second half of the library reads the application's bytecode and entities and
serves a documentation of its flows.

This directory holds a TLA+ model of both halves, the TLC runs that check it,
and proofs about six of its modules. Paths below are relative to
`src/src/main/java/com/machingclee/domain/util/`.

## Inventory

| Component | State | Operations | Interacts with |
| --- | --- | --- | --- |
| Command invoker (`common/command/AbstractCommandInvoker`) | request id in MDC, the thread's transaction, handler map | `invoke`, `getFlow` | auditor, dispatcher, audit configuration, sequence |
| Command auditor (`common/command/CustomCommandAuditor`) | none (rows in the database) | `logCommandInTransaction`, `logSuccess`, `logFailure` | audit configuration, sequence |
| Audit configuration (`common/audit/AuditConfiguration`) | handlers, `pendingEvents`, `persistFailure` of each pipeline | `executeCommand`, `executeEvent`, `executeAfterTransaction`, `markCommandResult`, `markEventsFailed` | called by auditor, logger, invoker, on every request thread |
| Domain event logger (`common/event/DomainEventLogger`) | none | the two listeners | called by Spring at once or when a transaction completes |
| Event dispatcher (`common/event/SpringDomainEventDispatcher`) | callbacks registered with the transaction | `dispatch`, its `afterCommit` | logger, policies, MDC |
| External publisher (`common/event/ExternalEventPublisher`) | none | `publish`, `publishTransactional` | logger, policies, MDC |
| Event queue (`common/event/SmartEventQueue`) | the events of one handler | `add...` | handler, dispatcher |
| Request sequence (`common/RequestSequence`) | table of counters, thread-local counter | `next`, `clear`, eviction | all request threads |
| Query invoker (`common/query/DefaultQueryInvoker`) | handler map, registry of query DTOs | `invoke`, `getQueryFlow` | documentation endpoint |
| Documentation endpoint (`controller/DocController`) | none | `GET /commands` | invokers, graphs |
| Entity and service graphs (`common/factory`) | registries of DTOs | `getEntityNodes`, ... | documentation endpoint |
| Scanners of watched calls (`common/bytecodescanner`: policies, events, publications, controllers) | pending type, flag and locals of a method visitor | `scan...` | invokers |
| Scanner of entities (`EntityTypeScanner`, `CascadeEntityResolver`) | queue and sets of a walk over the call graph | `scanEntityTypes` | invoker |
| Auto-configuration, data types | none | | |
| Front end of the documentation (two minified bundles) | | | renders `GET /commands` |

What is hard in it:

* **Nesting.** A policy runs commands inside the publication of an event, inside
  the transaction of a command or after its commit. Whether such a command is
  *nested* is decided by MDC, whether it *joins* by Spring's transaction
  synchronization; publishers and callbacks change the first and not the second.
* **Partial failure.** Handlers, policies, commits, audit saves and audit stamps
  fail separately, each audit write in a transaction of its own.
* **Ordering.** Success is stamped before the commit, POST_COMMIT events are
  published after it, their rows are written at completion.
* **Shared state.** The table of counters, `persistFailure` and the DTO registries
  are shared by request threads.
* **Guessing.** The scanners do not simulate an operand stack; they keep the type
  produced last and decide from it, with a flag and with locals, what a call is given.
  The walk over a handler's call graph has cycles, unreadable methods and a cut.

What makes the components correct: the audit trail tells what became of the work
(invoker, auditor, logger); POST_COMMIT events are delivered once, after the commit
and only then (dispatcher); a chain is one request, numbered without gaps and in
causal order (MDC, sequence); the after-transaction handler sees the whole trail
once (audit configuration); the documentation shows every flow once, each type with
its fields, and the commands, events and entities the code really uses (invokers,
graphs, scanners). `PROJECT.json` lists the hazards by line.

## Modules

| Module | Models |
| --- | --- |
| `RequestSequence` | `RequestSequence`, any number of threads inside `next()` |
| `SpringTransaction` | what the pipeline uses of Spring's transactions (external) |
| `AuditTrail` | the audit rows: database, memory, numbers |
| `CommandInvoker` | `invoke`, dispatcher, logger and publisher, over the two modules above |
| `AuditPipeline` | the row pipelines and the memory of `AuditConfiguration`, several threads |
| `NumberSource` | abstract: an atomic source of numbers, which `RequestSequence` implements |
| `CallScanner` | the method visitors of the four scanners of watched calls |
| `EntityWalk` | `EntityTypeScanner.scanEntityTypes` and `CascadeEntityResolver.expand` |
| `DocRegistry` | documentation requests, the lazy handler map, the DTO registries |
| `MC...` | values of constants for TLC |
| `CommandInvokerProofs` | types of `CommandInvoker`, and what its actions do place by place |
| `CommandChainProofs` | the stack, the transaction, MDC, requests, and where events wait |
| `CommandOutcomeProofs` | outcomes, rows, snapshots, deferred events, order |
| other `...Proofs` | theorems about `RequestSequence`, `AuditPipeline`, `CallScanner`, `EntityWalk`, `DocRegistry` |

Operators named `Bug_...` are mutants: each is a plausible mistake in the action
that its comment names, and no specification uses them.

### RequestSequence

One action per atomic operation of the `ConcurrentHashMap` and the
`AtomicInteger`: `Call` enters `next(requestId)`, then `ComputeIfAbsent`,
`IncrementAndGet`, `CheckSize`, and in an eviction `EvictExcess` (quota and
iterator), `NextKey` and `RemoveKey` for each turn of the loop, `ScanDone`. Counter
objects have an identity (`heap`), because a thread may hold one that is no longer
in the table. The iterator may return keys in any order and miss those inserted
after its creation. `CallBlank` and `Clear` are the thread-local fallback.
`issued` and `evicted` are ghosts. `init()` is not modelled: nothing calls it.

`NumberSource` says what the audit trail relies on: in one atomic step a row gets the
number after the last one of its request. A request that the source has *forgotten*
may get a smaller number again, never one that skips ahead. `RequestSequence`
implements it with `evicted` for `forgotten` (`ImplementsNumberSource`).

### SpringTransaction, AuditTrail, CommandInvoker

One thread. Its call stack is the variable `stack`, with frames for an invocation,
for a loop that publishes events, and for the listeners of one event; `exc` is an
exception on its way up. Handlers and policies are free: they may call the invoker
or a publisher, throw, or catch what a call threw. The steps of an invocation:

| Step | Code (`AbstractCommandInvoker`) | Actions |
| --- | --- | --- |
| entry | 174-202 | `Invoke`: request id, MDC, command row, join or begin |
| `handle` | 200-206, 235-240 | `HandlerReturns`, `HandlerThrows`, `ParticipantFails`, `HandlerCatches` |
| `register` | dispatcher 68-117 | `RegisterDeferred`; the immediate events are a `publish` frame above |
| `stamp` | 215, 244 | `StampSuccess`, `StampSuccessThrows` |
| `commit` | 253-263 | `Commits`, `CommitThrows`, `UnexpectedRollback` |
| `afterCommit` | dispatcher 72-105 | `RunCallback`, `CallbacksDone` |
| `afterCompletion` | logger 112-121 | `LogDeferred`, `Completed` |
| `stampFailure`, `markFailed` | 217-223, 265-279 | `Abort`, `StampFailure`, `MarkEventsFailed`, `FailureStampThrows` |
| `return`, `throw` | 284-302 | `Finish`: snapshot, `clear()`, `MDC.clear()` |

`SpringTransaction` states three facts of Spring that decide much of the rest:
synchronization is still active while `afterCommit` runs; a synchronization
registered during it is not called back by it; transactional listeners run in
`afterCompletion`. Audit writes are REQUIRES_NEW, so they are single steps that no
rollback undoes. A row whose save fails stays in memory only; a row whose payload cannot be
serialised is never built, so it has no number and nothing remembers it. An invocation
keeps what became of its writes: `open` in the running transaction, `committed`,
`rolledBack`, or `adrift` when it joined a transaction that had committed before.
`Crash` forgets all but the database.

The auditor's numbers are taken here from a table without eviction; the table itself
is the subject of `RequestSequence`.

### AuditPipeline

Threads in `Pipeline.execute`, one action per turn of a handler loop and per
access to `persistFailure`, with the handlers' `AuditTx` as constants. A throw of a
REQUIRES_NEW handler is swallowed, so it needs no action; a throw inside the
persist transaction is `PersistThrows`. The transaction manager is bound.

### CallScanner

The application's code is generated instruction by instruction, and the visitor reads
along: `stack` and `slot` are what the running program would hold, `visitor` is what
the scanner keeps. `scanner` picks the visitor; the differences between the four are
three operators (`KeyedByName`, `TracksNew`, `TracksSlots`). One action per kind of
instruction: `New`, `Construct` (the constructor), `Call` and `Statement` (other
calls), `Constant`, `ReadField`, `Store`, `Load`, `Sink` (the watched call),
`NextMethod`. A value is *in place* if it is constructed or built where it is passed,
and *tame* if its arguments also avoid what the visitor mistakes for it (`Confusing`):
a nested `new` or watched call for all four, any call for the scanner of policies,
any load for the scanner of publications. Straight-line code only.

### EntityWalk

A program is a call graph with, per method, the entities it saves and the types it
mentions; it is chosen once. `ScanHandlerClass` is the pass over the handler,
`ScanCallee` one turn of the inner loop, `EndLevel` the outer one, `Finish` the
expansion with children. A method is *open*, *hidden* (a lambda body, an inherited or
abstract method: reached, but nothing is read) or *framework* (never followed). The
queue of a level is a set, since neither order nor duplicates change what is collected.

### DocRegistry

Threads serve documentation requests against one source. `ReadMap`, `Lock`,
`RegisterTypes`, `BuildHandler`, `BuildFails` and `Built` are `getHandlerMap()` and the
list of flows; `RegisterTypes` is what the build itself registers, the types of each
command and of its events, whole, since nobody else is past the gate yet. `Clear`, `DescribeRoot`, `Put`, `DescribeField`, `PutField` and
`EndOfFields` fill a registry, recursively where the code recurses; `BeginCopy` and
`EndCopy` copy it; `Answer` serialises the copy, whose schemas are still those of the
registry. The source is of one of three styles: *kept* (the invoker), *cleared* (the
query invoker), *flat* (entity, service and factory scans). A `LinkedHashMap` that two
threads change at once is undefined behaviour in part: a disturbed `put` leaves any
part of the entries in the hash table and any part in the list that iteration
follows, a disturbed copy throws. A type of the build that is lost in this way is not
registered again, as the map is built once: such a registry never gets warm.

The endpoint calls `getFlow()` four times for each invoker; each call is as one request
here, the last one is the one whose registry is served.

## Runs

Passing runs:

| Run | Bounds | Shows |
| --- | --- | --- |
| `request_sequence` | 2 threads, 3 requests, cap 2, headroom 1, 4 calls | `OrdersGapFreeUnlessEvicted`, `CapRestored`, `CallsReturn`, the refinement `ImplementsNumberSource` |
| `command_invoker` | 3 invocations, 2 events, 1 lost row, 1 crash | the audit and delivery properties, below |
| `command_invoker_faults` | 2 invocations, 2 events, 2 lost rows, external publishers, every fault | what holds even then |
| `audit_pipeline` | 2 threads, 3 rows, 4 row handlers, 2 after-transaction handlers | `ReasonIsOwnUnlessOverlapped`, `RowIsAtomic`, `PostsOnlyAfterCommit`, `SnapshotIsComplete` |
| `call_scanner` | 2 types, 2 methods, 5 places for methods and operands, calls with 1 operand, all four visitors | `TameIsFound`, `OnlyTameIsExact` |
| `entity_walk` | 4 methods, every call graph without self-calls, at most one unreadable, cut at 2 | `ReportIsReal`, `CutAtDepth`, `CompleteUnlessCut`, `WalkEnds` |
| `doc_registry` | 2 threads, 3 requests, 2 types and 1 of a command, 2 commands, three styles | `LoneDocsAreComplete`, `WarmDocsAreComplete`, `ServedFlowsAreWhole`, `RequestsEnd` |

Why these bounds are enough for the cases they are for: three requests with a cap of two
make evictions with two threads evicting at once, own and foreign entries in the way, and
a request re-created after its eviction. Three invocations give a top-level command, a
nested one and either a second level, a sibling, or a following request that reuses
the thread; two events give an immediate and a POST_COMMIT one of one command or
two callbacks in one transaction. In `audit_pipeline` two threads overlap in every way
while a third row runs before, after or besides them. Five places let a method have a
receiver, a waiting `new` and its arguments, or two methods that share a name, and a
value left over from an earlier statement. Four methods with a cut at two give cycles,
a method reached by a short and a long path, and one just behind the cut; the constant
of the code is 5, and nothing depends on it but where the cut is. Three requests on two
threads give two that overlap and a third that meets what they left, or three in which
a put of the first is disturbed by the others.

`call_scanner` is about agreement of scan and truth: nothing tame is missed, and code
that passes only tame values gets no invented entry, whatever a previous statement
left in the visitor. `entity_walk` compares the report with reachability computed as
a least fixed point. In `doc_registry`, a request that nobody overlaps is complete
whatever happened to a cleared registry before, and a kept one is safe once it is warm;
flows are served whole and once although they are read outside the lock.

`command_invoker` checks: `AuditMatchesOutcome` (rows against what became of the work),
`OutcomeIsTruthful` (invoke returns exactly when its transaction committed),
`NoCommitWithoutSuccessRow` (also at the instant of a crash),
`NeverRetroactivelyFailed`, `SnapshotIsTheTrail` and `OneSnapshotPerTopLevel`,
`CausalOrder`, `DeferredOnlyAfterCommit`, `DeferredDelivered`, `OneRequestPerChain`.
Its constants exclude the faults for which the runs below show that these fail.
The snapshot is compared with all rows that were built, also those whose save failed, as
the class comment of `AuditConfiguration` (54-62) says. `AuditMatchesOutcome` lets a write
be `adrift` (see the known limits).
A deferred event counts as delivered when its policies ran and the logger took it up.
`JoinsOrOpens` in `command_invoker_faults` says that MDC and the transaction never
disagree in the dangerous direction.

Runs in which TLC finds a violation; `PROJECT.json` quotes the text that each contradicts:

| Run | Violated | By |
| --- | --- | --- |
| `rolled_back_participant` | `OutcomeIsTruthful` | `UnexpectedRollbackException` swallowed with an empty `exceptionHolder` |
| `deferred_by_deferred` | `DeferredDelivered` | POST_COMMIT event of a command that runs in `afterCommit` |
| `published_chain` | `OneRequestPerPublish` | `MDC.clear()` of a callback inside a published chain |
| `shared_failure` | `ReasonIsOwn` | `persistFailure` shared by threads |
| `policy_arguments` | `InPlaceIsFound` | a call among the arguments of a policy's command replaces the pending type |

Known limits, each behind an exclusion in a property above:

* The eviction of `RequestSequence` may take the counter of a request in flight, whose
  next row is then number 1 again, although the class comment promises 1, 2, 3, ...
  (`OrdersGapFreeUnlessEvicted`).
* A command that a POST_COMMIT policy runs joins the transaction that has just committed
  (`adrift`): nothing commits its writes, although its row is a success and
  `AbstractCommandInvoker` expects "a fresh TX" there (272-274). The counterexample of
  `deferred_by_deferred` goes through such a command.
* `stampCommandSuccess` runs inside the try block of the command, so a throwing
  `logSuccess` rolls the command back, although `README.md:145` says that audit failures
  never abort it (`StampSuccessThrows`, in `command_invoker_faults`).
* `ExternalEventScanner` names `publish(new SomeEvent(...))` as a shape it follows; a
  local among the arguments replaces the pending type (`Confusing`).
* A nested `new` among constructor arguments is taken for the value, by all visitors. A
  value that is built and not passed stays pending and is recorded for the next argument
  the visitor cannot see. Of two overloads only the last is kept. Saves in lambda bodies
  are not read.
* Overlapping documentation requests may get incomplete documentation or an error.

**Fairness.** `RequestSequence`: each thread inside `next()` keeps running (it holds no
lock and waits for nobody); no fairness for making calls. `CommandInvoker`: the
thread of a chain keeps running (`WF_vars(Proceed)`), which assumes that handlers and
policies return; no fairness for calls, faults of participants or crashes. `EntityWalk`: the
loop goes on (`WF(WalkNext)`, one thread, nothing blocks). `DocRegistry`: each request
thread keeps running (`WF(Handle(t))`), which the container does; the monitor of
`getHandlerMap` needs no stronger fairness, as every thread takes it at most once per
request and requests are bounded. `CallsReturn`, `DeferredDelivered`, `WalkEnds` and
`RequestsEnd` need it. All runs but `call_scanner` set `CHECK_DEADLOCK FALSE` because the
bounds let a behaviour end.

## Proofs

`RequestSequenceProofs` proves, for any sets of threads and requests and any cap:

* `TypeCorrect == Spec => []TypeOK`
* `OrdersCorrect == Spec => []OrdersGapFreeUnlessEvicted`
* `NumberingImplemented == Spec => ImplementsNumberSource`
* `CapIsRestored == Spec => []CapRestored`

Assumptions: `RequestsAssumption` (the id that stands for an empty MDC is not a request,
requests are finitely many) and `LimitsAssumption` (the limits are naturals, the cap is
positive), both evaluated by TLC in the run.

`OrdersGapFreeUnlessEvicted` is not inductive: an increment is right only if the
counter a thread holds is the one in the table and stands at the number of orders
issued so far. The invariant `OrderInv` adds `Unshared` (a counter object
belongs to one request, in the table and in the hands of the threads that look it
up) and `Counts` (for a request never evicted, its counter is the one in the
table, and its value is the number of orders issued). Each action keeps
it: `ComputeIfAbsent` creates a counter at 0 only for a request without one, which
has no orders yet unless it was evicted; `IncrementAndGet` raises value and number
together; `RemoveKey` puts the request into `evicted`.

`NumberingImplemented` uses the same invariant: `IncrementAndGet` is an `Issue`,
`RemoveKey` a `Forget`, every other step a stutter. For an evicted request it needs in
addition that no counter a thread can reach stands above the number of orders issued.

`CapIsRestored` says nothing of a table in use, which may well be above the cap, and so
has no invariant on the table alone. `CapInv` says who will bring it back: whenever the
table is above the cap, some thread is in charge. Either it has yet to compare the size
(it holds a counter nobody has used, or has just used one for the first time), or it
scans, no entry was added since its iterator was created, nothing it has visited is left
but the key it spares and the key it is about to remove, and its quota is at least the
excess. That the quota counts removals that another thread was quicker to do costs
nothing: the entry is gone all the same. The cap must be positive, since a scan spares
the key of its own request.

`AuditPipelineProofs` proves all five properties of `AuditPipeline`, for any threads,
kinds and handlers: `PipelineTypeCorrect`, `ReasonsAreOwnUnlessOverlapped`,
`RowsAreAtomic`, `PostsRunAfterCommit` and `SnapshotsAreComplete`. The last one has the
hypothesis `AfterHandlers # 0`, which the code calls for: without an after-transaction
handler `executeAfterTransaction` returns at once, and the rows stay in
`pendingEvents`. The invariant `PipelineInv` says that
a failure in the shared field always has an owner who has still to reset it
(`FieldHeld`), so a thread that enters an empty pipeline finds the field clean; that the
ghost `alone` means what it says (`Alone`); and where the text of a row's own
failure is at each step (`OnItsWay`). `Stages` tells for each stage of an execution, and
each position in a loop over handlers, which handlers have run, and the same for the rows
that are finished; `Remembers` that what is remembered of a request is all its rows but the
one under way, which is the youngest, each once and in order.

`CallScannerProofs` proves `ScannerTypeCorrect`, `TameValuesAreFound` and
`TameScansAreExact`, for classes of any size and each of the four visitors. The
invariant `ScanInv` is a mirror between the truth and the visitor: as long as the
innermost `new`, or the value on top of the stack, is tame, the pending type is its type
and the flag is as it must be.

`EntityWalkProofs` proves `WalkTypeCorrect`, `WalkIsSound`, `WalkIsComplete` and
`WalkIsCutAtDepth`, for any call graph and any depth. For the first three (`WalkInv`): what
is read is reachable, and every callee of what was read is scanned or still queued. The
last one is that of a breadth-first search (`Levels`): what chains of at most `depth` calls
lead to is scanned, and its callees are scanned or in the level; the level is one call
farther, the queue behind it two. Extending and shortening a chain are the lemma
`ChainStep`; no induction over the length of a chain is needed, as a walk that ends
before the cut has read everything by `WalkIsComplete`.

`DocRegistryProofs` proves every safety property of `DocRegistry`, for any number of
threads, any types (recursive ones included), roots, commands and requests:

* `EveryFlowIsServedOnce`. `GateInv` ties the list of flows to the lock: while a
  thread that found the map null builds, what it has listed and what it has still to list
  make up the commands; once the map is set nothing changes the list; a build that cannot
  succeed never sets it.
* `DocTypesAreCorrect`, from `RegistryInv`: what is registered or about to be is a type
  that is expected (the least set with the roots, what the build registers where the
  registry is kept, and the types of its own fields; `BuiltExpected`); a
  schema object is registered under one name, is being filled by at most one
  registration, whose name is that one, and has no more fields than its type; an object
  that a `put` creates is new (`NewObjectIsNew`).
* `WarmDocsKeepComplete`, from `WarmInv`: a warm kept registry never changes. The
  gate lets nobody clear it, no type that is asked for is unknown, and a registration that
  is still filling an object fills a lost one: an object of the registry has all its fields.
* `LoneDocsHeal`, from `LoneInv`: while a request that nobody overlaps fills
  a cleared registry (`Filled`), table and list agree; a registered type is whole or in a
  frame of this request; the types of the fields it has are registered; so are the roots that
  are not left to do. When nothing is left the table is closed, hence the least such set.

The objects of the registry are numbers, and a collected object's number is used again;
that a number is free is a fact about finite sets (`NewObjectIsNew`), which is why
`NewObject` is chosen among one more than there are live objects.

### CommandInvoker

Three modules, each extending the one before, prove every safety property that the runs
check of `CommandInvoker`, for any number of invocations, events, lost rows and crashes:

| Theorem | States | Needs |
| --- | --- | --- |
| `InvokerTypeCorrect` | `TypeOK` | |
| `InvocationJoinsOrOpens` | `JoinsOrOpens` | |
| `ChainKeepsItsRequest` | `OneRequestPerChain` | |
| `NoThrowAfterCommit` | invoke never throws once its own transaction has committed | |
| `CallerIsToldTheTruth` | `OutcomeIsTruthful` | `~ParticipantsFail` |
| `CommittedWorkIsAudited` | `NoCommitWithoutSuccessRow` | |
| `CommittedWorkStaysSuccessful` | `NeverRetroactivelyFailed` | |
| `HandlerRunsOnce` | `OneSnapshotPerTopLevel` | |
| `HandlerGetsTheTrail` | `SnapshotIsTheTrail` | `~StampsFail` |
| `DeferredWaitsForCommit` | `DeferredOnlyAfterCommit` | |
| `OrderFollowsCauses` | of the rows of a request that have one, event_order follows causality and is not shared | |
| `AuditOrderIsCausal` | `CausalOrder` | `Publishes = {}` |
| `AuditTellsTheOutcome` | `AuditMatchesOutcome` | all three |

Most hold with every fault, external publishers and crashes. The three hypotheses are
values of constants that the runs use as well, and TLC finds a counterexample to each
conditional theorem when one of its hypotheses is dropped. A participant that marks the
transaction rollback-only makes invoke return although it was rolled back (run
`rolled_back_participant`). A stamp that throws on the failure path leaves rows called
successful in a chain that failed. And under an external publication, which puts its
request into MDC but opens no transaction, a command is nested yet has a transaction of
its own: when that fails, nobody marks the rows of its events, since only a top-level
command does. Such a publication may also lose its request between two policies (run
`published_chain`); the next command then opens a request and its numbers start anew.

The inductive invariant is built in layers, none of which is inductive without those
before it:

1. `TypeInv` and `RowsExist`: types, and that what a frame or a callback refers to exists.
2. `Shape`: which frame may stand on which, and where an exception may arrive. A frame with
   another one above it waits at one of four steps.
3. `Txn`: at most one invocation on the stack has opened the transaction, the lowest one,
   and its step says in which phase the transaction is.
4. `Mdc`: all invocations on the stack have one request, and MDC holds it, except while
   the one that opened the transaction is past its commit. With `Txn` this is
   `JoinsOrOpens`. Layers 1 to 4 are `ChainInv`.
5. `Emitted`: wherever an event waits (a queue, a publication, a callback, a listener) it is
   handled for the request of the command that emitted it; hence `OneRequestPerChain`.
6. `Apart`, `Untold`, `ToldOnce` (`Once`): an event waits in one place only, and has been
   neither delivered nor recorded before its turn; hence at most once.
7. `Requests`: a request id belongs to one top-level invocation and is never used
   again, and of its invocations only that one opens a transaction.
8. `Writing`: how far an invocation has got says what became of its writes; the writes of a
   transaction are open together and committed together. Layers 1 to 8 without the
   events are `OutcomeInv`; with `CommandRows` and `ReadyRow` (before a commit its row is
   stamped) they give the two theorems on committed work.
9. `Snaps`, `External`, `Ledger`, `Thrown`: as long as a request is live, its numbers are
   ahead of its rows and what `pendingEvents` remembers is all of them that were built, in
   order.
10. `Deferring`: a callback is of commands whose writes are open until the commit and
    committed after it, so nothing is published or recorded before it is final.
11. `Ordered`: a policy hears an event after it has left its list, so that its row comes
    before those of the commands that the policy runs.
12. `StandingTodo`, `StandingFrames`, `TrueRows`: a row that is called successful tells of
    writes that have not been undone, or its request has crashed, or the top-level command is
    failing and about to mark it. Of these, the last case ends before the chain does.

The theorems assume only the named assumptions of the modules (`RequestsAssumption`,
`LimitsAssumption`, `PipelineAssumption`, `ScannerAssumption`, `WalkAssumption`,
`DocAssumption`, `RequestIdsAssumption`, `BoundsAssumption`, `RequestIdsSuffice`), which
TLC evaluates in the runs. The last says that UUIDs do not run out.

Every safety property of a passing run is proved. The liveness properties (`CallsReturn`,
`DeferredDelivered`, `WalkEnds`, `RequestsEnd`) are only model-checked: fairness and ENABLED
are beyond the prover. The runs that expect a violation have no theorem: they show
counterexamples.

## Not modelled

* The override request id of `invoke` and ids set by a servlet filter: both make the
  caller responsible for the request.
* A caller's own `@Transactional` around a top-level `invoke`: the invoker then takes part
  in it and its snapshot precedes the real commit.
* An invoker without an `AuditConfiguration`, for which the snapshot is skipped.
* `Error`s and other throwables that are not exceptions; start-up registration of handlers.
* Texts: failure reasons beyond whose they are, event types, timestamps, payloads.
* Auto-configuration and the data types: no state.
* In the scanners: branches (of a conditional argument the visitor keeps the last arm),
  `addAll`, endpoints and roles (look-ups of annotations), class loading.
* What `buildPolicyFlows` makes of the scanned sets, and the merge of several invokers.
* The front end: minified bundles without a source; all lines but the last of each file
  are third-party libraries.

## Plan

Done: every safety property of every passing run is a theorem for all values of the
constants, and so is the refinement of `NumberSource` by `RequestSequence`.

Left, in this order:

1. An abstract specification of what one command promises to its audit trail (a row that is
   pending, then settled once with the outcome the caller sees), implemented by
   `CommandInvoker`, with the refinement proved from the invariants already there.
2. The hazards without a property: the merging of the policies of several invokers in the
   documentation endpoint, an override that skips the save of the command row, a policy that
   swallows the failure of a nested command.
