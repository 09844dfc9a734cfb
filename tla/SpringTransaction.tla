------------------------- MODULE SpringTransaction -------------------------
(***************************************************************************)
(* The part of Spring's transaction support that the pipeline relies on,   *)
(* for the one thread that runs a command chain.  External: modelled from  *)
(* how AbstractCommandInvoker, SpringDomainEventDispatcher and             *)
(* DomainEventLogger use it.                                               *)
(*                                                                         *)
(*  - A TransactionTemplate with REQUIRED opens a physical transaction     *)
(*    when the thread has none and takes part in it otherwise.  REQUIRES_  *)
(*    NEW work (the audit rows) commits on its own and leaves no trace     *)
(*    here.                                                                *)
(*  - After the commit, afterCommit() runs on the synchronizations that    *)
(*    were registered by then; what is registered meanwhile is not asked   *)
(*    again.  Synchronization is still active at that time, and so is the  *)
(*    transaction for whoever asks to take part in it.                     *)
(*  - afterCompletion() comes next, with synchronization cleared.  This is *)
(*    when AFTER_COMMIT transactional event listeners run.                 *)
(***************************************************************************)
EXTENDS Naturals, Sequences

VARIABLE tx   \* the physical transaction bound to the thread

\* Phases of the physical transaction.
Phases == {"none", "active", "afterCommit", "afterCompletion"}

NoTx == [phase |-> "none", rollbackOnly |-> FALSE, callbacks |-> <<>>, due |-> 0,
         listeners |-> <<>>]

InTransaction == tx.phase # "none"

\* TransactionSynchronizationManager.isSynchronizationActive()
SynchronizationActive == tx.phase \in {"active", "afterCommit"}

Begin == tx' = [NoTx EXCEPT !.phase = "active"]

\* A participant failed and its transactional proxy marked the transaction.
SetRollbackOnly == tx' = [tx EXCEPT !.rollbackOnly = TRUE]

\* registerSynchronization(callback), for the dispatcher's afterCommit callback.
RegisterCallback(callback) == tx' = [tx EXCEPT !.callbacks = Append(@, callback)]

\* An AFTER_COMMIT transactional listener puts off its event.
DeferListener(e) == tx' = [tx EXCEPT !.listeners = Append(@, e)]

\* doCommit has succeeded; the callbacks known now are the ones that will run.
EnterAfterCommit ==
    tx' = [tx EXCEPT !.phase = "afterCommit", !.due = Len(tx.callbacks)]

NextCallback == Head(tx.callbacks)
CallbackTaken == tx' = [tx EXCEPT !.callbacks = Tail(@), !.due = @ - 1]

EnterAfterCompletion == tx' = [tx EXCEPT !.phase = "afterCompletion", !.callbacks = <<>>]

ListenerTaken == tx' = [tx EXCEPT !.listeners = Tail(@)]

\* Rollback, or the cleanup that ends a committed transaction.
End == tx' = NoTx
=============================================================================
