----------------------------- MODULE AuditTrail -----------------------------
(***************************************************************************)
(* The audit rows of a process: what the auditor (CustomCommandAuditor),   *)
(* the event logger (DomainEventLogger) and AuditConfiguration's memory of *)
(* a request do to them.  Every operation here is one transaction of its   *)
(* own (REQUIRES_NEW), committed whatever becomes of the business          *)
(* transaction around it.                                                  *)
(*                                                                         *)
(* A row is in the database ("saved", "ok") and in memory ("mem"): the     *)
(* stamps load a managed copy by id and mirror the result onto the row     *)
(* remembered for the after-transaction handler.  A save that failed, or   *)
(* that an override skipped, leaves a row in memory only; a row that could *)
(* not be built (order 0) is nowhere, and kept here to tell whose it was.  *)
(***************************************************************************)
EXTENDS Naturals, Sequences, SequencesExt

CONSTANT RequestIds          \* request ids, naturals from 1
ASSUME RequestIdsAssumption == RequestIds \subseteq Nat \ {0}

VARIABLES
    rows,      \* audit rows in the order they were built
    pending,   \* request -> indices of the rows remembered for it (pendingEvents)
    orders     \* request -> last event_order given (RequestSequence, no eviction)

trail == <<rows, pending, orders>>

\* The rows built for a request, those that have an event_order.
RowsOf(req) == {i \in 1..Len(rows) : rows[i].req = req /\ rows[i].order # 0}

\* Mutant of Record: event_order comes from the rows that reached the database.
Bug_OrderFromSavedRows(kind, of, req, ok, saved) ==
    /\ rows' = Append(rows, [kind |-> kind, of |-> of, req |-> req, saved |-> saved,
                             order |-> 1 + Cardinality({i \in RowsOf(req) : rows[i].saved}),
                             ok |-> ok, mem |-> ok])
    /\ orders' = [orders EXCEPT ![req] = @ + 1]
    /\ pending' = [pending EXCEPT ![req] = Append(@, Len(rows) + 1)]

(***************************************************************************)
(* logCommandInTransaction (ok = FALSE) and persistEventWithPreciseTiming  *)
(* (ok = TRUE): number the row, remember it, save it.  A failing save is   *)
(* swallowed by both callers.  So is a payload that cannot be serialized:  *)
(* then the row (order 0) was never built, and neither the sequence nor    *)
(* the memory knows of it; a command runs on with a row that has no id.    *)
(***************************************************************************)
Record(kind, of, req, ok, saved) ==
    LET row(order) == [kind |-> kind, of |-> of, req |-> req, saved |-> saved,
                       order |-> order, ok |-> ok, mem |-> ok]
    IN  \/ /\ rows' = Append(rows, row(orders[req] + 1))
           /\ orders' = [orders EXCEPT ![req] = @ + 1]
           /\ pending' = [pending EXCEPT ![req] = Append(@, Len(rows) + 1)]
        \/ /\ ~saved
           /\ rows' = Append(rows, row(0))
           /\ UNCHANGED <<pending, orders>>

\* Mutant of Stamp: the result is not mirrored onto the remembered row.
Bug_NoMirror(i, ok) ==
    /\ rows' = IF rows[i].saved THEN [rows EXCEPT ![i].ok = ok] ELSE rows
    /\ UNCHANGED <<pending, orders>>

\* logSuccess / logFailure by id, mirrored by markCommandResult onto the row if it
\* is still remembered.  A row without an id, or not found, is left alone.
Stamp(i, ok) ==
    /\ rows' = IF rows[i].saved
               THEN [rows EXCEPT ![i].ok = ok,
                                 ![i].mem = IF Contains(pending[rows[i].req], i)
                                            THEN ok ELSE @]
               ELSE rows
    /\ UNCHANGED <<pending, orders>>

\* markEventsFailed of the invoker (saved rows of the request) and of
\* AuditConfiguration (remembered rows): every row not already failed.
MarkFailed(req) ==
    /\ rows' = [i \in 1..Len(rows) |->
                   [rows[i] EXCEPT
                       !.ok  = @ /\ ~(rows[i].req = req /\ rows[i].saved),
                       !.mem = @ /\ ~Contains(pending[req], i)]]
    /\ UNCHANGED <<pending, orders>>

\* executeAfterTransaction: the request's rows are handed over and forgotten.
Drain(req) ==
    /\ pending' = [pending EXCEPT ![req] = <<>>]
    /\ UNCHANGED <<rows, orders>>

\* A crash: only the database survives.
Forget ==
    /\ pending' = [r \in RequestIds |-> <<>>]
    /\ orders' = [r \in RequestIds |-> 0]
    /\ UNCHANGED rows

RowType == [kind : {"command", "event"}, of : Nat, req : RequestIds, saved : BOOLEAN,
            order : Nat, ok : BOOLEAN, mem : BOOLEAN]

TrailInit ==
    /\ rows = <<>>
    /\ pending = [r \in RequestIds |-> <<>>]
    /\ orders = [r \in RequestIds |-> 0]

TrailTypeOK ==
    /\ rows \in Seq(RowType)
    /\ orders \in [RequestIds -> Nat]
    /\ pending \in [RequestIds -> Seq(1..Len(rows))]
=============================================================================
