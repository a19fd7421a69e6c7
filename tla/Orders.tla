------------------------------- MODULE Orders -------------------------------
(***************************************************************************)
(* The status column of one order, its audit trail and its refund record,  *)
(* under concurrent staff requests (apps/orders/services.py and the        *)
(* cancellation and resolution paths of apps/returns/services.py).         *)
(*                                                                         *)
(* Every staff request loads the order into memory, validates what it was  *)
(* asked against that copy, and writes in a later transaction.  The        *)
(* database is PostgreSQL at READ COMMITTED: a transaction becomes visible *)
(* when it commits, an UPDATE waits for the holder of the row's lock and   *)
(* then applies to whatever row it finds.  Orders do not interact, so one  *)
(* order is enough; rejected requests write nothing and are left out.      *)
(***************************************************************************)
EXTENDS Naturals, FiniteSets

CONSTANTS
    Requests,    \* the HTTP requests in flight at once (worker slots)
    NoRequest,   \* the value of a free row lock
    Does,        \* which operations each slot is asked for
    Amounts,     \* the refund amounts staff may record
    MaxRows,     \* bound: audit-trail ids handed out
    MaxCrashes   \* bound: requests killed half-way

Operations == {"status", "cancel", "refund"}

ASSUME RequestsAssumption == NoRequest \notin Requests
ASSUME DoesAssumption == Does \in [Requests -> SUBSET Operations]
ASSUME AmountsAssumption == Amounts \subseteq Nat
ASSUME BoundsAssumption == MaxRows \in Nat /\ MaxCrashes \in Nat

VARIABLES
    status,    \* Order.status, "none" until intake creates the row
    refund,    \* Order.refund_amount
    history,   \* the committed OrderStatusHistory rows
    nextId,    \* the id sequence of the OrderStatusHistory table
    lock,      \* who holds the order row FOR UPDATE
    req,       \* what each request is doing, with its in-memory order
    crashes    \* requests killed so far

vars == <<status, refund, history, nextId, lock, req, crashes>>
-----------------------------------------------------------------------------
Statuses == {"pending", "confirmed", "processing", "shipped", "delivered",
             "delivery_failed", "cancelled", "refunded", "returned"}

\* The allowed graph, _ALLOWED_TRANSITIONS.
Allowed(s) ==
    CASE s = "pending"         -> {"confirmed", "cancelled"}
      [] s = "confirmed"       -> {"processing", "shipped", "cancelled", "refunded"}
      [] s = "processing"      -> {"shipped", "cancelled", "refunded"}
      [] s = "shipped"         -> {"delivered", "delivery_failed", "cancelled", "refunded"}
      [] s = "delivery_failed" -> {"processing", "shipped", "cancelled", "refunded"}
      [] s = "delivered"       -> {"returned", "refunded"}
      [] OTHER                 -> {}

\* The targets apply_staff_status refuses.
RefundStates == {"cancelled", "refunded", "returned"}

\* The statuses cancel_confirmed_order accepts.
Cancellable == {"confirmed", "processing"}

Phases == {"idle", "checked", "held", "recorded", "covered", "ready", "inserted"}

Idle == [pc |-> "idle", op |-> "none", mem |-> "none",
         target |-> "none", amount |-> 0, id |-> 0]

Rows == [id : Nat, from : Statuses \cup {"blank"}, to : Statuses]

Busy == {r \in Requests : req[r].pc # "idle"}
-----------------------------------------------------------------------------
Init ==
    /\ status = "none"
    /\ refund = 0
    /\ history = {}
    /\ nextId = 1
    /\ lock = NoRequest
    /\ req = [r \in Requests |-> Idle]
    /\ crashes = 0

\* create_staff_order: the row and its first audit entry, in one transaction.
CreateStaffOrder ==
    /\ status = "none"
    /\ status' = "confirmed"
    /\ history' = {[id |-> nextId, from |-> "blank", to |-> "confirmed"]}
    /\ nextId' = nextId + 1
    /\ UNCHANGED <<refund, lock, req, crashes>>

\* get_order_for_staff: r reads the row without a lock and goes on from its
\* in-memory copy.  A request is admitted while the id bound leaves it a row.
Load(r, op, pc, target, amount) ==
    /\ op \in Does[r]
    /\ req[r].pc = "idle"
    /\ status # "none"
    /\ nextId + Cardinality(Busy) <= MaxRows
    /\ req' = [req EXCEPT ![r] = [pc |-> pc, op |-> op, mem |-> status,
                                  target |-> target, amount |-> amount, id |-> 0]]
    /\ UNCHANGED <<status, refund, history, nextId, lock, crashes>>

\* Mutant of UpdateStatus: the allowed graph is not consulted.
UpdateUnchecked(r) ==
    \E target \in Statuses \ RefundStates : Load(r, "status", "ready", target, 0)

\* OrderStatusUpdateView.post and apply_staff_status, up to transition_order's
\* check: the target is validated against the in-memory status.
UpdateStatus(r) ==
    \E target \in Allowed(status) \ RefundStates :
        Load(r, "status", "ready", target, 0)

\* OrderPreShipmentCancelView.post and the first check of cancel_confirmed_order.
RequestCancel(r) ==
    /\ status \in Cancellable
    /\ \E amount \in Amounts : Load(r, "cancel", "checked", "cancelled", amount)

\* Mutant of LockForCancel: the row is locked and not looked at again.
LockWithoutRecheck(r) ==
    /\ req[r].pc = "checked"
    /\ lock = NoRequest
    /\ lock' = r
    /\ req' = [req EXCEPT ![r].pc = "ready"]
    /\ UNCHANGED <<status, refund, history, nextId, crashes>>

\* select_for_update and the re-check under the lock: the request goes on with
\* the row as it is now, or is rejected.
LockForCancel(r) ==
    /\ req[r].pc = "checked"
    /\ lock = NoRequest
    /\ IF status \in Cancellable
       THEN /\ lock' = r
            /\ req' = [req EXCEPT ![r].pc = "ready", ![r].mem = status]
       ELSE /\ req' = [req EXCEPT ![r] = Idle]
            /\ UNCHANGED lock
    /\ UNCHANGED <<status, refund, history, nextId, crashes>>

\* refund_return_request reads locked.order inside its transaction; a return
\* was only ever opened for an order that had been delivered.
FetchOrder(r) ==
    /\ \E h \in history : h.to = "delivered"
    /\ Load(r, "refund", "held", "none", 0)

\* Mutant of RecordRefund: the amount is taken off what was there.
RecordDifference(r, amount) ==
    /\ req[r].pc = "held"
    /\ lock = NoRequest
    /\ refund' = refund - amount
    /\ req' = [req EXCEPT ![r].pc = "recorded"]
    /\ UNCHANGED <<status, history, nextId, lock, crashes>>

\* It commits the order's refund record: the amount replaces what was there.
RecordRefund(r, amount) ==
    /\ req[r].pc = "held"
    /\ lock = NoRequest
    /\ refund' = amount
    /\ req' = [req EXCEPT ![r].pc = "recorded"]
    /\ UNCHANGED <<status, history, nextId, lock, crashes>>

\* _resolve_order_terminal_state, its first query: with the in-memory order
\* delivered and every line completed it goes on, otherwise it returns.
FindCompleted(r, complete) ==
    /\ req[r].pc = "recorded"
    /\ req' = [req EXCEPT ![r] = IF complete /\ @.mem = "delivered"
                                 THEN [@ EXCEPT !.pc = "covered"]
                                 ELSE Idle]
    /\ UNCHANGED <<status, refund, history, nextId, lock, crashes>>

\* Its second query picks the terminal status.
PickTerminal(r, anyRefunded) ==
    /\ req[r].pc = "covered"
    /\ req' = [req EXCEPT ![r].pc = "ready",
                          ![r].target = IF anyRefunded THEN "refunded" ELSE "returned"]
    /\ UNCHANGED <<status, refund, history, nextId, lock, crashes>>

\* transition_order, first statement: the audit row takes its id and carries
\* the in-memory status; nobody sees it before the commit.
InsertHistory(r) ==
    /\ req[r].pc = "ready"
    /\ req' = [req EXCEPT ![r].pc = "inserted", ![r].id = nextId]
    /\ nextId' = nextId + 1
    /\ UNCHANGED <<status, refund, history, lock, crashes>>

\* Mutant of CommitStatus: the column is saved without its audit row.
CommitColumnOnly(r) ==
    /\ req[r].pc = "inserted"
    /\ lock \in {NoRequest, r}
    /\ status' = req[r].target
    /\ refund' = IF req[r].op = "cancel" THEN req[r].amount ELSE refund
    /\ lock' = NoRequest
    /\ req' = [req EXCEPT ![r] = Idle]
    /\ UNCHANGED <<history, nextId, crashes>>

\* transition_order, second statement and commit: the UPDATE waits for a row
\* lock and then overwrites the column.
CommitStatus(r) ==
    /\ req[r].pc = "inserted"
    /\ lock \in {NoRequest, r}
    /\ status' = req[r].target
    /\ history' = history \cup
           {[id |-> req[r].id, from |-> req[r].mem, to |-> req[r].target]}
    /\ refund' = IF req[r].op = "cancel" THEN req[r].amount ELSE refund
    /\ lock' = NoRequest
    /\ req' = [req EXCEPT ![r] = Idle]
    /\ UNCHANGED <<nextId, crashes>>

\* Mutant of Crash: the row lock outlives its holder.
CrashHoldingLock(r) ==
    /\ req[r].pc # "idle"
    /\ crashes < MaxCrashes
    /\ crashes' = crashes + 1
    /\ req' = [req EXCEPT ![r] = Idle]
    /\ UNCHANGED <<status, refund, history, nextId, lock>>

\* The worker dies: an open transaction is rolled back, its row lock is freed.
Crash(r) ==
    /\ req[r].pc # "idle"
    /\ crashes < MaxCrashes
    /\ crashes' = crashes + 1
    /\ req' = [req EXCEPT ![r] = Idle]
    /\ lock' = IF lock = r THEN NoRequest ELSE lock
    /\ UNCHANGED <<status, refund, history, nextId>>

\* The steps of one request that touch nothing but the order.
StaffStep(r) ==
    \/ UpdateStatus(r) \/ RequestCancel(r) \/ LockForCancel(r)
    \/ InsertHistory(r) \/ CommitStatus(r)

\* The order's part of the refund of a return, whatever the return rows say.
RefundStep(r) ==
    \/ FetchOrder(r)
    \/ \E amount \in Amounts : RecordRefund(r, amount)
    \/ \E b \in BOOLEAN : FindCompleted(r, b) \/ PickTerminal(r, b)

Next ==
    \/ CreateStaffOrder
    \/ \E r \in Requests : StaffStep(r) \/ RefundStep(r) \/ Crash(r)

Spec == Init /\ [][Next]_vars

\* The steps that go on with a request already started.
Continue(r) ==
    \/ LockForCancel(r) \/ InsertHistory(r) \/ CommitStatus(r)
    \/ \E amount \in Amounts : RecordRefund(r, amount)
    \/ \E b \in BOOLEAN : FindCompleted(r, b) \/ PickTerminal(r, b)

\* A worker goes on until its request is answered, and PostgreSQL grants a row
\* lock to its waiters in turn.
Fairness == \A r \in Requests : SF_vars(Continue(r))

FairSpec == Spec /\ Fairness
-----------------------------------------------------------------------------
\* Types of the columns, of the open requests and of the lock.
Working == [pc : Phases, op : Operations \cup {"none"}, mem : Statuses \cup {"none"},
            target : Statuses \cup {"none"}, amount : Nat, id : Nat]

TypeOK ==
    /\ status \in Statuses \cup {"none"}
    /\ refund \in Nat
    /\ history \subseteq Rows
    /\ nextId \in Nat
    /\ lock \in Requests \cup {NoRequest}
    /\ req \in [Requests -> Working]
    /\ crashes \in Nat

\* While cancel_confirmed_order holds the row FOR UPDATE nobody moves the
\* status: the holder is a cancellation, its copy is the row, and the row is
\* still one that may be cancelled.
LockedOrderFrozen ==
    lock # NoRequest =>
        /\ req[lock].op = "cancel"
        /\ req[lock].mem = status
        /\ status \in Cancellable

\* A committed cancellation really started from the status its audit row
\* names, and that status was confirmed or processing, whatever stale status
\* updates and other cancellations run beside it.
CancelIsTruthful ==
    [][\A h \in history' \ history :
          h.to = "cancelled" => h.from = status /\ status \in Cancellable]_vars

\* The column and the trail are written together: a status the order shows is
\* one some audit row moved it to, and no two rows share an id.
ColumnInTrail ==
    /\ status # "none" => \E h \in history : h.to = status
    /\ \A g, h \in history : g.id = h.id => g = h

\* Every request is answered: no request waits for a row lock for ever, also
\* when the holder of the lock dies.
RequestsFinish == \A r \in Requests : req[r].pc # "idle" ~> req[r].pc = "idle"

\* Whatever runs beside whatever, the column and the trail keep the promise of
\* the concurrent ledger: each committed step is an edge of the allowed graph
\* from a status the order really had, with one audit row of its own that
\* names that edge (transition_order).
Ledger == INSTANCE OrderLedger WITH Concurrent <- TRUE

ImplementsLedger == Ledger!Spec

\* Every change of the column is an edge of the allowed graph: "Any status
\* change not listed here is rejected by transition_order".
ChangesAllowed ==
    [][status # "none" => status' = status \/ status' \in Allowed(status)]_vars
=============================================================================
