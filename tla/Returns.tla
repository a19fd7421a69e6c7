------------------------------ MODULE Returns ------------------------------
(***************************************************************************)
(* The return requests of one order (apps/returns/services.py), composed   *)
(* with the order's own state machine.  Approve, receive, reject and close *)
(* read the request without a lock and write later, over whatever the row  *)
(* has become; the refund locks the row and re-checks it, records the      *)
(* refund on the order in the same transaction, and only then, outside the *)
(* lock and the transaction, decides whether the order is finished.        *)
(*                                                                         *)
(* A blank note, a product that may not be returned and a closed           *)
(* cooling-off window reject a request before it writes anything: such     *)
(* requests are left out.  The audit rows of a return are kept as the      *)
(* number of refunds they record.                                          *)
(***************************************************************************)
EXTENDS Orders

CONSTANTS
    Lines,         \* the order's lines
    LineBase,      \* what each line cost, tax included
    GrandTotal,    \* what the order cost
    Fees,          \* restocking fees staff may ask for
    Asks,          \* refund amounts staff may ask for
    Resolutions,   \* the resolutions customers ask for
    Serves,        \* which return operations each slot is asked for
    MaxPerLine,    \* bound: return requests ever opened for a line
    MaxActs        \* bound: return operations started

ReturnOps == {"create", "approve", "receive", "reject", "close"}

ASSUME LinesAssumption == Lines # {} /\ LineBase \in [Lines -> Nat]
ASSUME MoneyAssumption == GrandTotal \in Nat /\ Fees \subseteq Nat /\ Asks \subseteq Nat
ASSUME ResolutionsAssumption == Resolutions \subseteq {"refund", "replacement", "store_credit"}
ASSUME ServesAssumption == Serves \in [Requests -> SUBSET ReturnOps]
ASSUME ReturnBoundsAssumption == MaxPerLine \in Nat \ {0} /\ MaxActs \in Nat

VARIABLES
    ret,       \* the ReturnRequest rows
    retLock,   \* who holds each row FOR UPDATE
    refunds,   \* how many refunds the audit rows of each request record
    act,       \* what each slot is doing to a return, with its in-memory copy
    acts       \* return operations started so far

rvars == <<ret, retLock, refunds, act, acts>>
allVars == <<vars, rvars>>
-----------------------------------------------------------------------------
\* The k-th request ever opened for line l.
Ids == Lines \X (1 .. MaxPerLine)

ReturnStatuses == {"requested", "approved", "item_received", "rejected",
                   "refunded", "replaced", "closed"}

NoReturn == [status |-> "none", resolution |-> "refund", amount |-> 0]

Rest(l) == [pc |-> "idle", op |-> "none", q |-> <<l, 1>>, resolution |-> "refund",
            amount |-> 0]

IdleAct == Rest(CHOOSE l \in Lines : TRUE)

\* The statuses each operation accepts in memory, and the one it writes.
From(op) ==
    CASE op = "approve" -> {"requested"}
      [] op = "receive" -> {"approved"}
      [] op = "reject"  -> {"requested", "approved"}
      [] op = "close"   -> {"requested", "approved", "item_received", "refunded", "replaced"}
      [] OTHER          -> {}

To(op) ==
    CASE op = "approve" -> "approved"
      [] op = "receive" -> "item_received"
      [] op = "reject"  -> "rejected"
      [] OTHER          -> "closed"

\* approve_return_request: what is left of the line after the fee, never more
\* than the order cost; staff may ask for less.
Lesser(a, b) == IF a < b THEN a ELSE b

Approved(l, fee, asked) == Lesser(asked, Lesser(LineBase[l] - fee, GrandTotal))

\* The rows that stand in the way of another live request for q's line: the
\* unique constraint return_one_per_line_not_rejected.
Live(s) == s \notin {"none", "rejected"}

Taken(q) == \E p \in Ids : p # q /\ p[1] = q[1] /\ Live(ret[p].status)

Free(r) == req[r].pc = "idle" /\ act[r].pc = "idle"

\* Mutants of AllCompleted: one completed line is enough, refunded requests are
\* forgotten.
SomeCompleted ==
    \E l \in Lines : \E q \in Ids : q[1] = l /\ ret[q].status \in {"refunded", "replaced"}

AllReplaced == \A l \in Lines : \E q \in Ids : q[1] = l /\ ret[q].status = "replaced"

\* All lines have a completed request (first query of the resolution).
AllCompleted ==
    \A l \in Lines : \E q \in Ids : q[1] = l /\ ret[q].status \in {"refunded", "replaced"}

AnyRefunded == \E q \in Ids : ret[q].status = "refunded"
-----------------------------------------------------------------------------
ReturnsInit ==
    /\ Init
    /\ ret = [q \in Ids |-> NoReturn]
    /\ retLock = [q \in Ids |-> NoRequest]
    /\ refunds = [q \in Ids |-> 0]
    /\ act = [r \in Requests |-> IdleAct]
    /\ acts = 0

\* A slot reads what it works on and validates it; it writes in a later step.
Start(r, op, q, resolution, amount) ==
    /\ op \in Serves[r]
    /\ Free(r)
    /\ acts < MaxActs
    /\ acts' = acts + 1
    /\ act' = [act EXCEPT ![r] = [pc |-> "loaded", op |-> op, q |-> q,
                                  resolution |-> resolution, amount |-> amount]]
    /\ UNCHANGED <<vars, ret, retLock, refunds>>

\* create_return_request, up to its checks: the order it read is delivered and
\* the line has no live request.
OpenReturn(r) ==
    /\ status = "delivered"
    /\ \E q \in Ids, resolution \in Resolutions :
          /\ ret[q].status = "none"
          /\ ~Taken(q)
          /\ Start(r, "create", q, resolution, 0)

\* Its insert: the constraint refuses a second live request for the line; the
\* new row takes the first free number.
InsertReturn(r) ==
    /\ act[r].pc = "loaded" /\ act[r].op = "create"
    /\ LET free == {q \in Ids : q[1] = act[r].q[1] /\ ret[q].status = "none"}
       IN IF free # {} /\ \A q \in free : ~Taken(q)
          THEN \E q \in free :
                  /\ \A p \in free : q[2] <= p[2]
                  /\ ret' = [ret EXCEPT ![q] = [status |-> "requested", amount |-> 0,
                                                resolution |-> act[r].resolution]]
          ELSE UNCHANGED ret
    /\ act' = [act EXCEPT ![r] = IdleAct]
    /\ UNCHANGED <<vars, retLock, refunds, acts>>

\* Mutant of Approve: the fee and the amount left are not checked.
ApproveUnchecked(r) ==
    \E q \in Ids, fee \in Fees, asked \in Asks :
        /\ ret[q].status \in From("approve")
        /\ ret[q].resolution = "refund"
        /\ Start(r, "approve", q, "refund", Approved(q[1], fee, asked))

\* approve_return_request, up to its checks: the amounts are fixed here.
Approve(r) ==
    \E q \in Ids, fee \in Fees, asked \in Asks :
        /\ ret[q].status \in From("approve")
        /\ ret[q].resolution = "refund"
        /\ fee <= LineBase[q[1]]
        /\ Approved(q[1], fee, asked) > 0
        /\ Start(r, "approve", q, "refund", Approved(q[1], fee, asked))

\* record_item_received, reject_return_request and close_return_request, up to
\* their checks.
Handle(r) ==
    \E op \in {"receive", "reject", "close"}, q \in Ids :
        /\ ret[q].status \in From(op)
        /\ Start(r, op, q, ret[q].resolution, 0)

\* Mutant of CommitReturn: the table has no unique constraint.
CommitUnconstrained(r) ==
    LET q == act[r].q
        op == act[r].op
    IN /\ act[r].pc = "loaded" /\ op # "create"
       /\ retLock[q] = NoRequest
       /\ ret' = [ret EXCEPT ![q].status = To(op),
                             ![q].amount = IF op = "approve" THEN act[r].amount ELSE @]
       /\ act' = [act EXCEPT ![r] = IdleAct]
       /\ UNCHANGED <<vars, refunds, retLock, acts>>

\* transition_return_status: the UPDATE waits for the row's lock and writes the
\* columns the operation names over whatever the row has become, unless it
\* would bring back a second live request for the line.
CommitReturn(r) ==
    LET q == act[r].q
        op == act[r].op
    IN /\ act[r].pc = "loaded" /\ op # "create"
       /\ retLock[q] = NoRequest
       /\ ret' = IF Taken(q) /\ Live(To(op)) THEN ret
                 ELSE [ret EXCEPT ![q].status = To(op),
                                  ![q].amount = IF op = "approve" THEN act[r].amount ELSE @]
       /\ act' = [act EXCEPT ![r] = IdleAct]
       /\ UNCHANGED <<vars, retLock, refunds, acts>>

\* Mutants of LockReturn: only an earlier refund is refused; no lock is taken.
LockAnyReturn(r) ==
    \E q \in Ids :
        /\ Free(r)
        /\ retLock[q] = NoRequest
        /\ ret[q].status \notin {"none", "refunded"}
        /\ ret[q].resolution = "refund"
        /\ FetchOrder(r)
        /\ retLock' = [retLock EXCEPT ![q] = r]
        /\ act' = [act EXCEPT ![r].pc = "locked", ![r].op = "refund", ![r].q = q]
        /\ UNCHANGED <<ret, refunds, acts>>

ReadReturn(r) ==
    \E q \in Ids :
        /\ Free(r)
        /\ ret[q].status = "item_received"
        /\ ret[q].resolution = "refund"
        /\ FetchOrder(r)
        /\ act' = [act EXCEPT ![r].pc = "locked", ![r].op = "refund", ![r].q = q]
        /\ UNCHANGED <<ret, retLock, refunds, acts>>

\* refund_return_request, its lock and re-check: anything but a received refund
\* is answered without a write.
LockReturn(r) ==
    \E q \in Ids :
        /\ Free(r)
        /\ retLock[q] = NoRequest
        /\ ret[q].status = "item_received"
        /\ ret[q].resolution = "refund"
        /\ FetchOrder(r)
        /\ retLock' = [retLock EXCEPT ![q] = r]
        /\ act' = [act EXCEPT ![r].pc = "locked", ![r].op = "refund", ![r].q = q]
        /\ UNCHANGED <<ret, refunds, acts>>

\* Its commit: the request is refunded and the order carries the amount.
CommitRefund(r) ==
    LET q == act[r].q
    IN /\ act[r].pc = "locked"
       /\ RecordRefund(r, ret[q].amount)
       /\ ret' = [ret EXCEPT ![q].status = "refunded"]
       /\ refunds' = [refunds EXCEPT ![q] = @ + 1]
       /\ retLock' = [retLock EXCEPT ![q] = NoRequest]
       /\ act' = [act EXCEPT ![r] = IdleAct]
       /\ UNCHANGED acts

\* _resolve_order_terminal_state, after the commit: two queries, each on the
\* rows as committed when it runs.
ResolveOrder(r) ==
    /\ FindCompleted(r, AllCompleted) \/ PickTerminal(r, AnyRefunded)
    /\ UNCHANGED rvars

\* A worker dies.  Return operations that had not written are as if never made.
CrashSlot(r) ==
    /\ Crash(r)
    /\ act' = [act EXCEPT ![r] = IdleAct]
    /\ retLock' = [q \in Ids |-> IF retLock[q] = r THEN NoRequest ELSE retLock[q]]
    /\ UNCHANGED <<ret, refunds, acts>>

ReturnStep(r) ==
    \/ OpenReturn(r) \/ InsertReturn(r) \/ Approve(r) \/ Handle(r) \/ CommitReturn(r)
    \/ LockReturn(r) \/ CommitRefund(r) \/ ResolveOrder(r) \/ CrashSlot(r)

OrderStep ==
    /\ CreateStaffOrder \/ \E r \in Requests : act[r].pc = "idle" /\ StaffStep(r)
    /\ UNCHANGED rvars

ReturnsNext == OrderStep \/ \E r \in Requests : ReturnStep(r)

ReturnsSpec == ReturnsInit /\ [][ReturnsNext]_allVars

\* The steps that go on with what a slot has started.
ContinueReturn(r) ==
    \/ InsertReturn(r) \/ CommitReturn(r) \/ CommitRefund(r) \/ ResolveOrder(r)
    \/ /\ act[r].pc = "idle"
       /\ LockForCancel(r) \/ InsertHistory(r) \/ CommitStatus(r)
       /\ UNCHANGED rvars

\* As for the order: a slot goes on until its request is answered, and row
\* locks are granted in turn.
ReturnsFairness == \A r \in Requests : SF_allVars(ContinueReturn(r))

FairReturnsSpec == ReturnsSpec /\ ReturnsFairness
-----------------------------------------------------------------------------
\* Types of the return rows, their locks and the open return operations.
ReturnRows == [status : ReturnStatuses \cup {"none"}, amount : Nat,
               resolution : Resolutions \cup {"refund"}]

Acting == [pc : {"idle", "loaded", "locked"}, op : ReturnOps \cup {"none", "refund"},
           q : Ids, resolution : Resolutions \cup {"refund"}, amount : Nat]

ReturnsTypeOK ==
    /\ TypeOK
    /\ ret \in [Ids -> ReturnRows]
    /\ retLock \in [Ids -> Requests \cup {NoRequest}]
    /\ refunds \in [Ids -> Nat]
    /\ act \in [Requests -> Acting]
    /\ acts \in Nat

\* A line never has two requests that are open or were resolved, also when a
\* stale approval or receipt lands on a request rejected meanwhile and the
\* line was requested anew (return_one_per_line_not_rejected).
OneLivePerLine ==
    \A p, q \in Ids : p # q /\ p[1] = q[1] => ~(Live(ret[p].status) /\ Live(ret[q].status))

\* While a refund holds a request FOR UPDATE nobody moves it: the request
\* stays received, and its holder is the refund working on it.
LockedReturnFrozen ==
    \A q \in Ids :
        retLock[q] # NoRequest =>
            /\ act[retLock[q]].pc = "locked" /\ act[retLock[q]].q = q
            /\ ret[q].status = "item_received" /\ ret[q].resolution = "refund"

\* A refund is only ever recorded for goods that are in hand when it commits,
\* and what the order then carries is the amount the request was approved for.
RefundIsTruthful ==
    [][\A q \in Ids :
          refunds'[q] # refunds[q] =>
              ret[q].status = "item_received" /\ refund' = ret[q].amount]_allVars

\* An order is finished as refunded or returned only when a refund was
\* recorded for every one of its lines, however resolutions interleave.
TerminalIsCovered ==
    status \in {"refunded", "returned"} =>
        \A l \in Lines : \E q \in Ids : q[1] = l /\ refunds[q] > 0

\* A request records at most one refund: "a duplicated or concurrent staff
\* action can never record two refunds".
OneRefundEach == \A q \in Ids : refunds[q] <= 1

\* An order whose lines are all refunded leaves delivered, in whatever order
\* desks finish: unless a worker died on the way, or a desk closed one of the
\* refunded requests meanwhile (_resolve_order_terminal_state).
LinesRefunded ==
    \A l \in Lines : \E q \in Ids : q[1] = l /\ refunds[q] > 0 /\ ret[q].status = "refunded"

RefundsFinishOrder ==
    crashes = 0 /\ LinesRefunded ~> status # "delivered" \/ crashes > 0 \/ ~LinesRefunded
=============================================================================
