----------------------------- MODULE OrdersProofs -----------------------------
(***************************************************************************)
(* Orders and Returns, for every set of requests, lines and desks, every   *)
(* assignment of operations and every bound: types, the meaning of the row *)
(* locks, the truth of a committed cancellation, the ledger the orders     *)
(* implement, and refunds that are paid once.                              *)
(***************************************************************************)
EXTENDS Returns, Integers, TLAPS

(***************************************************************************)
(* The life of an order.                                                   *)
(***************************************************************************)
\* What a request carries by the time it writes: a copy of the row, and the
\* status it was asked for or picked.  TypeOK alone is not inductive, it lets
\* a request about to write carry no target.
Carries ==
    \A r \in Requests :
        /\ req[r].pc # "idle" => req[r].mem \in Statuses
        /\ req[r].pc \in {"checked", "ready", "inserted"} => req[r].target \in Statuses

Typed == TypeOK /\ Carries

\* What ties a request to the lock: a cancellation that passed its re-check
\* holds the row, its copy is the row, and only cancellations lead to
\* cancelled.  LockedOrderFrozen alone is not inductive: it says nothing of
\* the request about to take the lock or about to write.
LockInv ==
    /\ \A r \in Requests :
          /\ req[r].op = "cancel" => req[r].pc \in {"checked", "ready", "inserted"}
          /\ req[r].op = "cancel" /\ req[r].pc # "checked" => lock = r
          /\ req[r].pc = "checked" => req[r].op = "cancel" /\ req[r].target = "cancelled"
          /\ req[r].target = "cancelled" => req[r].op = "cancel"
    /\ lock # NoRequest =>
          /\ req[lock].op = "cancel"
          /\ req[lock].mem = status
          /\ req[lock].target = "cancelled"
          /\ req[lock].pc \in {"ready", "inserted"}
          /\ status \in Cancellable
-----------------------------------------------------------------------------
\* Every edge of the allowed graph leads to a status.
LEMMA AllowedStatuses == \A s : Allowed(s) \subseteq Statuses
  BY DEF Allowed, Statuses

\* The statuses the code writes literally are statuses.
LEMMA LiteralStatuses ==
    /\ {"confirmed", "cancelled", "refunded", "returned"} \subseteq Statuses
    /\ Cancellable \subseteq Statuses
    /\ "none" \notin Statuses
  BY DEF Statuses, Cancellable

\* A request in memory, whatever its fields.
LEMMA WorkingRecord ==
    ASSUME NEW pc \in Phases, NEW op \in Operations \cup {"none"},
           NEW mem \in Statuses \cup {"none"}, NEW target \in Statuses \cup {"none"},
           NEW amount \in Nat, NEW id \in Nat
    PROVE  [pc |-> pc, op |-> op, mem |-> mem, target |-> target,
            amount |-> amount, id |-> id] \in Working
  BY DEF Working

\* An idle request is well typed.
LEMMA IdleWorking == Idle \in Working
  BY DEF Idle, Working, Phases

\* Loading an order keeps the types, for each of the three operations.
LEMMA LoadTyped ==
    ASSUME Typed, NEW r \in Requests, NEW op \in Operations, NEW pc \in Phases,
           NEW target \in Statuses \cup {"none"}, NEW amount \in Nat,
           pc \in {"checked", "ready", "inserted"} => target \in Statuses,
           Load(r, op, pc, target, amount)
    PROVE  Typed'
<1>1. status \in Statuses
  BY DEF Load, Typed, TypeOK
<1> DEFINE new == [pc |-> pc, op |-> op, mem |-> status, target |-> target,
                   amount |-> amount, id |-> 0]
<1>2. new \in Working
  BY <1>1, WorkingRecord
<1>3. req' = [req EXCEPT ![r] = new]
  BY DEF Load
<1>4. TypeOK'
  BY <1>2, <1>3 DEF Load, Typed, TypeOK
<1>5. Carries'
  BY <1>1, <1>3 DEF Load, Typed, TypeOK, Carries
<1> QED
  BY <1>4, <1>5 DEF Typed
-----------------------------------------------------------------------------
\* Types, and what a request carries, are kept by every step.
THEOREM TypedStep ==
    /\ Init => Typed
    /\ Typed /\ [Next]_vars => Typed'
<1>1. Init => Typed
  BY BoundsAssumption, IdleWorking DEF Init, Typed, TypeOK, Carries, Idle
<1>2. Typed /\ [Next]_vars => Typed'
  <2> SUFFICES ASSUME Typed, [Next]_vars
               PROVE  Typed'
    OBVIOUS
  <2> USE DEF Typed
  <2>1. CASE CreateStaffOrder
    <3>1. [id |-> nextId, from |-> "blank", to |-> "confirmed"] \in Rows
      BY LiteralStatuses DEF Rows, TypeOK
    <3>2. TypeOK'
      BY <2>1, <3>1, LiteralStatuses DEF CreateStaffOrder, TypeOK
    <3>3. req' = req
      BY <2>1 DEF CreateStaffOrder
    <3>4. Carries'
      BY <3>3 DEF Carries
    <3> QED
      BY <3>2, <3>4
  <2>2. ASSUME NEW r \in Requests, StaffStep(r)
        PROVE  Typed'
    <3>1. CASE UpdateStatus(r)
      <4>1. PICK target \in Allowed(status) \ RefundStates :
                Load(r, "status", "ready", target, 0)
        BY <3>1 DEF UpdateStatus
      <4>2. target \in Statuses
        BY <4>1, AllowedStatuses
      <4> QED
        BY <4>1, <4>2, LoadTyped DEF Operations, Phases
    <3>2. CASE RequestCancel(r)
      <4>1. PICK amount \in Amounts : Load(r, "cancel", "checked", "cancelled", amount)
        BY <3>2 DEF RequestCancel
      <4>2. amount \in Nat /\ "cancelled" \in Statuses
        BY AmountsAssumption, LiteralStatuses
      <4> QED
        BY <4>1, <4>2, LoadTyped DEF Operations, Phases
    <3>3. CASE LockForCancel(r)
      <4>1. CASE status \in Cancellable
        <5>1. /\ [req[r] EXCEPT !.pc = "ready", !.mem = status] \in Working
              /\ status \in Statuses
          BY <4>1, LiteralStatuses DEF Working, Phases, TypeOK
        <5>2. req' = [req EXCEPT ![r] = [@ EXCEPT !.pc = "ready", !.mem = status]]
          BY <3>3, <4>1 DEF LockForCancel, TypeOK, Working
        <5>3. TypeOK'
          BY <3>3, <4>1, <5>1, <5>2 DEF LockForCancel, TypeOK
        <5> QED
          BY <3>3, <5>1, <5>2, <5>3 DEF LockForCancel, TypeOK, Carries, Working
      <4>2. CASE status \notin Cancellable
        BY <3>3, <4>2, IdleWorking DEF LockForCancel, TypeOK, Carries, Idle
      <4> QED
        BY <4>1, <4>2
    <3>4. CASE InsertHistory(r)
      <4>1. [req[r] EXCEPT !.pc = "inserted", !.id = nextId] \in Working
        BY DEF Working, Phases, TypeOK
      <4>2. req' = [req EXCEPT ![r] = [@ EXCEPT !.pc = "inserted", !.id = nextId]]
        BY <3>4 DEF InsertHistory, TypeOK, Working
      <4>3. TypeOK'
        BY <3>4, <4>1, <4>2 DEF InsertHistory, TypeOK
      <4> QED
        BY <3>4, <4>2, <4>3 DEF InsertHistory, TypeOK, Carries, Working
    <3>5. CASE CommitStatus(r)
      <4>1. /\ req[r].mem \in Statuses /\ req[r].target \in Statuses
            /\ req[r].amount \in Nat /\ req[r].id \in Nat
        BY <3>5 DEF CommitStatus, TypeOK, Carries, Working
      <4>2. [id |-> req[r].id, from |-> req[r].mem, to |-> req[r].target] \in Rows
        BY <4>1 DEF Rows
      <4>3. TypeOK'
        BY <3>5, <4>1, <4>2, IdleWorking DEF CommitStatus, TypeOK
      <4> QED
        BY <3>5, <4>3 DEF CommitStatus, TypeOK, Carries, Idle
    <3> QED
      BY <2>2, <3>1, <3>2, <3>3, <3>4, <3>5 DEF StaffStep
  <2>3. ASSUME NEW r \in Requests, RefundStep(r)
        PROVE  Typed'
    <3>1. CASE FetchOrder(r)
      <4>1. Load(r, "refund", "held", "none", 0)
        BY <3>1 DEF FetchOrder
      <4> QED
        BY <4>1, LoadTyped DEF Operations, Phases
    <3>2. ASSUME NEW amount \in Amounts, RecordRefund(r, amount)
          PROVE  Typed'
      BY <3>2, AmountsAssumption DEF RecordRefund, TypeOK, Carries, Working, Phases
    <3>3. ASSUME NEW b \in BOOLEAN, FindCompleted(r, b)
          PROVE  Typed'
      BY <3>3, IdleWorking DEF FindCompleted, TypeOK, Carries, Working, Phases, Idle
    <3>4. ASSUME NEW b \in BOOLEAN, PickTerminal(r, b)
          PROVE  Typed'
      <4> DEFINE t == IF b THEN "refunded" ELSE "returned"
      <4>1. [req[r] EXCEPT !.pc = "ready", !.target = t] \in Working /\ t \in Statuses
        BY LiteralStatuses DEF Working, Phases, TypeOK
      <4>2. req' = [req EXCEPT ![r] = [@ EXCEPT !.pc = "ready", !.target = t]]
        BY <3>4 DEF PickTerminal, TypeOK, Working
      <4>3. TypeOK'
        BY <3>4, <4>1, <4>2 DEF PickTerminal, TypeOK
      <4> QED
        BY <3>4, <4>1, <4>2, <4>3 DEF PickTerminal, TypeOK, Carries, Working
    <3> QED
      BY <2>3, <3>1, <3>2, <3>3, <3>4 DEF RefundStep
  <2>4. ASSUME NEW r \in Requests, Crash(r)
        PROVE  Typed'
    BY <2>4, IdleWorking DEF Crash, TypeOK, Carries, Idle
  <2>5. CASE UNCHANGED vars
    BY <2>5 DEF vars, TypeOK, Carries
  <2> QED
    BY <2>1, <2>2, <2>3, <2>4, <2>5 DEF Next
<1> QED
  BY <1>1, <1>2

\* The columns, the lock and the in-memory requests keep their types (Order,
\* OrderStatusHistory, transition_order).
THEOREM TypeCorrect == Spec => []TypeOK
<1>1. Typed => TypeOK
  BY DEF Typed
<1> QED
  BY <1>1, TypedStep, PTL DEF Spec
-----------------------------------------------------------------------------
\* Loading an order leaves the lock's holder alone.
LEMMA LoadLocked ==
    ASSUME Typed, LockInv, NEW r \in Requests, NEW op \in Operations, NEW pc \in Phases,
           NEW target \in Statuses \cup {"none"}, NEW amount \in Nat,
           op = "cancel" => pc = "checked",
           pc = "checked" => op = "cancel" /\ target = "cancelled",
           target = "cancelled" => op = "cancel",
           Load(r, op, pc, target, amount)
    PROVE  LockInv'
  BY RequestsAssumption DEF Load, Typed, TypeOK, LockInv

\* Every step keeps what LockInv says.
THEOREM LockStep ==
    /\ Init => LockInv
    /\ Typed /\ LockInv /\ [Next]_vars => LockInv'
<1>1. Init => LockInv
  BY DEF Init, LockInv, Idle
<1>2. Typed /\ LockInv /\ [Next]_vars => LockInv'
  <2> SUFFICES ASSUME Typed, LockInv, [Next]_vars
               PROVE  LockInv'
    OBVIOUS
  <2>0. TypeOK /\ \A r \in Requests : req[r] \in Working
    BY DEF Typed, TypeOK
  <2>1. CASE CreateStaffOrder
    BY <2>1, LiteralStatuses DEF CreateStaffOrder, LockInv
  <2>2. ASSUME NEW r \in Requests, StaffStep(r)
        PROVE  LockInv'
    <3>1. CASE UpdateStatus(r)
      <4>1. PICK target \in Allowed(status) \ RefundStates :
                Load(r, "status", "ready", target, 0)
        BY <3>1 DEF UpdateStatus
      <4>2. target \in Statuses /\ target # "cancelled"
        BY <4>1, AllowedStatuses DEF RefundStates
      <4> QED
        BY <4>1, <4>2, LoadLocked DEF Operations, Phases
    <3>2. CASE RequestCancel(r)
      <4>1. PICK amount \in Amounts : Load(r, "cancel", "checked", "cancelled", amount)
        BY <3>2 DEF RequestCancel
      <4>2. amount \in Nat /\ "cancelled" \in Statuses
        BY AmountsAssumption, LiteralStatuses
      <4> QED
        BY <4>1, <4>2, LoadLocked DEF Operations, Phases
    <3>3. CASE LockForCancel(r)
      <4>1. CASE status \in Cancellable
        <5>1. req' = [req EXCEPT ![r] = [@ EXCEPT !.pc = "ready", !.mem = status]]
          BY <3>3, <4>1, <2>0 DEF LockForCancel, TypeOK, Working
        <5>2. /\ lock' = r /\ status' = status /\ lock = NoRequest
              /\ req[r].pc = "checked" /\ req[r].op = "cancel"
              /\ req[r].target = "cancelled"
          BY <3>3, <4>1 DEF LockForCancel, LockInv
        <5> QED
          BY <5>1, <5>2, <4>1, <2>0, RequestsAssumption DEF LockInv, TypeOK, Working
      <4>2. CASE status \notin Cancellable
        BY <3>3, <4>2, <2>0 DEF LockForCancel, LockInv, TypeOK, Idle
      <4> QED
        BY <4>1, <4>2
    <3>4. CASE InsertHistory(r)
      BY <3>4, <2>0 DEF InsertHistory, LockInv, TypeOK, Working
    <3>5. CASE CommitStatus(r)
      BY <3>5, <2>0, RequestsAssumption DEF CommitStatus, LockInv, TypeOK, Working, Idle
    <3> QED
      BY <2>2, <3>1, <3>2, <3>3, <3>4, <3>5 DEF StaffStep
  <2>3. ASSUME NEW r \in Requests, RefundStep(r)
        PROVE  LockInv'
    <3>1. CASE FetchOrder(r)
      <4>1. Load(r, "refund", "held", "none", 0)
        BY <3>1 DEF FetchOrder
      <4> QED
        BY <4>1, LoadLocked DEF Operations, Phases
    <3>2. ASSUME NEW amount \in Amounts, RecordRefund(r, amount)
          PROVE  LockInv'
      BY <3>2, <2>0 DEF RecordRefund, LockInv, TypeOK, Working
    <3>3. ASSUME NEW b \in BOOLEAN, FindCompleted(r, b)
          PROVE  LockInv'
      BY <3>3, <2>0 DEF FindCompleted, LockInv, TypeOK, Working, Idle
    <3>4. ASSUME NEW b \in BOOLEAN, PickTerminal(r, b)
          PROVE  LockInv'
      BY <3>4, <2>0 DEF PickTerminal, LockInv, TypeOK, Working
    <3> QED
      BY <2>3, <3>1, <3>2, <3>3, <3>4 DEF RefundStep
  <2>4. ASSUME NEW r \in Requests, Crash(r)
        PROVE  LockInv'
    BY <2>4, <2>0, RequestsAssumption DEF Crash, LockInv, TypeOK, Idle
  <2>5. CASE UNCHANGED vars
    BY <2>5 DEF vars, LockInv
  <2> QED
    BY <2>1, <2>2, <2>3, <2>4, <2>5 DEF Next
<1> QED
  BY <1>1, <1>2

\* While cancel_confirmed_order holds the row nobody moves the status.
THEOREM LockFreezes == Spec => []LockedOrderFrozen
<1>1. LockInv => LockedOrderFrozen
  BY DEF LockInv, LockedOrderFrozen
<1> QED
  BY <1>1, TypedStep, LockStep, PTL DEF Spec
-----------------------------------------------------------------------------
\* What a step that commits a cancellation says of the status it left.
TruthfulStep ==
    \A h \in history' \ history :
        h.to = "cancelled" => h.from = status /\ status \in Cancellable

\* Only the holder of the lock commits a cancellation, and its copy is the row.
LEMMA CancelStep == Typed /\ LockInv /\ [Next]_vars => [TruthfulStep]_vars
<1> SUFFICES ASSUME Typed, LockInv, [Next]_vars, NEW h \in history' \ history,
                    h.to = "cancelled"
             PROVE  h.from = status /\ status \in Cancellable
  BY DEF TruthfulStep
<1>1. CASE CreateStaffOrder
  BY <1>1 DEF CreateStaffOrder
<1>2. ASSUME NEW r \in Requests, CommitStatus(r)
      PROVE  h.from = status /\ status \in Cancellable
  <2>1. h = [id |-> req[r].id, from |-> req[r].mem, to |-> req[r].target]
    BY <1>2 DEF CommitStatus
  <2>2. req[r].op = "cancel" /\ lock = r
    BY <1>2, <2>1 DEF CommitStatus, LockInv
  <2> QED
    BY <2>1, <2>2, RequestsAssumption DEF LockInv
<1>3. CASE history' = history
  BY <1>3
<1>4. \/ CreateStaffOrder \/ history' = history
      \/ \E r \in Requests : CommitStatus(r)
  BY DEF Next, StaffStep, RefundStep, UpdateStatus, RequestCancel, FetchOrder, Load,
         LockForCancel, RecordRefund, FindCompleted, PickTerminal, InsertHistory,
         Crash, vars
<1> QED
  BY <1>1, <1>2, <1>3, <1>4

\* A committed cancellation tells the truth about the status it left, however
\* many requests run beside it (cancel_confirmed_order, transition_order).
THEOREM CancellationTruthful == Spec => CancelIsTruthful
  BY CancelStep, TypedStep, LockStep, PTL DEF Spec, CancelIsTruthful, TruthfulStep
-----------------------------------------------------------------------------
\* The ids of the trail: below the sequence, never used twice, and the row a
\* request is about to commit already has one of its own.
TrailInv ==
    /\ ColumnInTrail
    /\ status = "none" => history = {}
    /\ \A h \in history : h.id < nextId
    /\ \A r \in Requests :
          req[r].pc = "inserted" =>
              /\ req[r].id < nextId
              /\ \A h \in history : h.id # req[r].id
              /\ \A s \in Requests :
                    s # r /\ req[s].pc = "inserted" => req[s].id # req[r].id

\* Every step keeps the trail's ids apart and the column in the trail.
THEOREM TrailStep ==
    /\ Init => TrailInv
    /\ Typed /\ TrailInv /\ [Next]_vars => TrailInv'
<1>1. Init => TrailInv
  BY DEF Init, TrailInv, ColumnInTrail, Idle
<1>2. Typed /\ TrailInv /\ [Next]_vars => TrailInv'
  <2> SUFFICES ASSUME Typed, TrailInv, [Next]_vars
               PROVE  TrailInv'
    OBVIOUS
  <2>0. /\ nextId \in Nat /\ req \in [Requests -> Working] /\ history \subseteq Rows
        /\ \A h \in history : h.id \in Nat
        /\ \A r \in Requests : req[r] \in Working /\ req[r].id \in Nat
    BY DEF Typed, TypeOK, Working, Rows
  <2>1. CASE CreateStaffOrder
    <3>1. history' = {[id |-> nextId, from |-> "blank", to |-> "confirmed"]}
      BY <2>1 DEF CreateStaffOrder
    <3> QED
      BY <2>1, <3>1, <2>0 DEF CreateStaffOrder, TrailInv, ColumnInTrail
  <2>2. ASSUME NEW r \in Requests, InsertHistory(r)
        PROVE  TrailInv'
    <3>1. req' = [req EXCEPT ![r] = [@ EXCEPT !.pc = "inserted", !.id = nextId]]
      BY <2>2, <2>0 DEF InsertHistory, Working
    <3>2. /\ req'[r].pc = "inserted" /\ req'[r].id = nextId
          /\ \A s \in Requests \ {r} : req'[s] = req[s]
      BY <3>1, <2>0 DEF Working
    <3> QED
      BY <2>2, <3>2, <2>0 DEF InsertHistory, TrailInv, ColumnInTrail
  <2>3. ASSUME NEW r \in Requests, CommitStatus(r)
        PROVE  TrailInv'
    <3> DEFINE row == [id |-> req[r].id, from |-> req[r].mem, to |-> req[r].target]
    <3>1. /\ history' = history \cup {row} /\ status' = req[r].target
          /\ row.id = req[r].id /\ row.to = req[r].target
          /\ req'[r].pc = "idle" /\ nextId' = nextId
          /\ \A s \in Requests \ {r} : req'[s] = req[s]
      BY <2>3, <2>0 DEF CommitStatus, Idle
    <3>2. /\ row.id < nextId /\ \A h \in history : h.id # row.id
          /\ \A s \in Requests \ {r} : req[s].pc = "inserted" => req[s].id # row.id
      BY <2>3, <3>1 DEF CommitStatus, TrailInv
    <3>3. status' # "none"
      BY <2>3, <3>1, LiteralStatuses DEF CommitStatus, Typed, Carries
    <3>4. ColumnInTrail'
      BY <3>1, <3>2 DEF TrailInv, ColumnInTrail
    <3> HIDE DEF row
    <3> QED
      BY <3>1, <3>2, <3>3, <3>4, <2>0 DEF TrailInv
  <2>4. ASSUME UNCHANGED <<status, history, nextId>>,
               \A r \in Requests : req'[r].pc = "inserted" => req'[r] = req[r]
        PROVE  TrailInv'
    BY <2>4, <2>0 DEF TrailInv, ColumnInTrail
  <2>5. ASSUME NEW r \in Requests,
               UpdateStatus(r) \/ RequestCancel(r) \/ FetchOrder(r)
        PROVE  TrailInv'
    <3>1. PICK op \in Operations, pc \in {"ready", "checked", "held"},
              target \in Statuses \cup {"none"}, amount \in Nat :
              Load(r, op, pc, target, amount)
      BY <2>5, AmountsAssumption, AllowedStatuses, LiteralStatuses
         DEF UpdateStatus, RequestCancel, FetchOrder, Operations
    <3> QED
      BY <3>1, <2>4, <2>0 DEF Load
  <2>6. ASSUME NEW r \in Requests, LockForCancel(r) \/ Crash(r)
        PROVE  TrailInv'
    BY <2>6, <2>4, <2>0 DEF LockForCancel, Crash, Idle, Working
  <2>7. ASSUME NEW r \in Requests, NEW amount \in Amounts, RecordRefund(r, amount)
        PROVE  TrailInv'
    BY <2>7, <2>4, <2>0 DEF RecordRefund, Working
  <2>8. ASSUME NEW r \in Requests, NEW b \in BOOLEAN,
               FindCompleted(r, b) \/ PickTerminal(r, b)
        PROVE  TrailInv'
    BY <2>8, <2>4, <2>0 DEF FindCompleted, PickTerminal, Idle, Working
  <2>9. CASE UNCHANGED vars
    BY <2>9, <2>4 DEF vars
  <2> QED
    BY <2>1, <2>2, <2>3, <2>5, <2>6, <2>7, <2>8, <2>9 DEF Next, StaffStep, RefundStep
<1> QED
  BY <1>1, <1>2

\* The column shows a status some audit row moved the order to, and audit rows
\* are told apart by their ids (transition_order, create_staff_order).
THEOREM ColumnIsInTrail == Spec => []ColumnInTrail
<1>1. TrailInv => ColumnInTrail
  BY DEF TrailInv
<1> QED
  BY <1>1, TypedStep, TrailStep, PTL DEF Spec

-----------------------------------------------------------------------------
(***************************************************************************)
(* Orders implements the ledger of its status column and audit trail: the  *)
(* concurrent ledger whatever runs beside whatever, the strict one when    *)
(* requests come one at a time.                                            *)
(***************************************************************************)
Strict == INSTANCE OrderLedger WITH Concurrent <- FALSE

\* A request's copy is a status the order had when it was read, and its target
\* follows that copy in the allowed graph.
MoveInv ==
    \A r \in Requests :
        /\ req[r].pc # "idle" => \E h \in history : h.to = req[r].mem
        /\ req[r].pc \in {"checked", "ready", "inserted"} =>
              req[r].target \in Allowed(req[r].mem)
        /\ req[r].pc = "covered" => req[r].mem = "delivered"

\* At most one request is ever in flight.
Serial == \A r, s \in Requests : r = s

\* With nobody else about, a request's copy is the row, its target follows the
\* row in the allowed graph, and its audit row is the last one.
SerialInv ==
    \A r \in Requests :
        /\ req[r].pc # "idle" => req[r].mem = status
        /\ req[r].pc \in {"checked", "ready", "inserted"} =>
              req[r].target \in Allowed(status)
        /\ req[r].pc = "covered" => status = "delivered"
        /\ req[r].pc = "inserted" => \A h \in history : h.id < req[r].id
-----------------------------------------------------------------------------
\* What a request may cancel, the graph lets it cancel; what was delivered may
\* be refunded or returned.
LEMMA CancelAllowed ==
    /\ \A s \in Cancellable : "cancelled" \in Allowed(s)
    /\ {"refunded", "returned"} \subseteq Allowed("delivered")
  BY DEF Cancellable, Allowed

\* Every step keeps what MoveInv says.
THEOREM MoveStep ==
    /\ Init => MoveInv
    /\ Typed /\ LockInv /\ TrailInv /\ MoveInv /\ [Next]_vars => MoveInv'
<1>1. Init => MoveInv
  BY DEF Init, MoveInv, Idle
<1>2. Typed /\ LockInv /\ TrailInv /\ MoveInv /\ [Next]_vars => MoveInv'
  <2> SUFFICES ASSUME Typed, LockInv, TrailInv, MoveInv, [Next]_vars
               PROVE  MoveInv'
    OBVIOUS
  <2>0. /\ req \in [Requests -> Working]
        /\ \A r \in Requests : req[r] \in Working
        /\ status # "none" => \E h \in history : h.to = status
    BY DEF Typed, TypeOK, TrailInv, ColumnInTrail
  <2>1. CASE CreateStaffOrder
    <3>1. \A r \in Requests : req[r].pc = "idle"
      BY <2>1 DEF CreateStaffOrder, MoveInv, TrailInv
    <3> QED
      BY <2>1, <3>1 DEF CreateStaffOrder, MoveInv
  <2>2. ASSUME NEW r \in Requests, NEW op, NEW pc, NEW target, NEW amount,
               Load(r, op, pc, target, amount), pc # "covered",
               pc \in {"checked", "ready", "inserted"} => target \in Allowed(status)
        PROVE  MoveInv'
    BY <2>2, <2>0 DEF Load, MoveInv
  <2>3. ASSUME NEW r \in Requests, StaffStep(r)
        PROVE  MoveInv'
    <3>1. CASE UpdateStatus(r)
      BY <3>1, <2>2 DEF UpdateStatus
    <3>2. CASE RequestCancel(r)
      BY <3>2, <2>2, CancelAllowed DEF RequestCancel
    <3>3. CASE LockForCancel(r)
      <4>1. CASE status \in Cancellable
        <5>1. req' = [req EXCEPT ![r] = [@ EXCEPT !.pc = "ready", !.mem = status]]
          BY <3>3, <4>1, <2>0 DEF LockForCancel, Working
        <5>2. req'[r].mem = status /\ req'[r].target = "cancelled"
          BY <3>3, <5>1, <2>0 DEF LockForCancel, LockInv, Working
        <5>3. /\ \E h \in history : h.to = status
              /\ "cancelled" \in Allowed(status)
          BY <4>1, <2>0, CancelAllowed, LiteralStatuses
        <5> QED
          BY <3>3, <5>1, <5>2, <5>3, <2>0 DEF LockForCancel, MoveInv, Working
      <4>2. CASE status \notin Cancellable
        BY <3>3, <4>2, <2>0 DEF LockForCancel, MoveInv, Idle
      <4> QED
        BY <4>1, <4>2
    <3>4. CASE InsertHistory(r)
      <4>1. req' = [req EXCEPT ![r] = [@ EXCEPT !.pc = "inserted", !.id = nextId]]
        BY <3>4, <2>0 DEF InsertHistory, Working
      <4> QED
        BY <3>4, <4>1, <2>0 DEF InsertHistory, MoveInv, Working
    <3>5. CASE CommitStatus(r)
      BY <3>5, <2>0 DEF CommitStatus, MoveInv, Idle
    <3> QED
      BY <2>3, <3>1, <3>2, <3>3, <3>4, <3>5 DEF StaffStep
  <2>4. ASSUME NEW r \in Requests, RefundStep(r)
        PROVE  MoveInv'
    <3>1. CASE FetchOrder(r)
      BY <3>1, <2>2 DEF FetchOrder
    <3>2. ASSUME NEW amount \in Amounts, RecordRefund(r, amount)
          PROVE  MoveInv'
      BY <3>2, <2>0 DEF RecordRefund, MoveInv, Working
    <3>3. ASSUME NEW b \in BOOLEAN, FindCompleted(r, b)
          PROVE  MoveInv'
      BY <3>3, <2>0 DEF FindCompleted, MoveInv, Working, Idle
    <3>4. ASSUME NEW b \in BOOLEAN, PickTerminal(r, b)
          PROVE  MoveInv'
      <4> DEFINE t == IF b THEN "refunded" ELSE "returned"
      <4>1. req' = [req EXCEPT ![r] = [@ EXCEPT !.pc = "ready", !.target = t]]
        BY <3>4, <2>0 DEF PickTerminal, Working
      <4>2. req[r].mem = "delivered" /\ t \in Allowed(req[r].mem)
        BY <3>4, CancelAllowed DEF PickTerminal, MoveInv
      <4>3. /\ req'[r].mem = req[r].mem /\ req'[r].target = t /\ req'[r].pc = "ready"
            /\ \A s \in Requests \ {r} : req'[s] = req[s]
            /\ history' = history
        BY <3>4, <4>1, <2>0 DEF PickTerminal, Working
      <4> QED
        BY <3>4, <4>2, <4>3, <2>0 DEF PickTerminal, MoveInv
    <3> QED
      BY <2>4, <3>1, <3>2, <3>3, <3>4 DEF RefundStep
  <2>5. ASSUME NEW r \in Requests, Crash(r)
        PROVE  MoveInv'
    BY <2>5, <2>0 DEF Crash, MoveInv, Idle
  <2>6. CASE UNCHANGED vars
    BY <2>6 DEF vars, MoveInv
  <2> QED
    BY <2>1, <2>3, <2>4, <2>5, <2>6 DEF Next
<1> QED
  BY <1>1, <1>2

\* Every step is a move of the ledger, or leaves column and trail alone.
LEMMA LedgerStep == Typed /\ TrailInv /\ MoveInv /\ [Next]_vars => [Ledger!Next]_(Ledger!vars)
<1> SUFFICES ASSUME Typed, TrailInv, MoveInv, [Next]_vars
             PROVE  Ledger!Next \/ UNCHANGED <<status, history>>
  BY DEF Ledger!vars
<1>1. CASE CreateStaffOrder
  <2> DEFINE row == [id |-> nextId, from |-> "blank", to |-> "confirmed"]
  <2>1. /\ history = {} /\ history' = history \cup {row}
        /\ row = [id |-> row.id, from |-> "blank", to |-> "confirmed"]
    BY <1>1 DEF CreateStaffOrder, TrailInv
  <2>2. Ledger!Append("blank", "confirmed")
    BY <2>1 DEF Ledger!Append
  <2> QED
    BY <1>1, <2>2 DEF CreateStaffOrder, Ledger!Next, Ledger!Place
<1>2. ASSUME NEW r \in Requests, CommitStatus(r)
      PROVE  Ledger!Next
  <2> DEFINE row == [id |-> req[r].id, from |-> req[r].mem, to |-> status']
  <2>1. /\ req[r].target \in Allowed(req[r].mem) /\ req[r].target \in Statuses
        /\ \E h \in history : h.to = req[r].mem
        /\ \A h \in history : h.id # req[r].id
    BY <1>2 DEF CommitStatus, MoveInv, TrailInv, Typed, Carries
  <2>2. /\ status' = req[r].target /\ history' = history \cup {row}
        /\ row = [id |-> row.id, from |-> req[r].mem, to |-> status']
        /\ row.id = req[r].id
    BY <1>2 DEF CommitStatus
  <2>3. Ledger!Append(req[r].mem, status')
    BY <2>1, <2>2 DEF Ledger!Append
  <2>4. req[r].mem \in Ledger!Known
    BY <2>1 DEF Ledger!Known
  <2> QED
    BY <2>1, <2>2, <2>3, <2>4 DEF Ledger!Next, Ledger!Move
<1>3. \/ CreateStaffOrder \/ UNCHANGED <<status, history>>
      \/ \E r \in Requests : CommitStatus(r)
  BY DEF Next, StaffStep, RefundStep, UpdateStatus, RequestCancel, FetchOrder, Load,
         LockForCancel, RecordRefund, FindCompleted, PickTerminal, InsertHistory,
         Crash, vars
<1> QED
  BY <1>1, <1>2, <1>3

\* The column and the trail keep the promise of the concurrent ledger, whatever
\* staff requests run beside each other (transition_order, create_staff_order).
THEOREM OrdersAreALedger == Spec => ImplementsLedger
<1>1. Init => Ledger!Init
  BY DEF Init, Ledger!Init
<1> QED
  BY <1>1, LedgerStep, TypedStep, LockStep, TrailStep, MoveStep, PTL
     DEF Spec, ImplementsLedger, Ledger!Spec
-----------------------------------------------------------------------------
\* Every step of a lone request keeps what SerialInv says.
THEOREM SerialStep ==
    ASSUME Serial
    PROVE  /\ Init => SerialInv
           /\ Typed /\ LockInv /\ TrailInv /\ SerialInv /\ [Next]_vars => SerialInv'
<1>1. Init => SerialInv
  BY DEF Init, SerialInv, Idle
<1>2. Typed /\ LockInv /\ TrailInv /\ SerialInv /\ [Next]_vars => SerialInv'
  <2> SUFFICES ASSUME Typed, LockInv, TrailInv, SerialInv, [Next]_vars
               PROVE  SerialInv'
    OBVIOUS
  <2>0. /\ nextId \in Nat /\ req \in [Requests -> Working]
        /\ \A r \in Requests : req[r] \in Working
    BY DEF Typed, TypeOK
  <2>1. CASE CreateStaffOrder
    <3>1. \A r \in Requests : req[r].pc = "idle"
      BY <2>1, LiteralStatuses DEF CreateStaffOrder, SerialInv, Typed, Carries
    <3> QED
      BY <2>1, <3>1 DEF CreateStaffOrder, SerialInv
  <2>2. ASSUME NEW r \in Requests, StaffStep(r)
        PROVE  SerialInv'
    <3>1. CASE UpdateStatus(r)
      BY <3>1, <2>0 DEF UpdateStatus, Load, SerialInv, Serial
    <3>2. CASE RequestCancel(r)
      BY <3>2, <2>0, CancelAllowed DEF RequestCancel, Load, SerialInv, Serial
    <3>3. CASE LockForCancel(r)
      <4>1. CASE status \in Cancellable
        <5>1. req' = [req EXCEPT ![r] = [@ EXCEPT !.pc = "ready", !.mem = status]]
          BY <3>3, <4>1, <2>0 DEF LockForCancel, Working
        <5> QED
          BY <3>3, <5>1, <2>0 DEF LockForCancel, SerialInv, Serial, Working
      <4>2. CASE status \notin Cancellable
        BY <3>3, <4>2, <2>0 DEF LockForCancel, SerialInv, Serial, Idle
      <4> QED
        BY <4>1, <4>2
    <3>4. CASE InsertHistory(r)
      <4>1. req' = [req EXCEPT ![r] = [@ EXCEPT !.pc = "inserted", !.id = nextId]]
        BY <3>4, <2>0 DEF InsertHistory, Working
      <4>2. /\ req'[r].mem = req[r].mem /\ req'[r].target = req[r].target
            /\ req'[r].pc = "inserted" /\ req'[r].id = nextId
        BY <4>1, <2>0 DEF Working
      <4> QED
        BY <3>4, <4>2 DEF InsertHistory, SerialInv, Serial, TrailInv
    <3>5. CASE CommitStatus(r)
      BY <3>5, <2>0 DEF CommitStatus, SerialInv, Serial, Idle
    <3> QED
      BY <2>2, <3>1, <3>2, <3>3, <3>4, <3>5 DEF StaffStep
  <2>3. ASSUME NEW r \in Requests, RefundStep(r)
        PROVE  SerialInv'
    <3>1. CASE FetchOrder(r)
      BY <3>1, <2>0 DEF FetchOrder, Load, SerialInv, Serial
    <3>2. ASSUME NEW amount \in Amounts, RecordRefund(r, amount)
          PROVE  SerialInv'
      BY <3>2, <2>0 DEF RecordRefund, SerialInv, Serial, Working
    <3>3. ASSUME NEW b \in BOOLEAN, FindCompleted(r, b)
          PROVE  SerialInv'
      BY <3>3, <2>0 DEF FindCompleted, SerialInv, Serial, Working, Idle
    <3>4. ASSUME NEW b \in BOOLEAN, PickTerminal(r, b)
          PROVE  SerialInv'
      <4> DEFINE t == IF b THEN "refunded" ELSE "returned"
      <4>1. req' = [req EXCEPT ![r] = [@ EXCEPT !.pc = "ready", !.target = t]]
        BY <3>4, <2>0 DEF PickTerminal, Working
      <4>2. status = "delivered" /\ t \in Allowed(status)
        BY <3>4, CancelAllowed DEF PickTerminal, SerialInv
      <4> QED
        BY <3>4, <4>1, <4>2, <2>0 DEF PickTerminal, SerialInv, Serial, Working
    <3> QED
      BY <2>3, <3>1, <3>2, <3>3, <3>4 DEF RefundStep
  <2>4. ASSUME NEW r \in Requests, Crash(r)
        PROVE  SerialInv'
    BY <2>4, <2>0 DEF Crash, SerialInv, Serial, Idle
  <2>5. CASE UNCHANGED vars
    BY <2>5 DEF vars, SerialInv
  <2> QED
    BY <2>1, <2>2, <2>3, <2>4, <2>5 DEF Next
<1> QED
  BY <1>1, <1>2

\* A lone request walks the allowed graph and appends one true row a step: the
\* promise of transition_order's docstring, kept when nothing runs beside it.
THEOREM SerialOrdersAreALedger ==
    ASSUME Serial
    PROVE  Spec => Strict!Spec
<1>1. Init => Strict!Init
  BY DEF Init, Strict!Init
<1>2. Typed /\ LockInv /\ TrailInv /\ SerialInv /\ [Next]_vars
        => [Strict!Next]_(Strict!vars)
  <2> SUFFICES ASSUME Typed, LockInv, TrailInv, SerialInv, [Next]_vars
               PROVE  Strict!Next \/ UNCHANGED <<status, history>>
    BY DEF Strict!vars
  <2>1. CASE CreateStaffOrder
    <3> DEFINE row == [id |-> nextId, from |-> "blank", to |-> "confirmed"]
    <3>1. /\ history = {} /\ history' = history \cup {row}
          /\ row = [id |-> row.id, from |-> "blank", to |-> "confirmed"]
      BY <2>1 DEF CreateStaffOrder, TrailInv
    <3>2. Strict!Append("blank", "confirmed")
      BY <3>1 DEF Strict!Append
    <3> QED
      BY <2>1, <3>2 DEF CreateStaffOrder, Strict!Next, Strict!Place
  <2>2. ASSUME NEW r \in Requests, CommitStatus(r)
        PROVE  Strict!Next
    <3>1. /\ req[r].mem = status /\ req[r].target \in Allowed(status)
          /\ \A h \in history : h.id < req[r].id
          /\ req[r].id \in Nat /\ req[r].target \in Statuses
      BY <2>2 DEF CommitStatus, SerialInv, Typed, TypeOK, Carries, Working
    <3> DEFINE row == [id |-> req[r].id, from |-> status, to |-> status']
    <3>2. /\ status' = req[r].target /\ history' = history \cup {row}
          /\ row = [id |-> row.id, from |-> status, to |-> status']
          /\ row.id = req[r].id
      BY <2>2, <3>1 DEF CommitStatus
    <3>3. Strict!Append(status, status')
      BY <3>1, <3>2 DEF Strict!Append
    <3> QED
      BY <3>1, <3>2, <3>3 DEF Strict!Next, Strict!Move, Strict!Known
  <2>3. \/ CreateStaffOrder \/ UNCHANGED <<status, history>>
        \/ \E r \in Requests : CommitStatus(r)
    BY DEF Next, StaffStep, RefundStep, UpdateStatus, RequestCancel, FetchOrder, Load,
           LockForCancel, RecordRefund, FindCompleted, PickTerminal, InsertHistory,
           Crash, vars
  <2> QED
    BY <2>1, <2>2, <2>3
<1> QED
  BY <1>1, <1>2, TypedStep, LockStep, TrailStep, SerialStep, PTL DEF Spec, Strict!Spec

-----------------------------------------------------------------------------
(***************************************************************************)
(* Returns of delivered orders.                                            *)
(***************************************************************************)
\* The shape of the return rows, of their locks and of the slots: what the
\* arguments below need of the types.
Shape ==
    /\ ret \in [Ids -> [status : ReturnStatuses \cup {"none"}, amount : Int,
                        resolution : Resolutions \cup {"refund"}]]
    /\ retLock \in [Ids -> Requests \cup {NoRequest}]
    /\ act \in [Requests -> [pc : {"idle", "loaded", "locked"},
                             op : ReturnOps \cup {"none", "refund"}, q : Ids,
                             resolution : Resolutions \cup {"refund"}, amount : Int]]

\* A locked request and its holder name each other.
HoldersMatch ==
    \A r \in Requests : act[r].pc = "locked" => retLock[act[r].q] = r

ReturnInv ==
    /\ Shape
    /\ OneLivePerLine
    /\ LockedReturnFrozen
    /\ HoldersMatch
-----------------------------------------------------------------------------
\* An idle slot is well typed.
LEMMA Places ==
    /\ IdleAct \in [pc : {"idle", "loaded", "locked"}, op : ReturnOps \cup {"none", "refund"},
                    q : Ids, resolution : Resolutions \cup {"refund"}, amount : Int]
    /\ IdleAct.pc = "idle"
<1>1. (CHOOSE l \in Lines : TRUE) \in Lines
  BY LinesAssumption
<1>2. 1 \in 1 .. MaxPerLine
  BY ReturnBoundsAssumption
<1> DEFINE l == CHOOSE l \in Lines : TRUE
<1>3. <<l, 1>> \in Ids
  BY <1>1, <1>2 DEF Ids
<1> HIDE DEF l
<1> QED
  BY <1>3 DEF IdleAct, Rest, l

\* What approval leaves is an integer (approve_return_request).
LEMMA Approvals ==
    ASSUME NEW l \in Lines, NEW fee \in Fees, NEW asked \in Asks
    PROVE  Approved(l, fee, asked) \in Int
  BY LinesAssumption, MoneyAssumption DEF Approved, Lesser

\* Every operation writes a status of the allowed graph.
LEMMA Targets == \A op : To(op) \in ReturnStatuses
  BY DEF To, ReturnStatuses
-----------------------------------------------------------------------------
\* A slot that starts an operation holds no lock yet and takes none.
LEMMA StartKeeps ==
    ASSUME ReturnInv, NEW r \in Requests, NEW op \in ReturnOps, NEW q \in Ids,
           NEW resolution \in Resolutions \cup {"refund"}, NEW amount \in Int,
           Start(r, op, q, resolution, amount)
    PROVE  ReturnInv'
<1> DEFINE new == [pc |-> "loaded", op |-> op, q |-> q,
                   resolution |-> resolution, amount |-> amount]
<1>1. /\ act[r].pc = "idle" /\ act' = [act EXCEPT ![r] = new]
      /\ ret' = ret /\ retLock' = retLock
  BY DEF Start, Free
<1>2. Shape'
  <2>1. new \in [pc : {"idle", "loaded", "locked"}, op : ReturnOps \cup {"none", "refund"},
                 q : Ids, resolution : Resolutions \cup {"refund"}, amount : Int]
    OBVIOUS
  <2> QED
    BY <1>1, <2>1 DEF ReturnInv, Shape
<1>3. /\ act'[r].pc = "loaded"
      /\ \A s \in Requests \ {r} : act'[s] = act[s]
  <2>1. act \in [Requests -> {act[s] : s \in Requests}]
    BY DEF ReturnInv, Shape
  <2>2. act'[r] = new
    BY <1>1, <2>1
  <2>3. \A s \in Requests \ {r} : act'[s] = act[s]
    BY <1>1, <2>1
  <2> QED
    BY <2>2, <2>3
<1>4. LockedReturnFrozen'
  BY <1>1, RequestsAssumption DEF ReturnInv, Shape, LockedReturnFrozen
<1>5. HoldersMatch'
  BY <1>1, <1>3 DEF ReturnInv, HoldersMatch
<1>6. OneLivePerLine'
  BY <1>1 DEF ReturnInv, OneLivePerLine
<1> QED
  BY <1>2, <1>4, <1>5, <1>6 DEF ReturnInv

\* A write to one unlocked request that brings no second live one.
LEMMA WriteKeeps ==
    ASSUME ReturnInv, NEW r \in Requests, NEW q \in Ids,
           NEW new \in [status : ReturnStatuses \cup {"none"}, amount : Int,
                        resolution : Resolutions \cup {"refund"}],
           act[r].pc = "loaded", retLock[q] = NoRequest,
           Live(new.status) => ~Taken(q),
           ret' = [ret EXCEPT ![q] = new], act' = [act EXCEPT ![r] = IdleAct],
           retLock' = retLock
    PROVE  ReturnInv'
<1>1. Shape'
  BY Places DEF ReturnInv, Shape
<1>2. \A p \in Ids : retLock[p] # NoRequest => retLock[p] \in Requests \ {r} /\ p # q
  BY DEF ReturnInv, Shape, LockedReturnFrozen
<1>3. LockedReturnFrozen'
  BY <1>2 DEF ReturnInv, Shape, LockedReturnFrozen
<1>4. HoldersMatch'
  BY Places DEF ReturnInv, Shape, HoldersMatch
<1>5. OneLivePerLine'
  <2> SUFFICES ASSUME NEW a \in Ids, NEW b \in Ids, a # b, a[1] = b[1],
                      Live(ret'[a].status), Live(ret'[b].status)
               PROVE  FALSE
    BY DEF OneLivePerLine, Live
  <2>1. CASE a # q /\ b # q
    BY <2>1 DEF ReturnInv, Shape, OneLivePerLine
  <2>2. CASE a = q
    BY <2>2 DEF ReturnInv, Shape, Taken
  <2>3. CASE b = q
    BY <2>3 DEF ReturnInv, Shape, Taken
  <2> QED
    BY <2>1, <2>2, <2>3
<1> QED
  BY <1>1, <1>3, <1>4, <1>5 DEF ReturnInv
-----------------------------------------------------------------------------
\* Every step keeps live requests apart and locked requests still.
THEOREM ReturnStepKeeps ==
    /\ ReturnsInit => ReturnInv
    /\ ReturnInv /\ [ReturnsNext]_allVars => ReturnInv'
<1>1. ReturnsInit => ReturnInv
  BY Places DEF ReturnsInit, ReturnInv, Shape, OneLivePerLine, LockedReturnFrozen,
                HoldersMatch, NoReturn, Live
<1>2. ReturnInv /\ [ReturnsNext]_allVars => ReturnInv'
  <2> SUFFICES ASSUME ReturnInv, [ReturnsNext]_allVars
               PROVE  ReturnInv'
    OBVIOUS
  <2>1. ASSUME UNCHANGED <<ret, retLock, act>>
        PROVE  ReturnInv'
    BY <2>1 DEF ReturnInv, Shape, OneLivePerLine, LockedReturnFrozen, HoldersMatch, Live
  <2>2. CASE OrderStep \/ UNCHANGED allVars
    BY <2>1, <2>2 DEF OrderStep, allVars, rvars
  <2>3. ASSUME NEW r \in Requests, OpenReturn(r)
        PROVE  ReturnInv'
    BY <2>3, StartKeeps DEF OpenReturn, ReturnOps
  <2>4. ASSUME NEW r \in Requests, InsertReturn(r)
        PROVE  ReturnInv'
    <3>1. /\ act[r].pc = "loaded" /\ act' = [act EXCEPT ![r] = IdleAct]
          /\ retLock' = retLock /\ act[r].resolution \in Resolutions \cup {"refund"}
      BY <2>4 DEF InsertReturn, ReturnInv, Shape
    <3>2. CASE ret' = ret
      <4>1. LockedReturnFrozen' /\ HoldersMatch'
        BY <3>1, <3>2, Places DEF ReturnInv, Shape, LockedReturnFrozen, HoldersMatch
      <4>2. Shape' /\ OneLivePerLine'
        BY <3>1, <3>2, Places DEF ReturnInv, Shape, OneLivePerLine, Live
      <4> QED
        BY <4>1, <4>2 DEF ReturnInv
    <3>3. CASE ret' # ret
      <4> DEFINE new == [status |-> "requested", amount |-> 0,
                         resolution |-> act[r].resolution]
      <4>1. PICK q \in Ids :
                /\ ret[q].status = "none" /\ ~Taken(q)
                /\ ret' = [ret EXCEPT ![q] = new]
        BY <2>4, <3>3 DEF InsertReturn
      <4>2. new \in [status : ReturnStatuses \cup {"none"}, amount : Int,
                     resolution : Resolutions \cup {"refund"}]
        BY <3>1 DEF ReturnStatuses
      <4>3. retLock[q] = NoRequest
        BY <4>1 DEF ReturnInv, LockedReturnFrozen
      <4> QED
        BY <3>1, <4>1, <4>2, <4>3, WriteKeeps
    <3> QED
      BY <3>2, <3>3
  <2>5. ASSUME NEW r \in Requests, Approve(r)
        PROVE  ReturnInv'
    <3>1. PICK q \in Ids, fee \in Fees, asked \in Asks :
              Start(r, "approve", q, "refund", Approved(q[1], fee, asked))
      BY <2>5 DEF Approve
    <3>2. q[1] \in Lines
      BY DEF Ids
    <3> QED
      BY <3>1, <3>2, Approvals, StartKeeps DEF ReturnOps
  <2>6. ASSUME NEW r \in Requests, Handle(r)
        PROVE  ReturnInv'
    <3>1. PICK op \in {"receive", "reject", "close"}, q \in Ids :
              Start(r, op, q, ret[q].resolution, 0)
      BY <2>6 DEF Handle
    <3>2. ret[q].resolution \in Resolutions \cup {"refund"}
      BY DEF ReturnInv, Shape
    <3> QED
      BY <3>1, <3>2, StartKeeps DEF ReturnOps
  <2>7. ASSUME NEW r \in Requests, CommitReturn(r)
        PROVE  ReturnInv'
    <3> DEFINE q == act[r].q
               op == act[r].op
               a == IF op = "approve" THEN act[r].amount ELSE ret[q].amount
               new == IF Taken(q) /\ Live(To(op)) THEN ret[q]
                      ELSE [ret[q] EXCEPT !.status = To(op), !.amount = a]
    <3>1. /\ q \in Ids /\ ret[q].amount \in Int /\ act[r].amount \in Int
          /\ ret[q] \in [status : ReturnStatuses \cup {"none"}, amount : Int,
                         resolution : Resolutions \cup {"refund"}]
          /\ ret = [ret EXCEPT ![q] = ret[q]]
      BY DEF ReturnInv, Shape
    <3>2. /\ act[r].pc = "loaded" /\ act' = [act EXCEPT ![r] = IdleAct]
          /\ retLock' = retLock /\ retLock[q] = NoRequest
      BY <2>7 DEF CommitReturn
    <3>3. CASE Taken(q) /\ Live(To(op))
      <4>1. ret' = ret
        BY <2>7, <3>3 DEF CommitReturn
      <4>2. Live(ret[q].status) => ~Taken(q)
        BY <3>1 DEF ReturnInv, OneLivePerLine, Taken
      <4> QED
        BY <3>1, <3>2, <4>1, <4>2, WriteKeeps
    <3>4. CASE ~(Taken(q) /\ Live(To(op)))
      <4>1. new = [ret[q] EXCEPT !.status = To(op), !.amount = a]
        BY <3>4
      <4>2. ret' = [ret EXCEPT ![q] = new]
        BY <2>7, <3>1, <3>4 DEF CommitReturn
      <4>3. /\ new.status = To(op)
            /\ new \in [status : ReturnStatuses \cup {"none"}, amount : Int,
                        resolution : Resolutions \cup {"refund"}]
        BY <3>1, <4>1, Targets
      <4>4. Live(new.status) => ~Taken(q)
        BY <3>4, <4>3
      <4> HIDE DEF new, q
      <4> QED
        BY <3>1, <3>2, <4>2, <4>3, <4>4, WriteKeeps
    <3> QED
      BY <3>3, <3>4
  <2>8. ASSUME NEW r \in Requests, LockReturn(r)
        PROVE  ReturnInv'
    <3>0. PICK q \in Ids :
              /\ act[r].pc = "idle" /\ retLock[q] = NoRequest /\ ret' = ret
              /\ ret[q].status = "item_received" /\ ret[q].resolution = "refund"
              /\ retLock' = [retLock EXCEPT ![q] = r]
              /\ act' = [act EXCEPT ![r].pc = "locked", ![r].op = "refund", ![r].q = q]
      BY <2>8, Zenon DEF LockReturn, Free
    <3>1. /\ act[r].pc = "idle" /\ retLock[q] = NoRequest /\ ret' = ret
          /\ ret[q].status = "item_received" /\ ret[q].resolution = "refund"
          /\ retLock' = [retLock EXCEPT ![q] = r]
          /\ act' = [act EXCEPT ![r] = [@ EXCEPT !.pc = "locked", !.op = "refund", !.q = q]]
      BY <3>0 DEF ReturnInv, Shape
    <3>2. /\ act'[r].pc = "locked" /\ act'[r].q = q
          /\ \A s \in Requests \ {r} : act'[s] = act[s]
          /\ retLock'[q] = r /\ \A p \in Ids \ {q} : retLock'[p] = retLock[p]
      BY <3>1 DEF ReturnInv, Shape
    <3>3. Shape'
      BY <3>1 DEF ReturnInv, Shape
    <3>4. LockedReturnFrozen'
      BY <3>1, <3>2 DEF ReturnInv, Shape, LockedReturnFrozen
    <3>5. HoldersMatch'
      BY <3>1, <3>2, RequestsAssumption DEF ReturnInv, Shape, HoldersMatch
    <3>6. OneLivePerLine'
      BY <3>1 DEF ReturnInv, OneLivePerLine, Live
    <3> QED
      BY <3>3, <3>4, <3>5, <3>6 DEF ReturnInv
  <2>9. ASSUME NEW r \in Requests, CommitRefund(r)
        PROVE  ReturnInv'
    <3> DEFINE q == act[r].q
    <3>1. /\ q \in Ids /\ retLock[q] = r /\ ret[q].status = "item_received"
      BY <2>9, RequestsAssumption
         DEF CommitRefund, ReturnInv, Shape, HoldersMatch, LockedReturnFrozen
    <3>2. /\ ret' = [ret EXCEPT ![q] = [@ EXCEPT !.status = "refunded"]]
          /\ retLock' = [retLock EXCEPT ![q] = NoRequest]
          /\ act' = [act EXCEPT ![r] = IdleAct] /\ act[r].pc = "locked"
      BY <2>9, <3>1 DEF CommitRefund, ReturnInv, Shape
    <3>3. Shape'
      BY <3>1, <3>2, Places DEF ReturnInv, Shape, ReturnStatuses
    <3>4. LockedReturnFrozen'
      BY <3>1, <3>2, RequestsAssumption DEF ReturnInv, Shape, LockedReturnFrozen
    <3>5. HoldersMatch'
      BY <3>1, <3>2, Places DEF ReturnInv, Shape, HoldersMatch
    <3>6. \A p \in Ids : Live(ret'[p].status) = Live(ret[p].status)
      BY <3>1, <3>2 DEF ReturnInv, Shape, Live
    <3>7. OneLivePerLine'
      BY <3>6 DEF ReturnInv, OneLivePerLine, Live
    <3> QED
      BY <3>3, <3>4, <3>5, <3>7 DEF ReturnInv
  <2>10. ASSUME NEW r \in Requests, ResolveOrder(r)
         PROVE  ReturnInv'
    BY <2>1, <2>10 DEF ResolveOrder, rvars
  <2>11. ASSUME NEW r \in Requests, CrashSlot(r)
         PROVE  ReturnInv'
    <3>1. /\ ret' = ret /\ act' = [act EXCEPT ![r] = IdleAct]
          /\ retLock' = [q \in Ids |-> IF retLock[q] = r THEN NoRequest ELSE retLock[q]]
      BY <2>11 DEF CrashSlot
    <3>2. Shape'
      BY <3>1, Places DEF ReturnInv, Shape
    <3>3. LockedReturnFrozen'
      BY <3>1, RequestsAssumption DEF ReturnInv, Shape, LockedReturnFrozen
    <3>4. HoldersMatch'
      BY <3>1, Places DEF ReturnInv, Shape, HoldersMatch
    <3>5. OneLivePerLine'
      BY <3>1 DEF ReturnInv, OneLivePerLine, Live
    <3> QED
      BY <3>2, <3>3, <3>4, <3>5 DEF ReturnInv
  <2> QED
    BY <2>2, <2>3, <2>4, <2>5, <2>6, <2>7, <2>8, <2>9, <2>10, <2>11
       DEF ReturnsNext, ReturnStep
<1> QED
  BY <1>1, <1>2

\* A line never carries two live requests, whatever stale write lands on
\* which row (return_one_per_line_not_rejected, create_return_request).
THEOREM LinesReturnOnce == ReturnsSpec => []OneLivePerLine
<1>1. ReturnInv => OneLivePerLine
  BY DEF ReturnInv
<1> QED
  BY <1>1, ReturnStepKeeps, PTL DEF ReturnsSpec

\* A request that a refund holds FOR UPDATE stays received until it commits
\* (refund_return_request).
THEOREM LockedReturnsStay == ReturnsSpec => []LockedReturnFrozen
<1>1. ReturnInv => LockedReturnFrozen
  BY DEF ReturnInv
<1> QED
  BY <1>1, ReturnStepKeeps, PTL DEF ReturnsSpec
-----------------------------------------------------------------------------
\* A refund that is recorded holds its request, so the goods are in hand and the
\* order carries the request's amount (refund_return_request).
THEOREM RefundsTruthful == ReturnsSpec => RefundIsTruthful
<1> DEFINE Truthful ==
      \A q \in Ids : refunds'[q] # refunds[q] =>
          ret[q].status = "item_received" /\ refund' = ret[q].amount
<1>1. ReturnInv /\ refunds \in [Ids -> Nat] /\ [ReturnsNext]_allVars => [Truthful]_allVars
  <2> SUFFICES ASSUME ReturnInv, refunds \in [Ids -> Nat], [ReturnsNext]_allVars,
                      NEW q \in Ids, refunds'[q] # refunds[q]
               PROVE  ret[q].status = "item_received" /\ refund' = ret[q].amount
    OBVIOUS
  <2>1. PICK r \in Requests : CommitRefund(r)
    BY DEF ReturnsNext, ReturnStep, OrderStep, OpenReturn, InsertReturn, Approve, Handle, Start,
           CommitReturn, LockReturn, ResolveOrder, CrashSlot, rvars, allVars
  <2>2. act[r].q = q /\ act[r].pc = "locked" /\ refund' = ret[q].amount
    BY <2>1 DEF CommitRefund, RecordRefund
  <2> QED
    BY <2>2, RequestsAssumption DEF ReturnInv, Shape, HoldersMatch, LockedReturnFrozen
<1>2. ReturnsInit => refunds \in [Ids -> Nat]
  BY DEF ReturnsInit
<1>3. ReturnInv /\ refunds \in [Ids -> Nat] /\ [ReturnsNext]_allVars => (refunds \in [Ids -> Nat])'
  <2> SUFFICES ASSUME ReturnInv, refunds \in [Ids -> Nat], [ReturnsNext]_allVars,
                      refunds' # refunds
               PROVE  refunds' \in [Ids -> Nat]
    OBVIOUS
  <2>1. PICK r \in Requests : CommitRefund(r)
    BY DEF ReturnsNext, ReturnStep, OrderStep, OpenReturn, InsertReturn, Approve, Handle, Start,
           CommitReturn, LockReturn, ResolveOrder, CrashSlot, rvars, allVars
  <2>2. act[r].q \in Ids
    BY DEF ReturnInv, Shape
  <2> QED
    BY <2>1, <2>2 DEF CommitRefund
<1> QED
  BY <1>1, <1>2, <1>3, ReturnStepKeeps, PTL DEF ReturnsSpec, RefundIsTruthful
-----------------------------------------------------------------------------
\* Amounts are never negative, and the counters are counters: what ReturnsTypeOK
\* adds to Shape.
Counts ==
    /\ refunds \in [Ids -> Nat] /\ acts \in Nat
    /\ \A q \in Ids : ret[q].amount \in Nat
    /\ \A r \in Requests : act[r].amount \in Nat

\* Every step keeps the order's types and the counts (approve_return_request
\* refuses what is not positive).
THEOREM CountsKept ==
    /\ ReturnsInit => Typed /\ Counts
    /\ ReturnInv /\ Typed /\ Counts /\ [ReturnsNext]_allVars => Typed' /\ Counts'
<1>1. ReturnsInit => Typed /\ Counts
  <2> SUFFICES ASSUME ReturnsInit PROVE Typed /\ Counts
    OBVIOUS
  <2>1. Typed
    BY TypedStep DEF ReturnsInit
  <2>2. Counts
    BY DEF ReturnsInit, Counts, NoReturn, IdleAct, Rest
  <2> QED
    BY <2>1, <2>2
<1>2. ReturnInv /\ Typed /\ Counts /\ [ReturnsNext]_allVars => Typed' /\ Counts'
  <2> SUFFICES ASSUME ReturnInv, Typed, Counts, [ReturnsNext]_allVars
               PROVE  Typed' /\ Counts'
    OBVIOUS
  <2>0. /\ Shape /\ IdleAct.amount = 0
        /\ refunds \in [Ids -> Nat] /\ acts \in Nat
        /\ \A q \in Ids : ret[q].amount \in Nat
        /\ \A r \in Requests : act[r].amount \in Nat
    BY DEF ReturnInv, Counts, IdleAct, Rest
  <2>1. ASSUME [Next]_vars PROVE Typed'
    BY <2>1, TypedStep
  <2>2. ASSUME UNCHANGED <<ret, refunds, acts, act>> PROVE Counts'
    BY <2>2 DEF Counts
  <2>3. ASSUME NEW r \in Requests, NEW op \in ReturnOps, NEW q \in Ids,
               NEW resolution \in Resolutions \cup {"refund"}, NEW amount \in Nat,
               Start(r, op, q, resolution, amount)
        PROVE  Typed' /\ Counts'
    <3>1. /\ UNCHANGED vars /\ UNCHANGED <<ret, refunds>> /\ acts' = acts + 1
          /\ act' = [act EXCEPT ![r] = [pc |-> "loaded", op |-> op, q |-> q,
                                        resolution |-> resolution, amount |-> amount]]
      BY <2>3 DEF Start
    <3>2. \A s \in Requests : act'[s].amount \in Nat
      BY <2>0, <3>1 DEF Shape
    <3> QED
      BY <2>0, <2>1, <3>1, <3>2 DEF Counts
  <2>4. CASE OrderStep \/ UNCHANGED allVars
    <3>1. [Next]_vars /\ UNCHANGED rvars
      BY <2>4 DEF OrderStep, Next, allVars
    <3> QED
      BY <2>1, <2>2, <3>1 DEF rvars
  <2>5. ASSUME NEW r \in Requests, OpenReturn(r)
        PROVE  Typed' /\ Counts'
    BY <2>3, <2>5 DEF OpenReturn, ReturnOps
  <2>6. ASSUME NEW r \in Requests, Approve(r)
        PROVE  Typed' /\ Counts'
    <3>1. PICK q \in Ids, fee \in Fees, asked \in Asks :
              /\ Approved(q[1], fee, asked) > 0
              /\ Start(r, "approve", q, "refund", Approved(q[1], fee, asked))
      BY <2>6 DEF Approve
    <3>2. q[1] \in Lines
      BY DEF Ids
    <3>3. Approved(q[1], fee, asked) \in Nat
      BY <3>1, <3>2, Approvals
    <3> QED
      BY <2>3, <3>1, <3>3 DEF ReturnOps
  <2>7. ASSUME NEW r \in Requests, Handle(r)
        PROVE  Typed' /\ Counts'
    <3>1. PICK op \in {"receive", "reject", "close"}, q \in Ids :
              Start(r, op, q, ret[q].resolution, 0)
      BY <2>7 DEF Handle
    <3>2. ret[q].resolution \in Resolutions \cup {"refund"}
      BY <2>0 DEF Shape
    <3> QED
      BY <2>3, <3>1, <3>2 DEF ReturnOps
  <2>8. ASSUME NEW r \in Requests, InsertReturn(r)
        PROVE  Typed' /\ Counts'
    <3>1. /\ UNCHANGED vars /\ UNCHANGED <<refunds, acts>>
          /\ act' = [act EXCEPT ![r] = IdleAct]
      BY <2>8 DEF InsertReturn
    <3>2. \A q \in Ids : ret'[q].amount \in Nat
      <4>1. CASE ret' = ret
        BY <2>0, <4>1
      <4>2. CASE ret' # ret
        <5>1. PICK p \in Ids : ret' = [ret EXCEPT ![p] =
                  [status |-> "requested", amount |-> 0, resolution |-> act[r].resolution]]
          BY <2>8, <4>2 DEF InsertReturn
        <5> QED
          BY <2>0, <5>1 DEF Shape
      <4> QED
        BY <4>1, <4>2
    <3> QED
      BY <2>0, <2>1, <3>1, <3>2 DEF Counts, Shape
  <2>9. ASSUME NEW r \in Requests, CommitReturn(r)
        PROVE  Typed' /\ Counts'
    <3>1. /\ UNCHANGED vars /\ UNCHANGED <<refunds, acts>>
          /\ act' = [act EXCEPT ![r] = IdleAct]
      BY <2>9 DEF CommitReturn
    <3>2. \A q \in Ids : ret'[q].amount \in Nat
      <4>1. ret' = ret \/ ret' = [ret EXCEPT ![act[r].q].status = To(act[r].op),
                            ![act[r].q].amount = IF act[r].op = "approve" THEN act[r].amount ELSE @]
        BY <2>9 DEF CommitReturn
      <4> QED
        BY <2>0, <4>1 DEF Shape
    <3> QED
      BY <2>0, <2>1, <3>1, <3>2 DEF Counts, Shape
  <2>10. ASSUME NEW r \in Requests, LockReturn(r)
         PROVE  Typed' /\ Counts'
    <3>1. PICK q \in Ids :
              /\ FetchOrder(r) /\ UNCHANGED <<ret, refunds, acts>>
              /\ act' = [act EXCEPT ![r].pc = "locked", ![r].op = "refund", ![r].q = q]
      BY <2>10, Zenon DEF LockReturn
    <3>2. [Next]_vars
      BY <3>1 DEF Next, RefundStep
    <3>3. \A s \in Requests : act'[s].amount = act[s].amount
      BY <2>0, <3>1 DEF Shape
    <3> QED
      BY <2>0, <2>1, <3>1, <3>2, <3>3 DEF Counts
  <2>11. ASSUME NEW r \in Requests, CommitRefund(r)
         PROVE  Typed' /\ Counts'
    <3>0. act[r].q \in Ids /\ ret[act[r].q].amount \in Nat
      BY <2>0 DEF Shape
    <3>1. /\ RecordRefund(r, ret[act[r].q].amount) /\ UNCHANGED acts
          /\ ret' = [ret EXCEPT ![act[r].q].status = "refunded"]
          /\ refunds' = [refunds EXCEPT ![act[r].q] = @ + 1]
          /\ act' = [act EXCEPT ![r] = IdleAct]
      BY <2>11 DEF CommitRefund
    <3>2. Typed'
      BY <3>0, <3>1 DEF RecordRefund, Typed, TypeOK, Carries, Working, Phases
    <3>3. Counts'
      BY <2>0, <3>0, <3>1 DEF Counts, Shape
    <3> QED
      BY <3>2, <3>3
  <2>12. ASSUME NEW r \in Requests, ResolveOrder(r)
         PROVE  Typed' /\ Counts'
    <3>1. [Next]_vars /\ UNCHANGED rvars
      BY <2>12 DEF ResolveOrder, Next, RefundStep, AllCompleted, AnyRefunded
    <3> QED
      BY <2>1, <2>2, <3>1 DEF rvars
  <2>13. ASSUME NEW r \in Requests, CrashSlot(r)
         PROVE  Typed' /\ Counts'
    <3>1. [Next]_vars /\ UNCHANGED <<ret, refunds, acts>> /\ act' = [act EXCEPT ![r] = IdleAct]
      BY <2>13 DEF CrashSlot, Next
    <3> QED
      BY <2>0, <2>1, <3>1 DEF Counts, Shape
  <2> QED
    BY <2>4, <2>5, <2>6, <2>7, <2>8, <2>9, <2>10, <2>11, <2>12, <2>13
       DEF ReturnsNext, ReturnStep
<1> QED
  BY <1>1, <1>2

\* The rows, locks, amounts and open operations of returns and order keep their
\* types; no amount is ever negative.
THEOREM ReturnTypes == ReturnsSpec => []ReturnsTypeOK
<1>1. ReturnInv /\ Typed /\ Counts => ReturnsTypeOK
  <2> SUFFICES ASSUME ReturnInv, Typed, Counts PROVE ReturnsTypeOK
    OBVIOUS
  <2>1. ret \in [Ids -> ReturnRows]
    BY DEF ReturnInv, Shape, Counts, ReturnRows
  <2>2. act \in [Requests -> Acting]
    BY DEF ReturnInv, Shape, Counts, Acting
  <2> QED
    BY <2>1, <2>2 DEF ReturnInv, Shape, Typed, Counts, ReturnsTypeOK
<1> QED
  BY <1>1, ReturnStepKeeps, CountsKept, PTL DEF ReturnsSpec
-----------------------------------------------------------------------------
\* Every line has a recorded refund.
Covered == \A l \in Lines : \E q \in Ids : q[1] = l /\ refunds[q] > 0

Finished == {"refunded", "returned"}

\* A refunded request has its refund recorded, nothing is ever replaced, and
\* whoever is about to finish the order has seen it covered.
TerminalInv ==
    /\ \A q \in Ids : /\ ret[q].status = "refunded" => refunds[q] > 0
                      /\ ret[q].status # "replaced"
    /\ \A r \in Requests : req[r].pc = "covered" \/ req[r].target \in Finished => Covered
    /\ status \in Finished => Covered

\* A step of the order that leaves the returns alone: what it writes or is about
\* to write was covered.
LEMMA OrderMoves ==
    ASSUME TerminalInv, UNCHANGED <<ret, refunds>>,
           \A r \in Requests : req'[r].pc = "covered" \/ req'[r].target \in Finished
                                  => Covered \/ req'[r] = req[r],
           status' \in Finished => Covered \/ status' = status
    PROVE  TerminalInv'
<1>1. Covered' <=> Covered
  BY DEF Covered
<1> QED
  BY <1>1 DEF TerminalInv

\* Every step keeps it: refunds are never taken back, and the resolution picks
\* its status after it found every line completed.
THEOREM TerminalKept ==
    /\ ReturnsInit => TerminalInv
    /\ ReturnInv /\ Typed /\ Counts /\ TerminalInv /\ [ReturnsNext]_allVars => TerminalInv'
<1>1. ReturnsInit => TerminalInv
  BY DEF ReturnsInit, Init, Idle, NoReturn, TerminalInv, Finished
<1>2. ReturnInv /\ Typed /\ Counts /\ TerminalInv /\ [ReturnsNext]_allVars => TerminalInv'
  <2> SUFFICES ASSUME ReturnInv, Typed, Counts, TerminalInv, [ReturnsNext]_allVars
               PROVE  TerminalInv'
    OBVIOUS
  <2>0. /\ Shape /\ refunds \in [Ids -> Nat] /\ req \in [Requests -> Working]
        /\ Idle.pc = "idle" /\ Idle.target = "none"
    BY DEF ReturnInv, Counts, Typed, TypeOK, Idle
  <2>1. ASSUME UNCHANGED <<ret, refunds, req, status>>
        PROVE  TerminalInv'
    BY <2>1, OrderMoves
  <2>2. ASSUME NEW r \in Requests, NEW op, NEW pc, NEW target, NEW amount,
               Load(r, op, pc, target, amount), UNCHANGED <<ret, refunds>>,
               pc # "covered", target \notin Finished
        PROVE  TerminalInv'
    <3>1. /\ req'[r].pc = pc /\ req'[r].target = target /\ status' = status
          /\ \A s \in Requests \ {r} : req'[s] = req[s]
      BY <2>0, <2>2 DEF Load
    <3> QED
      BY <2>2, <3>1, OrderMoves
  <2>3. ASSUME NEW r \in Requests, UpdateStatus(r) \/ RequestCancel(r), UNCHANGED rvars
        PROVE  TerminalInv'
    <3>1. PICK op \in Operations, pc \in {"ready", "checked"}, amount \in Nat,
              target \in (Statuses \ RefundStates) \cup {"cancelled"} :
              Load(r, op, pc, target, amount)
      BY <2>3, AmountsAssumption, AllowedStatuses
         DEF UpdateStatus, RequestCancel, Operations
    <3>2. target \notin Finished /\ pc # "covered"
      BY DEF Finished, RefundStates
    <3> QED
      BY <2>2, <2>3, <3>1, <3>2 DEF rvars
  <2>4. ASSUME NEW r \in Requests, LockForCancel(r) \/ InsertHistory(r) \/ Crash(r),
               UNCHANGED <<ret, refunds>>
        PROVE  TerminalInv'
    <3>1. /\ req'[r].pc \in {"ready", "inserted", "idle"}
          /\ req'[r].target \in {req[r].target, "none"} /\ status' = status
          /\ \A s \in Requests \ {r} : req'[s] = req[s]
      BY <2>0, <2>4 DEF LockForCancel, InsertHistory, Crash, Working
    <3>2. req'[r].pc # "covered" /\ (req'[r].target \in Finished => Covered)
      BY <3>1 DEF TerminalInv, Finished
    <3> QED
      BY <2>4, <3>1, <3>2, OrderMoves
  <2>5. ASSUME NEW r \in Requests, CommitStatus(r), UNCHANGED rvars
        PROVE  TerminalInv'
    <3>1. /\ req'[r] = Idle /\ status' = req[r].target
          /\ \A s \in Requests \ {r} : req'[s] = req[s]
      BY <2>0, <2>5 DEF CommitStatus
    <3>2. status' \in Finished => Covered
      BY <3>1 DEF TerminalInv
    <3> QED
      BY <2>0, <2>5, <3>1, <3>2, OrderMoves DEF rvars, Finished
  <2>6. CASE OrderStep
    <3>1. ASSUME CreateStaffOrder, UNCHANGED rvars
          PROVE  TerminalInv'
      BY <3>1, OrderMoves DEF CreateStaffOrder, rvars, Finished
    <3> QED
      BY <2>3, <2>4, <2>5, <2>6, <3>1 DEF OrderStep, StaffStep, rvars
  <2>7. ASSUME NEW r \in Requests, OpenReturn(r) \/ Approve(r) \/ Handle(r)
        PROVE  TerminalInv'
    BY <2>1, <2>7 DEF OpenReturn, Approve, Handle, Start, vars
  <2>8. ASSUME UNCHANGED <<refunds, req, status>>,
               \A q \in Ids : ret'[q].status = ret[q].status
                              \/ ret'[q].status \notin {"refunded", "replaced"}
        PROVE  TerminalInv'
    <3>1. Covered' <=> Covered
      BY <2>8 DEF Covered
    <3> QED
      BY <2>8, <3>1 DEF TerminalInv
  <2>9. ASSUME NEW r \in Requests, InsertReturn(r)
        PROVE  TerminalInv'
    <3>1. CASE ret' = ret
      BY <2>1, <2>9, <3>1 DEF InsertReturn, vars
    <3>2. CASE ret' # ret
      <4>1. PICK q \in Ids : ret' = [ret EXCEPT ![q] =
                [status |-> "requested", amount |-> 0, resolution |-> act[r].resolution]]
        BY <2>9, <3>2 DEF InsertReturn
      <4>2. \A p \in Ids : ret'[p].status = ret[p].status \/ ret'[p].status = "requested"
        BY <2>0, <4>1 DEF Shape
      <4> QED
        BY <2>8, <2>9, <4>2 DEF InsertReturn, vars
    <3> QED
      BY <3>1, <3>2
  <2>10. ASSUME NEW r \in Requests, CommitReturn(r)
         PROVE  TerminalInv'
    <3>1. \/ ret' = ret
          \/ ret' = [ret EXCEPT ![act[r].q].status = To(act[r].op),
                       ![act[r].q].amount = IF act[r].op = "approve" THEN act[r].amount ELSE @]
      BY <2>10 DEF CommitReturn
    <3>2. To(act[r].op) \notin {"refunded", "replaced"}
      BY DEF To
    <3>3. \A q \in Ids : ret'[q].status = ret[q].status \/ ret'[q].status = To(act[r].op)
      BY <2>0, <3>1 DEF Shape
    <3> QED
      BY <2>8, <2>10, <3>2, <3>3 DEF CommitReturn, vars
  <2>11. ASSUME NEW r \in Requests, LockReturn(r)
         PROVE  TerminalInv'
    <3>1. FetchOrder(r) /\ UNCHANGED <<ret, refunds>>
      BY <2>11, Zenon DEF LockReturn
    <3>2. Load(r, "refund", "held", "none", 0)
      BY <3>1 DEF FetchOrder
    <3> QED
      BY <2>2, <3>1, <3>2 DEF Finished
  <2>12. ASSUME NEW r \in Requests, CommitRefund(r)
         PROVE  TerminalInv'
    <3>0. PICK p \in Ids : p = act[r].q
      BY <2>0 DEF Shape
    <3>1. /\ ret' = [ret EXCEPT ![p].status = "refunded"]
          /\ refunds' = [refunds EXCEPT ![p] = @ + 1]
          /\ req' = [req EXCEPT ![r].pc = "recorded"] /\ status' = status
      BY <2>12, <3>0 DEF CommitRefund, RecordRefund
    <3>2. /\ \A q \in Ids : refunds[q] \in Nat /\ refunds'[q] >= refunds[q] /\ refunds'[q] \in Nat
          /\ refunds'[p] > 0
          /\ \A q \in Ids : ret'[q].status = ret[q].status \/ q = p
          /\ ret'[p].status = "refunded"
      BY <2>0, <3>1 DEF Shape
    <3>3. Covered => Covered'
      BY <3>2 DEF Covered
    <3>4. \A s \in Requests : /\ req'[s].pc = "covered" => req[s].pc = "covered"
                              /\ req'[s].target = req[s].target
      BY <2>0, <3>1 DEF Working
    <3>5. \A q \in Ids : /\ ret'[q].status = "refunded" => refunds'[q] > 0
                         /\ ret'[q].status # "replaced"
      BY <3>2 DEF TerminalInv
    <3> QED
      BY <3>1, <3>3, <3>4, <3>5 DEF TerminalInv
  <2>13. ASSUME NEW r \in Requests, ResolveOrder(r)
         PROVE  TerminalInv'
    <3>1. CASE FindCompleted(r, AllCompleted)
      <4>1. AllCompleted => Covered
        BY DEF AllCompleted, Covered, TerminalInv
      <4>2. /\ req'[r].pc = "covered" => AllCompleted
            /\ req'[r].target \in {req[r].target, "none"} /\ status' = status
            /\ \A s \in Requests \ {r} : req'[s] = req[s]
        BY <2>0, <3>1 DEF FindCompleted, Working
      <4>3. req'[r].target \in Finished => Covered
        BY <4>2 DEF TerminalInv, Finished
      <4> QED
        BY <2>13, <4>1, <4>2, <4>3, OrderMoves DEF ResolveOrder, rvars
    <3>2. CASE PickTerminal(r, AnyRefunded)
      <4>1. /\ req[r].pc = "covered" /\ status' = status
            /\ \A s \in Requests \ {r} : req'[s] = req[s]
        BY <2>0, <3>2 DEF PickTerminal
      <4>2. Covered
        BY <4>1 DEF TerminalInv
      <4> QED
        BY <2>13, <4>1, <4>2, OrderMoves DEF ResolveOrder, rvars
    <3> QED
      BY <2>13, <3>1, <3>2 DEF ResolveOrder
  <2>14. ASSUME NEW r \in Requests, CrashSlot(r)
         PROVE  TerminalInv'
    BY <2>4, <2>14 DEF CrashSlot
  <2>15. CASE UNCHANGED allVars
    BY <2>1, <2>15 DEF allVars, vars, rvars
  <2> QED
    BY <2>6, <2>7, <2>9, <2>10, <2>11, <2>12, <2>13, <2>14, <2>15 DEF ReturnsNext, ReturnStep
<1> QED
  BY <1>1, <1>2

\* An order shows refunded or returned only when every line of it had a refund
\* recorded (_resolve_order_terminal_state).
THEOREM FinishedIsCovered == ReturnsSpec => []TerminalIsCovered
<1>1. TerminalInv => TerminalIsCovered
  BY DEF TerminalInv, TerminalIsCovered, Covered, Finished
<1> QED
  BY <1>1, ReturnStepKeeps, CountsKept, TerminalKept, PTL DEF ReturnsSpec
-----------------------------------------------------------------------------
\* Approvals and receipts are the work of one desk; any desk may open, reject,
\* close and refund requests.  Without it a stale receipt brings a refunded
\* request back, and it is refunded again.
OneReceiver ==
    \A r, s \in Requests :
        /\ Serves[r] \cap {"approve", "receive"} # {}
        /\ Serves[s] \cap {"approve", "receive"} # {}
        => r = s

\* A request that was refunded is done with, and no approval or receipt that is
\* under way works on a request that has been, or could now be, refunded.
OnceInv ==
    /\ \A q \in Ids : refunds[q] > 0 =>
          refunds[q] = 1 /\ ret[q].status \in {"refunded", "closed", "rejected"}
    /\ \A r \in Requests : act[r].pc = "loaded" =>
          /\ act[r].op \in Serves[r]
          /\ act[r].op \in {"approve", "receive"} =>
                refunds[act[r].q] = 0 /\ ret[act[r].q].status # "item_received"

\* No return is asked for at the start.
LEMMA OnceStarts == ReturnsInit => OnceInv
  BY Places DEF ReturnsInit, OnceInv

\* A slot that starts an operation.
LEMMA StartKeepsOnce ==
    ASSUME Shape, Counts, OnceInv, NEW r \in Requests, NEW op \in ReturnOps, NEW q \in Ids,
           NEW resolution, NEW amount, Start(r, op, q, resolution, amount),
           op \in {"approve", "receive"} =>
               ret[q].status \notin {"item_received", "refunded", "closed", "rejected"}
    PROVE  OnceInv'
<1>1. /\ UNCHANGED <<ret, refunds>> /\ op \in Serves[r]
      /\ act'[r].op = op /\ act'[r].q = q
      /\ \A s \in Requests \ {r} : act'[s] = act[s]
  BY DEF Start, Shape
<1>2. op \in {"approve", "receive"} => refunds[q] = 0
  BY DEF OnceInv, Counts
<1> QED
  BY <1>1, <1>2 DEF OnceInv

\* A slot that ends one and leaves the request's row as it is.
LEMMA EndKeepsOnce ==
    ASSUME Shape, OnceInv, UNCHANGED <<ret, refunds>>, NEW r \in Requests, NEW t,
           t.pc # "loaded", act' = [act EXCEPT ![r] = t]
    PROVE  OnceInv'
<1>1. \A s \in Requests : act'[s] = IF s = r THEN t ELSE act[s]
  BY DEF Shape
<1> QED
  BY <1>1 DEF OnceInv

\* Every step keeps it.
LEMMA OnceKept ==
    ASSUME OneReceiver, ReturnInv, Counts, OnceInv, [ReturnsNext]_allVars
    PROVE  OnceInv'
<1>0. Shape /\ refunds \in [Ids -> Nat]
  BY DEF ReturnInv, Counts
<1>1. ASSUME UNCHANGED <<ret, refunds, act>> PROVE OnceInv'
  BY <1>1 DEF OnceInv
<1>2. CASE OrderStep \/ UNCHANGED allVars
  BY <1>1, <1>2 DEF OrderStep, allVars, rvars
<1>3. ASSUME NEW r \in Requests, OpenReturn(r) PROVE OnceInv'
  BY <1>0, <1>3, StartKeepsOnce DEF OpenReturn, ReturnOps
<1>4. ASSUME NEW r \in Requests, Approve(r) PROVE OnceInv'
  <2>1. PICK q \in Ids, fee \in Fees, asked \in Asks :
            /\ ret[q].status \in From("approve")
            /\ Start(r, "approve", q, "refund", Approved(q[1], fee, asked))
    BY <1>4 DEF Approve
  <2> QED
    BY <1>0, <2>1, StartKeepsOnce DEF ReturnOps, From
<1>5. ASSUME NEW r \in Requests, Handle(r) PROVE OnceInv'
  <2>1. PICK op \in {"receive", "reject", "close"}, q \in Ids :
            /\ ret[q].status \in From(op)
            /\ Start(r, op, q, ret[q].resolution, 0)
    BY <1>5 DEF Handle
  <2>2. op \in ReturnOps /\ (op \in {"approve", "receive"} => ret[q].status = "approved")
    BY <2>1 DEF ReturnOps, From
  <2> QED
    BY <1>0, <2>1, <2>2, StartKeepsOnce
<1>6. ASSUME NEW r \in Requests, InsertReturn(r) PROVE OnceInv'
  <2>1. act' = [act EXCEPT ![r] = IdleAct] /\ refunds' = refunds
    BY <1>6 DEF InsertReturn
  <2>2. CASE ret' = ret
    BY <1>0, <2>1, <2>2, Places, EndKeepsOnce
  <2>3. CASE ret' # ret
    <3>1. PICK q \in Ids :
              /\ ret[q].status = "none"
              /\ ret' = [ret EXCEPT ![q] = [status |-> "requested", amount |-> 0,
                                            resolution |-> act[r].resolution]]
      BY <1>6, <2>3 DEF InsertReturn
    <3>2. \A p \in Ids : /\ p # q => ret'[p] = ret[p]
                         /\ p = q => ret'[p].status = "requested"
      BY <1>0, <3>1 DEF Shape
    <3>3. refunds[q] = 0
      BY <1>0, <3>1 DEF OnceInv
    <3>4. \A s \in Requests : act'[s] = IF s = r THEN IdleAct ELSE act[s]
      BY <1>0, <2>1 DEF Shape
    <3>5. \A s \in Requests : act[s].q \in Ids
      BY <1>0 DEF Shape
    <3> QED
      BY <2>1, <3>2, <3>3, <3>4, <3>5, Places DEF OnceInv
  <2> QED
    BY <2>2, <2>3
<1>7. ASSUME NEW r \in Requests, CommitReturn(r) PROVE OnceInv'
  <2> DEFINE q == act[r].q
             op == act[r].op
  <2>1. /\ act' = [act EXCEPT ![r] = IdleAct] /\ refunds' = refunds
        /\ act[r].pc = "loaded" /\ q \in Ids
    BY <1>0, <1>7 DEF CommitReturn, Shape
  <2>2. CASE ret' = ret
    BY <1>0, <2>1, <2>2, Places, EndKeepsOnce
  <2>3. CASE ret' # ret
    <3>1. ret' = [ret EXCEPT ![q].status = To(op),
                             ![q].amount = IF op = "approve" THEN act[r].amount ELSE @]
      BY <1>7, <2>3 DEF CommitReturn
    <3>2. ret'[q].status = To(op) /\ \A p \in Ids \ {q} : ret'[p] = ret[p]
      BY <1>0, <2>1, <3>1 DEF Shape
    <3>3. \/ op \in {"approve", "receive"} /\ refunds[q] = 0 /\ op \in Serves[r]
          \/ To(op) \in {"rejected", "closed"}
      BY <2>1 DEF OnceInv, To
    <3>4. \A s \in Requests : act'[s] = IF s = r THEN IdleAct ELSE act[s]
      BY <1>0, <2>1 DEF Shape
    <3>5. \A p \in Ids : refunds[p] > 0 =>
             refunds[p] = 1 /\ ret'[p].status \in {"refunded", "closed", "rejected"}
      BY <1>0, <2>1, <3>2, <3>3 DEF OnceInv
    <3>6. ASSUME NEW s \in Requests, s # r, act[s].pc = "loaded",
                 act[s].op \in {"approve", "receive"}
          PROVE  ret'[act[s].q].status # "item_received"
      <4>1. act[s].op \in Serves[s] /\ act[s].q \in Ids
        BY <1>0, <3>6 DEF OnceInv, Shape
      <4>2. To(op) \in {"rejected", "closed"}
        BY <3>3, <3>6, <4>1 DEF OneReceiver
      <4> QED
        BY <3>2, <3>6, <4>1, <4>2 DEF OnceInv
    <3> QED
      BY <2>1, <3>4, <3>5, <3>6, Places DEF OnceInv
  <2> QED
    BY <2>2, <2>3
<1>8. ASSUME NEW r \in Requests, LockReturn(r) PROVE OnceInv'
  <2>1. PICK q \in Ids :
            /\ UNCHANGED <<ret, refunds>>
            /\ act' = [act EXCEPT ![r].pc = "locked", ![r].op = "refund", ![r].q = q]
    BY <1>8, Zenon DEF LockReturn
  <2> DEFINE t == [act[r] EXCEPT !.pc = "locked", !.op = "refund", !.q = q]
  <2>2. act' = [act EXCEPT ![r] = t] /\ t.pc = "locked"
    BY <1>0, <2>1 DEF Shape
  <2> HIDE DEF t
  <2> QED
    BY <1>0, <2>1, <2>2, EndKeepsOnce
<1>9. ASSUME NEW r \in Requests, CommitRefund(r) PROVE OnceInv'
  <2>1. PICK q \in Ids : q = act[r].q
    BY <1>0 DEF Shape
  <2>2. ret[q].status = "item_received"
    BY <1>9, <2>1, RequestsAssumption
       DEF CommitRefund, ReturnInv, Shape, HoldersMatch, LockedReturnFrozen
  <2>3. /\ ret' = [ret EXCEPT ![q].status = "refunded"]
        /\ refunds' = [refunds EXCEPT ![q] = @ + 1]
        /\ act' = [act EXCEPT ![r] = IdleAct]
    BY <1>9, <2>1 DEF CommitRefund
  <2>4. refunds[q] = 0
    BY <1>0, <2>2 DEF OnceInv
  <2>5. /\ ret'[q].status = "refunded" /\ refunds'[q] = 1
        /\ \A p \in Ids \ {q} : ret'[p] = ret[p] /\ refunds'[p] = refunds[p]
    BY <1>0, <2>3, <2>4 DEF Shape
  <2>6. \A s \in Requests : act'[s] = (IF s = r THEN IdleAct ELSE act[s]) /\ act[s].q \in Ids
    BY <1>0, <2>3 DEF Shape
  <2>7. \A s \in Requests : act[s].pc = "loaded" /\ act[s].op \in {"approve", "receive"}
                               => act[s].q # q
    BY <2>2 DEF OnceInv
  <2> QED
    BY <2>5, <2>6, <2>7, Places DEF OnceInv
<1>10. ASSUME NEW r \in Requests, ResolveOrder(r) PROVE OnceInv'
  BY <1>1, <1>10 DEF ResolveOrder, rvars
<1>11. ASSUME NEW r \in Requests, CrashSlot(r) PROVE OnceInv'
  BY <1>0, <1>11, Places, EndKeepsOnce DEF CrashSlot
<1> QED
  BY <1>2, <1>3, <1>4, <1>5, <1>6, <1>7, <1>8, <1>9, <1>10, <1>11 DEF ReturnsNext, ReturnStep

\* Where one desk approves and receives, a return request records at most one
\* refund, however many desks refund, reject and close at once
\* (refund_return_request: a duplicated or concurrent action never records two).
THEOREM ReturnsRefundOnce ==
    ASSUME OneReceiver
    PROVE  ReturnsSpec => []OneRefundEach
<1>1. Counts /\ OnceInv => OneRefundEach
  BY DEF Counts, OnceInv, OneRefundEach
<1>2. ReturnInv /\ Counts /\ OnceInv /\ [ReturnsNext]_allVars => OnceInv'
  BY OneReceiver, OnceKept
<1> QED
  BY <1>1, <1>2, OnceStarts, ReturnStepKeeps, CountsKept, PTL DEF ReturnsSpec

-----------------------------------------------------------------------------
\* Beside its returns the order still moves by its own steps, but that a refund
\* records the amount its return was approved for.
LEMMA ReturnsMoveOrders ==
    [ReturnsNext]_allVars =>
        [Next]_vars \/ \E r \in Requests : \E amount : RecordRefund(r, amount)
<1> SUFFICES ASSUME [ReturnsNext]_allVars
             PROVE  [Next]_vars \/ \E r \in Requests : \E amount : RecordRefund(r, amount)
  OBVIOUS
<1>1. CASE UNCHANGED allVars
  BY <1>1 DEF allVars
<1>2. CASE OrderStep
  BY <1>2 DEF OrderStep, Next
<1>3. ASSUME NEW r \in Requests, ReturnStep(r)
      PROVE  [Next]_vars \/ \E s \in Requests : \E amount : RecordRefund(s, amount)
  <2>1. CASE OpenReturn(r) \/ InsertReturn(r) \/ Approve(r) \/ Handle(r) \/ CommitReturn(r)
    <3>1. UNCHANGED vars
      BY <2>1 DEF OpenReturn, InsertReturn, Approve, Handle, CommitReturn, Start
    <3> QED
      BY <3>1
  <2>2. CASE LockReturn(r)
    <3>1. FetchOrder(r)
      BY <2>2 DEF LockReturn
    <3> QED
      BY <3>1 DEF Next, RefundStep
  <2>3. CASE CommitRefund(r)
    BY <2>3 DEF CommitRefund
  <2>4. CASE ResolveOrder(r)
    <3>1. PICK complete \in BOOLEAN, any \in BOOLEAN :
            FindCompleted(r, complete) \/ PickTerminal(r, any)
      <4>1. AllCompleted \in BOOLEAN /\ AnyRefunded \in BOOLEAN
        BY DEF AllCompleted, AnyRefunded
      <4> QED
        BY <2>4, <4>1 DEF ResolveOrder
    <3> QED
      BY <3>1 DEF Next, RefundStep
  <2>5. CASE CrashSlot(r)
    BY <2>5 DEF CrashSlot, Next
  <2> QED
    BY <1>3, <2>1, <2>2, <2>3, <2>4, <2>5 DEF ReturnStep
<1> QED
  BY <1>1, <1>2, <1>3 DEF ReturnsNext

\* A refund writes nothing the column, the trail or the lock depends on, whatever
\* its amount.
LEMMA RefundAside ==
    ASSUME Typed, LockInv, TrailInv, MoveInv, NEW r \in Requests, NEW amount,
           RecordRefund(r, amount)
    PROVE  /\ LockInv' /\ TrailInv' /\ MoveInv'
           /\ UNCHANGED <<status, history>>
<1>1. /\ req' = [req EXCEPT ![r] = [@ EXCEPT !.pc = "recorded"]]
      /\ req[r].pc = "held" /\ req \in [Requests -> Working]
      /\ UNCHANGED <<status, history, nextId, lock>>
  BY DEF RecordRefund, Typed, TypeOK, Working
<1>2. /\ \A s \in Requests \ {r} : req'[s] = req[s]
      /\ req'[r].pc = "recorded" /\ req'[r].op = req[r].op /\ req'[r].mem = req[r].mem
      /\ req'[r].target = req[r].target /\ req'[r].id = req[r].id
  BY <1>1 DEF Working
<1>3. LockInv'
  BY <1>1, <1>2 DEF LockInv
<1>4. TrailInv'
  BY <1>1, <1>2 DEF TrailInv, ColumnInTrail
<1>5. MoveInv'
  BY <1>1, <1>2 DEF MoveInv
<1> QED
  BY <1>1, <1>3, <1>4, <1>5

\* Everything the order promises, beside its returns.
OrderInv == ReturnInv /\ Counts /\ Typed /\ LockInv /\ TrailInv /\ MoveInv

\* Every step of returns and order keeps it.
LEMMA OrderInvKept ==
    /\ ReturnsInit => OrderInv
    /\ OrderInv /\ [ReturnsNext]_allVars => OrderInv'
<1>1. ReturnsInit => OrderInv
  BY ReturnStepKeeps, CountsKept, LockStep, TrailStep, MoveStep DEF ReturnsInit, OrderInv
<1>2. ASSUME OrderInv, [ReturnsNext]_allVars PROVE OrderInv'
  <2>1. ReturnInv' /\ Counts' /\ Typed'
    BY <1>2, ReturnStepKeeps, CountsKept DEF OrderInv
  <2>2. LockInv' /\ TrailInv' /\ MoveInv'
    BY <1>2, ReturnsMoveOrders, RefundAside, LockStep, TrailStep, MoveStep DEF OrderInv
  <2> QED
    BY <2>1, <2>2 DEF OrderInv
<1> QED
  BY <1>1, <1>2

\* Beside its returns the order implements the ledger as it does alone: whichever
\* desk finishes it, the column moves along the allowed graph with an audit row
\* that names the edge (_resolve_order_terminal_state, transition_order).
THEOREM ReturnsKeepTheLedger == ReturnsSpec => ImplementsLedger
<1>1. OrderInv /\ [ReturnsNext]_allVars => [Ledger!Next]_(Ledger!vars)
  BY ReturnsMoveOrders, RefundAside, LedgerStep DEF OrderInv, Ledger!vars
<1>2. ReturnsInit => Ledger!Init
  BY DEF ReturnsInit, Init, Ledger!Init
<1> QED
  BY <1>1, <1>2, OrderInvKept, PTL DEF ReturnsSpec, ImplementsLedger, Ledger!Spec

\* And what it promises of locks, cancellations and its trail holds beside
\* returns too.
THEOREM ReturnsKeepOrders ==
    ReturnsSpec => []LockedOrderFrozen /\ []ColumnInTrail /\ CancelIsTruthful
<1>1. OrderInv => LockedOrderFrozen /\ ColumnInTrail
  BY DEF OrderInv, LockInv, LockedOrderFrozen, TrailInv
<1>2. OrderInv /\ [ReturnsNext]_allVars => [TruthfulStep]_vars
  BY ReturnsMoveOrders, RefundAside, CancelStep DEF OrderInv, TruthfulStep
<1> QED
  BY <1>1, <1>2, OrderInvKept, PTL DEF ReturnsSpec, CancelIsTruthful, TruthfulStep

===============================================================================
