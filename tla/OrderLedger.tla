---------------------------- MODULE OrderLedger ----------------------------
(***************************************************************************)
(* What the status column of an order and its audit trail promise: the     *)
(* order is created confirmed, every later status is reached along an edge *)
(* of the allowed graph, and each step adds one row that names the edge.   *)
(* Alone, a request leaves the status the order has and appends its row at *)
(* the end; concurrent requests may leave any status the order had before, *)
(* and their rows may arrive in any order.                                 *)
(***************************************************************************)
EXTENDS Naturals

CONSTANTS
    Statuses,     \* the statuses an order can have
    Allowed(_),   \* the allowed graph
    Concurrent    \* whether requests run beside each other

VARIABLES
    status,       \* the order's status, "none" before it exists
    history       \* its audit rows [id, from, to]

vars == <<status, history>>
-----------------------------------------------------------------------------
Init == status = "none" /\ history = {}

\* The statuses a step may start from.
Known == IF Concurrent THEN {h.to : h \in history} ELSE {status}

\* One row for the step, with an id of its own, the last one if requests are
\* alone.
Append(from, to) ==
    \E row \in history' :
        /\ row = [id |-> row.id, from |-> from, to |-> to]
        /\ history' = history \cup {row}
        /\ \A h \in history : IF Concurrent THEN h.id # row.id ELSE h.id < row.id

Place == status = "none" /\ status' = "confirmed" /\ Append("blank", "confirmed")

Move ==
    /\ status' \in Statuses
    /\ \E from \in Known : status' \in Allowed(from) /\ Append(from, status')

Next == Place \/ Move

Spec == Init /\ [][Next]_vars
=============================================================================
