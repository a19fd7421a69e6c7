----------------------------- MODULE MCReturns -----------------------------
(* Small instances of Returns: one dispatcher moves the order, one or more  *)
(* desks handle its returns.                                                *)
EXTENDS Returns, TLC

CONSTANTS s1, d1, d2, l1, l2

\* A line of 2, a second line of 1, delivery for 1.
TwoLines == [l \in Lines |-> IF l = l1 THEN 2 ELSE 1]
Total == 4

\* The dispatcher cancels and updates; desks record refunds.
Dispatch == [r \in Requests |-> IF r = s1 THEN {"status"} ELSE {"refund"}]
DispatchAndCancel == [r \in Requests |-> IF r = s1 THEN {"status", "cancel"} ELSE {"refund"}]

\* Every desk does everything to returns.
DesksAll == [r \in Requests |-> IF r = s1 THEN {} ELSE ReturnOps]

\* d1 handles the requests, every desk records refunds.
OneDesk == [r \in Requests |-> IF r = d1 THEN ReturnOps ELSE {}]
DesksNoClose == [r \in Requests |-> IF r = s1 THEN {} ELSE ReturnOps \ {"close"}]

=============================================================================
