------------------------------ MODULE MCOrders ------------------------------
(* Small instances of Orders.                                              *)
EXTENDS Orders, TLC

\* Staff on any slot may do anything.
DoesAll == [r \in Requests |-> Operations]
=============================================================================
