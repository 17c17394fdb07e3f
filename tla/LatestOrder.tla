----------------------------- MODULE LatestOrder -----------------------------
(***************************************************************************)
(* What the Kill Bell promises about concurrent operators, without its     *)
(* history: one order in force, and an order that was given earlier never  *)
(* takes the place of one that was given later, whichever arrives first.   *)
(***************************************************************************)
EXTENDS Naturals

CONSTANTS
  Order,     \* the orders operators may give, each with the field at
  NoOrder    \* before the first

VARIABLE inForce

Init == inForce = NoOrder

\* An order arrives: it is in force if it is not older than the one before it.
Arrive(order) ==
  inForce' = IF inForce # NoOrder /\ order.at < inForce.at THEN inForce ELSE order

Next == \E order \in Order : Arrive(order)

Spec == Init /\ [][Next]_inForce
=============================================================================
