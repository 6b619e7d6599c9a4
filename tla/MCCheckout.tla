------------------------------ MODULE MCCheckout ------------------------------
(***************************************************************************)
(* Checkout on small instances: two units on every shelf.                   *)
(***************************************************************************)
EXTENDS Checkout, TLC

MCStock == [p \in Products |-> 2]

\* One unit of each product, for instances where stock is the contention.
LastUnit == [p \in Products |-> 1]

MCSymmetry == Permutations(Orders) \cup Permutations(Products) \cup Permutations(Carts)
===============================================================================
