--------------------------- MODULE MCOrderPayments ---------------------------
(***************************************************************************)
(* OrderPayments on small instances.                                       *)
(***************************************************************************)
EXTENDS OrderPayments, TLC

\* Two units on the shelf of every product.
MCStock == [p \in Products |-> 2]

\* The edits a staff member can make on the fulfilment path, one way only.
Forward == {<<StatusPaid, StatusShipped>>, <<StatusPendingPayment, StatusCancelled>>}

NoEdits == {}

WorkerSymmetry == Permutations(Handlers)
==============================================================================
