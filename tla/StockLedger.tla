----------------------------- MODULE StockLedger -----------------------------
(***************************************************************************)
(* What the order service promises about inventory, without payments,      *)
(* handlers or locks: an order takes its units out of stock when it is     *)
(* placed, keeps them while it is pending or being fulfilled, and puts      *)
(* them back exactly once, in the step that makes it dead.                  *)
(*                                                                         *)
(* OrderPayments (handlers interleaved step by step) and Checkout (row     *)
(* locks) both implement this specification.                               *)
(***************************************************************************)
EXTENDS Integers, FiniteSets, OrderStatus

CONSTANTS Orders,        \* order ids
          Products,      \* product ids
          MaxQty,        \* bound: units of one product in one order
          InitialStock   \* stock_quantity of each product before any order

ASSUME LedgerAssumption ==
    /\ IsFiniteSet(Orders)
    /\ MaxQty \in Nat
    /\ InitialStock \in [Products -> Nat]

VARIABLES status,  \* status[o]: orders.status
          items,   \* items[o][p]: order_items.quantity
          stock    \* stock[p]: products.stock_quantity

ledgerVars == <<status, items, stock>>

Baskets == [Products -> 0..MaxQty]

LedgerTypeOK ==
    /\ status \in [Orders -> Statuses]
    /\ items \in [Orders -> Baskets]
    /\ stock \in [Products -> Nat]

Init ==
    /\ status = [o \in Orders |-> NoOrder]
    /\ items = [o \in Orders |-> [p \in Products |-> 0]]
    /\ stock = InitialStock

\* Checkout commits: the units leave stock, none of it below zero (the column
\* has CHECK (stock_quantity >= 0)).
Reserve(o, want) ==
    /\ status[o] = NoOrder
    /\ \A p \in Products : want[p] <= stock[p]
    /\ status' = [status EXCEPT ![o] = StatusPendingPayment]
    /\ items' = [items EXCEPT ![o] = want]
    /\ stock' = [p \in Products |-> stock[p] - want[p]]

\* A live order moves between live statuses; stock does not.
Advance(o, s) ==
    /\ \/ status[o] = StatusPendingPayment /\ s = StatusPaid
       \/ status[o] \in PostPayment /\ s \in PostPayment
    /\ status' = [status EXCEPT ![o] = s]
    /\ UNCHANGED <<items, stock>>

\* The order dies and its units return, in one transaction.
Release(o, s) ==
    /\ \/ status[o] = StatusPendingPayment /\ s \in {StatusPaymentFailed, StatusCancelled}
       \/ status[o] \in PostPayment /\ s = StatusRefunded
    /\ status' = [status EXCEPT ![o] = s]
    /\ stock' = [p \in Products |-> stock[p] + items[o][p]]
    /\ UNCHANGED items

Next == \E o \in Orders :
            \/ \E want \in Baskets : Reserve(o, want)
            \/ \E s \in PostPayment : Advance(o, s)
            \/ \E s \in Released : Release(o, s)

Spec == Init /\ [][Next]_ledgerVars

-----------------------------------------------------------------------------

\* The units of p that orders hold, each unit named by its order and a number.
HeldUnits(p) == {u \in Orders \X (1..MaxQty) :
                    status[u[1]] \in Holding /\ u[2] <= items[u[1]][p]}

\* No unit is lost and none is made: for every product, what is on the shelf
\* plus what live orders hold is what there was before the first checkout
\* (checkout's DecrementStock against every IncrementStock of Cancel,
\* AdminUpdateStatus, AdminRefund, MarkPaymentFailed, ExpireStaleCheckouts).
StockConserved ==
    \A p \in Products : stock[p] + Cardinality(HeldUnits(p)) = InitialStock[p]
=============================================================================
