----------------------------- MODULE OrderStatus -----------------------------
(***************************************************************************)
(* The vocabulary of an order's life: the status column of the orders      *)
(* table and the predicates that orders/service.go and orders/admin.go     *)
(* ask of it.  NoOrder is the status of an order id no row has yet.        *)
(***************************************************************************)

StatusPendingPayment == "pending_payment"
StatusPaid           == "paid"
StatusPaymentFailed  == "payment_failed"
StatusProcessing     == "processing"
StatusShipped        == "shipped"
StatusDelivered      == "delivered"
StatusCancelled      == "cancelled"
StatusRefunded       == "refunded"

NoOrder == "none"

\* The statuses whose charge is backed by an order that is to be fulfilled
\* (isPostPaymentStatus and refundable list the same four).
PostPayment == {StatusPaid, StatusProcessing, StatusShipped, StatusDelivered}

isPostPaymentStatus(s) == s \in PostPayment

refundable(s) == s \in PostPayment

cancellable(s) == s \in {StatusPendingPayment, StatusPaid}

adminSettableStatuses ==
    {StatusProcessing, StatusShipped, StatusDelivered, StatusCancelled}

\* The statuses in which the order's units are out of products.stock_quantity,
\* and those in which they have been put back.
Holding  == {StatusPendingPayment} \cup PostPayment
Released == {StatusPaymentFailed, StatusCancelled, StatusRefunded}

Statuses == Holding \cup Released \cup {NoOrder}
==============================================================================
