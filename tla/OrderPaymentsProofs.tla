------------------------- MODULE OrderPaymentsProofs -------------------------
(***************************************************************************)
(* Types of OrderPayments, with what every worker keeps in hand at each of  *)
(* its steps, for every number of orders, workers, intents and faults.      *)
(***************************************************************************)
EXTENDS OrderPayments, TLAPS

USE DEF StatusPendingPayment, StatusPaid, StatusPaymentFailed, StatusProcessing,
        StatusShipped, StatusDelivered, StatusCancelled, StatusRefunded, NoOrder

-----------------------------------------------------------------------------
(* The worker's record                                                     *)

HoldsIntent == {"rec_get", "mark_paid", "recheck", "row_succeeded", "orphan_row", "row_failed",
                "refund_stripe", "refund_mark", "create_get", "create_row",
                "reap_get", "reap_row", "publish_succeeded", "publish_failed"}

HasIntent(r) == r.pc \in HoldsIntent \/ (r.pc = "release" /\ r.to = StatusPaymentFailed)

\* What a worker's local variables say about one another at each of its steps:
\* in particular every release is on its way between two statuses that the
\* ledger lets an order be released between.
Sane(r) ==
    /\ r.pc # "idle" => r.order \in Orders
    /\ HasIntent(r) => r.intent \in Intents /\ OrderOf(r.intent) = r.order
    /\ r.pc = "release" =>
          \/ r.seen = StatusPendingPayment /\ r.to \in {StatusPaymentFailed, StatusCancelled}
          \/ r.seen \in PostPayment /\ r.to = StatusRefunded
    /\ r.pc \in RefundSteps /\ r.to = StatusRefunded => r.seen \in PostPayment
    /\ r.pc \in ReconcileSteps \cup {"publish_succeeded"} => r.to # StatusRefunded
    /\ r.pc \in ReapSteps => r.seen = StatusPendingPayment /\ r.to = StatusCancelled
    /\ r.pc = "staff_set" => <<r.seen, r.to>> \in StaffEdits /\ r.to # StatusCancelled

WorkersOK == /\ req \in [Workers -> Requests]
             /\ \A w \in Workers : Sane(req[w])

\* The payment rows listed for an order are of intents made for it.
RowsOK == \A o \in Orders : \A k \in 1..Len(rows[o]) : OrderOf(rows[o][k]) = o

TypeInv == TypeOK /\ RowsOK /\ WorkersOK

\* The ledger speaks of the same statuses.
LEMMA LedgerStatuses == Ledger!Statuses = Statuses
BY DEF Ledger!Statuses, Ledger!Holding, Ledger!PostPayment, Ledger!Released, Ledger!NoOrder,
       Ledger!StatusPendingPayment, Ledger!StatusPaid, Ledger!StatusPaymentFailed,
       Ledger!StatusProcessing, Ledger!StatusShipped, Ledger!StatusDelivered,
       Ledger!StatusCancelled, Ledger!StatusRefunded, Statuses, Holding, PostPayment, Released

\* orders.status is one of the eight the code knows, or the order does not exist.
LEMMA StatusType == TypeOK => status \in [Orders -> Statuses]
BY LedgerStatuses DEF TypeOK, Ledger!LedgerTypeOK

\* An intent names an order (NewIntent's metadata).
LEMMA IntentType == \A i \in Intents : OrderOf(i) \in Orders
BY DEF Intents, OrderOf

\* LatestForOrder returns a row of the order it was asked about.
LEMMA LatestOK ==
  ASSUME TypeOK, RowsOK, NEW o \in Orders, HasRow(o)
  PROVE  LatestForOrder(o) \in Intents /\ OrderOf(LatestForOrder(o)) = o
<1>1. rows[o] \in Seq(Intents) /\ rows[o] # <<>>
  BY DEF TypeOK, HasRow
<1>2. Len(rows[o]) \in 1..Len(rows[o])
  BY <1>1
<1> QED
  BY <1>1, <1>2 DEF RowsOK, LatestForOrder

\* A step of one worker leaves the records of the others alone.
LEMMA OneWorker ==
  ASSUME WorkersOK, NEW w \in Workers, NEW r \in Requests, Sane(r),
         req' = [req EXCEPT ![w] = r]
  PROVE  WorkersOK'
BY DEF WorkersOK, Sane, HasIntent

\* What Reconcile and applySucceeded return to is sane.
LEMMA ReturnedSane ==
  ASSUME WorkersOK, NEW w \in Workers, req[w].pc # "idle"
  PROVE  Returned(w) \in Requests /\ Sane(Returned(w))
<1> USE DEF Sane, HasIntent, HoldsIntent, Steps, ReconcileSteps, RefundSteps, CreateSteps,
            ReapSteps, OtherSteps, Statuses, Holding, Released, PostPayment, Idle, Requests
<1>1. req[w] \in Requests /\ req[w].order \in Orders
  BY DEF WorkersOK
<1>2. CASE req[w].ret = "idle"
  BY <1>2 DEF Returned
<1>3. CASE req[w].ret = "create_check"
  <2>1. Returned(w) = [pc |-> "create_check", order |-> req[w].order, intent |-> NoIntent,
                       seen |-> NoOrder, to |-> NoOrder, ret |-> "idle", left |-> {}]
    BY <1>3 DEF Returned
  <2> HIDE DEF Idle
  <2> DEFINE r == Returned(w)
  <2>2. r.pc = "create_check" /\ r.order = req[w].order /\ r.to = NoOrder /\ r.ret = "idle"
    BY <2>1
  <2>3. r \in Requests
    BY <1>1, <2>1
  <2> HIDE DEF r
  <2>4. Sane(r)
    BY <1>1, <2>2
  <2> QED
    BY <2>3, <2>4 DEF r
<1> QED
  BY <1>1, <1>2, <1>3 DEF Requests

-----------------------------------------------------------------------------
(* Types                                                                   *)

\* A call that is taken up starts from values the database really held.
LEMMA CallsKeepRecords ==
  ASSUME TypeInv, NEW w \in Workers,
            \/ \E o \in Orders : Cancel(w, o)
            \/ \E o \in Orders : AdminRefund(w, o)
            \/ \E o \in Orders : \E to \in adminSettableStatuses : AdminUpdateStatus(w, o, to)
            \/ \E o \in Orders : ViewOrder(w, o)
            \/ \E o \in Orders : CreateIntent(w, o)
            \/ \E o \in Orders : Reap(w, o)
            \/ \E i \in Intents : OnIntentSucceeded(w, i)
            \/ \E i \in Intents : OnIntentFailed(w, i)
  PROVE  WorkersOK'
<1>0. /\ req \in [Workers -> Requests] /\ req[w] \in Requests /\ Sane(req[w])
      /\ TypeOK /\ RowsOK /\ status \in [Orders -> Statuses] /\ WorkersOK
  BY StatusType DEF TypeInv, WorkersOK
<1>1. ASSUME NEW o \in Orders, Cancel(w, o) PROVE WorkersOK'
  <2> DEFINE r == [Idle EXCEPT !.pc = IF status[o] = StatusPaid THEN "refund_read" ELSE "release",
                   !.seen = status[o],
                   !.to = IF status[o] = StatusPaid THEN StatusRefunded ELSE StatusCancelled, !.order = o]
  <2>1. r \in Requests /\ Sane(r)
    <3> USE DEF Sane, HasIntent, HoldsIntent, Steps, ReconcileSteps, RefundSteps, CreateSteps,
               ReapSteps, OtherSteps, Statuses, Holding, Released, PostPayment, Idle, Requests
    <3>1. status[o] \in {StatusPendingPayment, StatusPaid}
      BY <1>1 DEF Cancel, cancellable
    <3> QED
      BY <3>1, <1>1 DEF Cancel, cancellable
  <2>2. req' = [req EXCEPT ![w] = r]
    BY <1>0, <1>1 DEF Idle, Cancel, Return, Done, Goto, Start
  <2> QED
    BY <1>0, <2>1, <2>2, OneWorker
<1>2. ASSUME NEW o \in Orders, AdminRefund(w, o) PROVE WorkersOK'
  <2> DEFINE r == [Idle EXCEPT !.pc = "refund_read",
                   !.seen = status[o],
                   !.to = StatusRefunded, !.order = o]
  <2>1. r \in Requests /\ Sane(r)
    <3> USE DEF Sane, HasIntent, HoldsIntent, Steps, ReconcileSteps, RefundSteps, CreateSteps,
               ReapSteps, OtherSteps, Statuses, Holding, Released, PostPayment, Idle, Requests
    <3>1. status[o] \in PostPayment
      BY <1>2 DEF AdminRefund, refundable
    <3> QED
      BY <3>1
  <2>2. req' = [req EXCEPT ![w] = r]
    BY <1>0, <1>2 DEF Idle, AdminRefund, Return, Done, Goto, Start
  <2> QED
    BY <1>0, <2>1, <2>2, OneWorker
<1>3. ASSUME NEW o \in Orders, NEW to \in adminSettableStatuses, AdminUpdateStatus(w, o, to) PROVE WorkersOK'
  <2> DEFINE r == [Idle EXCEPT !.pc = IF to = StatusCancelled THEN "release" ELSE "staff_set",
                   !.seen = status[o],
                   !.to = to, !.order = o]
  <2>1. r \in Requests /\ Sane(r)
    <3> USE DEF Sane, HasIntent, HoldsIntent, Steps, ReconcileSteps, RefundSteps, CreateSteps,
               ReapSteps, OtherSteps, Statuses, Holding, Released, PostPayment, Idle, Requests
    <3>1. to \in Statuses /\ status[o] \in Statuses
      BY <1>0, <1>3 DEF adminSettableStatuses, Statuses, Holding, PostPayment, Released
    <3>2. /\ <<status[o], to>> \in StaffEdits
          /\ to = StatusCancelled => status[o] = StatusPendingPayment
      BY <1>3 DEF AdminUpdateStatus
    <3>3. r \in Requests
      <4>1. Idle \in Requests /\ {"release", "staff_set"} \subseteq Steps
        OBVIOUS
      <4> HIDE DEF Steps, Statuses, Idle, OtherSteps, ReconcileSteps, RefundSteps, CreateSteps,
                   ReapSteps, Sane
      <4> QED
        BY <3>1, <4>1
    <3>4. CASE to = StatusCancelled
      <4>1. r.pc = "release" /\ r.seen = StatusPendingPayment /\ r.to = StatusCancelled /\ r.order = o
        BY <3>2, <3>4
      <4> HIDE DEF r
      <4> QED
        BY <3>3, <4>1
    <3>5. CASE to # StatusCancelled
      <4>1. r.pc = "staff_set" /\ r.seen = status[o] /\ r.to = to /\ r.order = o
        BY <3>5
      <4> HIDE DEF r
      <4> QED
        BY <3>2, <3>3, <3>5, <4>1
    <3> QED
      BY <3>4, <3>5
  <2>2. req' = [req EXCEPT ![w] = r]
    BY <1>0, <1>3 DEF Idle, AdminUpdateStatus, Return, Done, Goto, Start
  <2> QED
    BY <1>0, <2>1, <2>2, OneWorker
<1>4. ASSUME NEW o \in Orders, ViewOrder(w, o) PROVE WorkersOK'
  <2> DEFINE r == [Idle EXCEPT !.pc = "rec_latest", !.order = o]
  <2>1. r \in Requests /\ Sane(r)
    <3> USE DEF Sane, HasIntent, HoldsIntent, Steps, ReconcileSteps, RefundSteps, CreateSteps,
               ReapSteps, OtherSteps, Statuses, Holding, Released, PostPayment, Idle, Requests
    <3> QED
      BY ZenonT(60), <1>0, <1>4 DEF ViewOrder, At, Start
  <2>2. req' = [req EXCEPT ![w] = r]
    BY <1>0, <1>4 DEF Idle, ViewOrder, Return, Done, Goto, Start
  <2> QED
    BY <1>0, <2>1, <2>2, OneWorker
<1>5. ASSUME NEW o \in Orders, CreateIntent(w, o) PROVE WorkersOK'
  <2> DEFINE r == [Idle EXCEPT !.pc = "rec_latest", !.ret = "create_check", !.order = o]
  <2>1. r \in Requests /\ Sane(r)
    <3> USE DEF Sane, HasIntent, HoldsIntent, Steps, ReconcileSteps, RefundSteps, CreateSteps,
               ReapSteps, OtherSteps, Statuses, Holding, Released, PostPayment, Idle, Requests
    <3> QED
      OBVIOUS
  <2>2. req' = [req EXCEPT ![w] = r]
    BY <1>0, <1>5 DEF Idle, CreateIntent, Return, Done, Goto, Start
  <2> QED
    BY <1>0, <2>1, <2>2, OneWorker
<1>6. ASSUME NEW o \in Orders, Reap(w, o) PROVE WorkersOK'
  <2> DEFINE r == [Idle EXCEPT !.pc = "reap_list",
                   !.seen = StatusPendingPayment,
                   !.to = StatusCancelled, !.order = o]
  <2>1. r \in Requests /\ Sane(r)
    <3> USE DEF Sane, HasIntent, HoldsIntent, Steps, ReconcileSteps, RefundSteps, CreateSteps,
               ReapSteps, OtherSteps, Statuses, Holding, Released, PostPayment, Idle, Requests
    <3> QED
      OBVIOUS
  <2>2. req' = [req EXCEPT ![w] = r]
    BY <1>0, <1>6 DEF Idle, Reap, Return, Done, Goto, Start
  <2> QED
    BY <1>0, <2>1, <2>2, OneWorker
<1>7. ASSUME NEW i \in Intents, OnIntentSucceeded(w, i) PROVE WorkersOK'
  <2> DEFINE r == [Idle EXCEPT !.pc = "mark_paid", !.intent = i, !.order = OrderOf(i)]
  <2>1. r \in Requests /\ Sane(r)
    <3> USE DEF Sane, HasIntent, HoldsIntent, Steps, ReconcileSteps, RefundSteps, CreateSteps,
               ReapSteps, OtherSteps, Statuses, Holding, Released, PostPayment, Idle, Requests
    <3> QED
      BY ZenonT(60), <1>0, <1>7, IntentType DEF OnIntentSucceeded, At, Start
  <2>2. req' = [req EXCEPT ![w] = r]
    BY <1>0, <1>7 DEF Idle, OnIntentSucceeded, Return, Done, Goto, Start
  <2> QED
    BY <1>0, <2>1, <2>2, OneWorker
<1>8. ASSUME NEW i \in Intents, OnIntentFailed(w, i) PROVE WorkersOK'
  <2> DEFINE r == [Idle EXCEPT !.pc = "row_failed", !.intent = i, !.order = OrderOf(i)]
  <2>1. r \in Requests /\ Sane(r)
    <3> USE DEF Sane, HasIntent, HoldsIntent, Steps, ReconcileSteps, RefundSteps, CreateSteps,
               ReapSteps, OtherSteps, Statuses, Holding, Released, PostPayment, Idle, Requests
    <3> QED
      BY ZenonT(60), <1>0, <1>8, IntentType DEF OnIntentFailed, At, Start
  <2>2. req' = [req EXCEPT ![w] = r]
    BY <1>0, <1>8 DEF Idle, OnIntentFailed, Return, Done, Goto, Start
  <2> QED
    BY <1>0, <2>1, <2>2, OneWorker
<1> QED
  BY <1>1, <1>2, <1>3, <1>4, <1>5, <1>6, <1>7, <1>8

\* The same steps, and the tables.
LEMMA CallsKeepRows ==
  ASSUME TypeInv, WorkersOK', NEW w \in Workers,
            \/ \E o \in Orders : Cancel(w, o)
            \/ \E o \in Orders : AdminRefund(w, o)
            \/ \E o \in Orders : \E to \in adminSettableStatuses : AdminUpdateStatus(w, o, to)
            \/ \E o \in Orders : ViewOrder(w, o)
            \/ \E o \in Orders : CreateIntent(w, o)
            \/ \E o \in Orders : Reap(w, o)
            \/ \E i \in Intents : OnIntentSucceeded(w, i)
            \/ \E i \in Intents : OnIntentFailed(w, i)
  PROVE  TypeOK' /\ RowsOK'
<1> USE DEF TypeOK, RowsOK, Ledger!LedgerTypeOK, Ledger!Baskets, RowStatuses, IntentStatuses,
            orderVars, rowVars, stripeVars, outVars, Fault, TransitionStatus, ReleaseTx, Return
<1>0. /\ TypeOK /\ RowsOK /\ status \in [Orders -> Statuses] /\ req' \in [Workers -> Requests]
      /\ req[w] \in Requests /\ Sane(req[w])
  BY StatusType DEF TypeInv, WorkersOK
<1>1. ASSUME NEW o \in Orders, Cancel(w, o) PROVE TypeOK' /\ RowsOK'
  BY <1>0, <1>1, LedgerStatuses, OrderPaymentsAssumption DEF Cancel, At
<1>2. ASSUME NEW o \in Orders, AdminRefund(w, o) PROVE TypeOK' /\ RowsOK'
  BY <1>0, <1>2, LedgerStatuses, OrderPaymentsAssumption DEF AdminRefund, At
<1>3. ASSUME NEW o \in Orders, NEW to \in adminSettableStatuses, AdminUpdateStatus(w, o, to) PROVE TypeOK' /\ RowsOK'
  BY <1>0, <1>3, LedgerStatuses, OrderPaymentsAssumption DEF AdminUpdateStatus, At
<1>4. ASSUME NEW o \in Orders, ViewOrder(w, o) PROVE TypeOK' /\ RowsOK'
  BY <1>0, <1>4, LedgerStatuses, OrderPaymentsAssumption DEF ViewOrder, At
<1>5. ASSUME NEW o \in Orders, CreateIntent(w, o) PROVE TypeOK' /\ RowsOK'
  BY <1>0, <1>5, LedgerStatuses, OrderPaymentsAssumption DEF CreateIntent, At
<1>6. ASSUME NEW o \in Orders, Reap(w, o) PROVE TypeOK' /\ RowsOK'
  BY <1>0, <1>6, LedgerStatuses, OrderPaymentsAssumption DEF Reap, At
<1>7. ASSUME NEW i \in Intents, OnIntentSucceeded(w, i) PROVE TypeOK' /\ RowsOK'
  BY <1>0, <1>7, LedgerStatuses, OrderPaymentsAssumption DEF OnIntentSucceeded, At
<1>8. ASSUME NEW i \in Intents, OnIntentFailed(w, i) PROVE TypeOK' /\ RowsOK'
  BY <1>0, <1>8, LedgerStatuses, OrderPaymentsAssumption DEF OnIntentFailed, At
<1> QED
  BY <1>1, <1>2, <1>3, <1>4, <1>5, <1>6, <1>7, <1>8

\* Steps of a worker that settles, releases or refunds an order.
LEMMA OrderStepsKeepRecords ==
  ASSUME TypeInv, NEW w \in Workers,
            \/ StaffSet(w)
            \/ Release(w)
            \/ RefundRead(w)
            \/ RefundStripe(w)
            \/ MarkRefunded(w)
            \/ MarkPaid(w)
            \/ MarkPaidRecheck(w)
            \/ UpdateSucceeded(w)
            \/ UpdateFailed(w)
            \/ Publish(w)
  PROVE  WorkersOK'
<1>0. /\ req \in [Workers -> Requests] /\ req[w] \in Requests /\ Sane(req[w])
      /\ TypeOK /\ RowsOK /\ status \in [Orders -> Statuses] /\ WorkersOK
  BY StatusType DEF TypeInv, WorkersOK
<1>1. ASSUME StaffSet(w) PROVE WorkersOK'
  <2> DEFINE r == Idle
  <2>1. r \in Requests /\ Sane(r)
    <3> USE DEF Sane, HasIntent, HoldsIntent, Steps, ReconcileSteps, RefundSteps, CreateSteps,
               ReapSteps, OtherSteps, Statuses, Holding, Released, PostPayment, Idle, Requests
    <3> QED
      BY <1>0, <1>1 DEF StaffSet, At, Start
  <2>2. req' = [req EXCEPT ![w] = r]
    BY <1>0, <1>1 DEF Idle, StaffSet, Return, Done, Goto, Start
  <2> QED
    BY <1>0, <2>1, <2>2, OneWorker
<1>2. ASSUME Release(w) PROVE WorkersOK'
  <2> DEFINE r == IF req[w].to = StatusPaymentFailed
                   THEN [req[w] EXCEPT !.pc = "publish_failed"] ELSE Idle
  <2>1. r \in Requests /\ Sane(r)
    <3> USE DEF Sane, HasIntent, HoldsIntent, Steps, ReconcileSteps, RefundSteps, CreateSteps,
               ReapSteps, OtherSteps, Statuses, Holding, Released, PostPayment, Idle, Requests
    <3> QED
      BY <1>0, <1>2 DEF Release, At, Start
  <2>2. req' = [req EXCEPT ![w] = r]
    BY <1>0, <1>2 DEF Idle, Release, Return, Done, Goto, Start
  <2> QED
    BY <1>0, <2>1, <2>2, OneWorker
<1>3. ASSUME RefundRead(w) PROVE WorkersOK'
  <2> DEFINE r == IF HasRow(req[w].order) /\ row[LatestForOrder(req[w].order)] = "succeeded"
                   THEN [req[w] EXCEPT !.pc = "refund_stripe", !.intent = LatestForOrder(req[w].order)]
                   ELSE IF ForOrphan(w) THEN Returned(w)
                   ELSE IF HasRow(req[w].order) /\ row[LatestForOrder(req[w].order)] = "refunded"
                   THEN [req[w] EXCEPT !.pc = "release"] ELSE Idle
  <2>1. r \in Requests /\ Sane(r)
    <3> USE DEF Sane, HasIntent, HoldsIntent, Steps, ReconcileSteps, RefundSteps, CreateSteps,
               ReapSteps, OtherSteps, Statuses, Holding, Released, PostPayment, Idle, Requests
    <3>1. /\ req[w].pc = "refund_read" /\ req[w].order \in Orders
          /\ ~ForOrphan(w) => req[w].seen \in PostPayment
      BY <1>0, <1>3 DEF RefundRead, At, ForOrphan
    <3>2. CASE HasRow(req[w].order) /\ row[LatestForOrder(req[w].order)] = "succeeded"
      <4> DEFINE i == LatestForOrder(req[w].order)
      <4>1. i \in Intents /\ OrderOf(i) = req[w].order
        BY <1>0, <3>1, <3>2, LatestOK
      <4>2. r = [req[w] EXCEPT !.pc = "refund_stripe", !.intent = i]
        BY <3>2
      <4> HIDE DEF i, r
      <4>3. r \in Requests
        BY <1>0, <4>1, <4>2
      <4>4. /\ r.pc = "refund_stripe" /\ r.intent = i /\ r.order = req[w].order
            /\ r.seen = req[w].seen /\ r.to = req[w].to
        BY <1>0, <4>2
      <4>5. r.to = StatusRefunded => r.seen \in PostPayment
        BY <1>0, <3>1, <4>4
      <4> QED
        BY <3>1, <4>1, <4>3, <4>4, <4>5
    <3>3. CASE /\ ~(HasRow(req[w].order) /\ row[LatestForOrder(req[w].order)] = "succeeded")
               /\ ForOrphan(w)
      BY ZenonT(60), <1>0, <3>1, <3>3, ReturnedSane
    <3>4. CASE /\ ~(HasRow(req[w].order) /\ row[LatestForOrder(req[w].order)] = "succeeded")
               /\ ~ForOrphan(w)
      BY <1>0, <3>1, <3>4 DEF ForOrphan
    <3> QED
      BY <3>2, <3>3, <3>4
  <2>2. req' = [req EXCEPT ![w] = r]
    <3>1. CASE HasRow(req[w].order) /\ row[LatestForOrder(req[w].order)] = "succeeded"
      BY <1>0, <1>3, <3>1 DEF RefundRead
    <3>2. CASE HasRow(req[w].order) /\ row[LatestForOrder(req[w].order)] = "refunded"
      BY <1>0, <1>3, <3>2 DEF RefundRead, Return, Goto, AfterRefund
    <3>3. CASE ~(HasRow(req[w].order) /\ row[LatestForOrder(req[w].order)] \in {"succeeded", "refunded"})
      BY <1>0, <1>3, <3>3 DEF RefundRead, Return, Done
    <3> QED
      BY <3>1, <3>2, <3>3
  <2> QED
    BY <1>0, <2>1, <2>2, OneWorker
<1>4. ASSUME RefundStripe(w) PROVE WorkersOK'
  <2> DEFINE r == [req[w] EXCEPT !.pc = "refund_mark"]
  <2>1. r \in Requests /\ Sane(r)
    <3> USE DEF Sane, HasIntent, HoldsIntent, Steps, ReconcileSteps, RefundSteps, CreateSteps,
               ReapSteps, OtherSteps, Statuses, Holding, Released, PostPayment, Idle, Requests
    <3> QED
      BY <1>0, <1>4 DEF RefundStripe, At, Start
  <2>2. req' = [req EXCEPT ![w] = r]
    BY <1>0, <1>4 DEF Idle, RefundStripe, Return, Done, Goto, Start
  <2> QED
    BY <1>0, <2>1, <2>2, OneWorker
<1>5. ASSUME MarkRefunded(w) PROVE WorkersOK'
  <2> DEFINE r == IF ForOrphan(w) THEN Returned(w) ELSE [req[w] EXCEPT !.pc = "release"]
  <2>1. r \in Requests /\ Sane(r)
    <3> USE DEF Sane, HasIntent, HoldsIntent, Steps, ReconcileSteps, RefundSteps, CreateSteps,
               ReapSteps, OtherSteps, Statuses, Holding, Released, PostPayment, Idle, Requests
    <3>1. req[w].pc = "refund_mark"
      BY <1>5 DEF MarkRefunded, At
    <3>2. CASE ForOrphan(w)
      BY <1>0, <3>1, <3>2, ReturnedSane
    <3>3. CASE ~ForOrphan(w)
      BY <1>0, <3>1, <3>3 DEF ForOrphan
    <3> QED
      BY <3>2, <3>3
  <2>2. req' = [req EXCEPT ![w] = r]
    BY <1>5 DEF MarkRefunded, Goto, Return, AfterRefund
  <2> QED
    BY <1>0, <2>1, <2>2, OneWorker
<1>6. ASSUME MarkPaid(w) PROVE WorkersOK'
  <2> DEFINE r == [req[w] EXCEPT !.pc = IF status[req[w].order] = StatusPendingPayment THEN "row_succeeded" ELSE "recheck"]
  <2>1. r \in Requests /\ Sane(r)
    <3> USE DEF Sane, HasIntent, HoldsIntent, Steps, ReconcileSteps, RefundSteps, CreateSteps,
               ReapSteps, OtherSteps, Statuses, Holding, Released, PostPayment, Idle, Requests
    <3> QED
      BY <1>0, <1>6 DEF MarkPaid, At, Start
  <2>2. req' = [req EXCEPT ![w] = r]
    BY <1>0, <1>6 DEF Idle, MarkPaid, Return, Done, Goto, Start
  <2> QED
    BY <1>0, <2>1, <2>2, OneWorker
<1>7. ASSUME MarkPaidRecheck(w) PROVE WorkersOK'
  <2> DEFINE r == [req[w] EXCEPT !.pc = IF isPostPaymentStatus(status[req[w].order]) THEN "row_succeeded" ELSE "orphan_row"]
  <2>1. r \in Requests /\ Sane(r)
    <3> USE DEF Sane, HasIntent, HoldsIntent, Steps, ReconcileSteps, RefundSteps, CreateSteps,
               ReapSteps, OtherSteps, Statuses, Holding, Released, PostPayment, Idle, Requests
    <3> QED
      BY <1>0, <1>7 DEF MarkPaidRecheck, At, Start
  <2>2. req' = [req EXCEPT ![w] = r]
    BY <1>0, <1>7 DEF Idle, MarkPaidRecheck, Return, Done, Goto, Start
  <2> QED
    BY <1>0, <2>1, <2>2, OneWorker
<1>8. ASSUME UpdateSucceeded(w) PROVE WorkersOK'
  <2> DEFINE r == [req[w] EXCEPT !.pc = IF At(w, "orphan_row") THEN "refund_read" ELSE "publish_succeeded"]
  <2>1. r \in Requests /\ Sane(r)
    <3> USE DEF Sane, HasIntent, HoldsIntent, Steps, ReconcileSteps, RefundSteps, CreateSteps,
               ReapSteps, OtherSteps, Statuses, Holding, Released, PostPayment, Idle, Requests
    <3> QED
      BY <1>0, <1>8 DEF UpdateSucceeded, At, Start
  <2>2. req' = [req EXCEPT ![w] = r]
    BY <1>0, <1>8 DEF Idle, UpdateSucceeded, Return, Done, Goto, Start
  <2> QED
    BY <1>0, <2>1, <2>2, OneWorker
<1>9. ASSUME UpdateFailed(w) PROVE WorkersOK'
  <2> DEFINE r == [req[w] EXCEPT !.pc = "release",
                   !.seen = StatusPendingPayment,
                   !.to = StatusPaymentFailed]
  <2>1. r \in Requests /\ Sane(r)
    <3> USE DEF Sane, HasIntent, HoldsIntent, Steps, ReconcileSteps, RefundSteps, CreateSteps,
               ReapSteps, OtherSteps, Statuses, Holding, Released, PostPayment, Idle, Requests
    <3> QED
      BY <1>0, <1>9 DEF UpdateFailed, At, Start
  <2>2. req' = [req EXCEPT ![w] = r]
    BY <1>0, <1>9 DEF Idle, UpdateFailed, Return, Done, Goto, Start
  <2> QED
    BY <1>0, <2>1, <2>2, OneWorker
<1>10. ASSUME Publish(w) PROVE WorkersOK'
  <2> DEFINE r == Returned(w)
  <2>1. r \in Requests /\ Sane(r)
    <3> USE DEF Sane, HasIntent, HoldsIntent, Steps, ReconcileSteps, RefundSteps, CreateSteps,
               ReapSteps, OtherSteps, Statuses, Holding, Released, PostPayment, Idle, Requests
    <3>1. req[w].pc # "idle"
      BY <1>10 DEF Publish, At, RefundSteps
    <3> QED
      BY <1>0, <3>1, ReturnedSane
  <2>2. req' = [req EXCEPT ![w] = r]
    BY <1>0, <1>10 DEF Idle, Publish, Return, Done, Goto, Start
  <2> QED
    BY <1>0, <2>1, <2>2, OneWorker
<1> QED
  BY <1>1, <1>2, <1>3, <1>4, <1>5, <1>6, <1>7, <1>8, <1>9, <1>10

\* The same steps, and the tables.
LEMMA OrderStepsKeepRows ==
  ASSUME TypeInv, WorkersOK', NEW w \in Workers,
            \/ StaffSet(w)
            \/ Release(w)
            \/ RefundRead(w)
            \/ RefundStripe(w)
            \/ MarkRefunded(w)
            \/ MarkPaid(w)
            \/ MarkPaidRecheck(w)
            \/ UpdateSucceeded(w)
            \/ UpdateFailed(w)
            \/ Publish(w)
  PROVE  TypeOK' /\ RowsOK'
<1> USE DEF TypeOK, RowsOK, Ledger!LedgerTypeOK, Ledger!Baskets, RowStatuses, IntentStatuses,
            orderVars, rowVars, stripeVars, outVars, Fault, TransitionStatus, ReleaseTx, Return
<1>0. /\ TypeOK /\ RowsOK /\ status \in [Orders -> Statuses] /\ req' \in [Workers -> Requests]
      /\ req[w] \in Requests /\ Sane(req[w])
  BY StatusType DEF TypeInv, WorkersOK
<1>1. ASSUME StaffSet(w) PROVE TypeOK' /\ RowsOK'
  BY <1>0, <1>1, LedgerStatuses, OrderPaymentsAssumption DEF StaffSet, At, Requests
<1>2. ASSUME Release(w) PROVE TypeOK' /\ RowsOK'
  <2>1. req[w].order \in Orders /\ req[w].to \in Statuses
    <3>1. req[w].pc # "idle"
      BY <1>2 DEF Release, At
    <3> QED
      BY <1>0, <3>1 DEF Sane, Requests
  <2>2. status' \in [Orders -> Statuses]
    BY <1>0, <1>2, <2>1 DEF Release
  <2>3. stock' \in [Products -> Nat]
    <3>1. \A p \in Products : stock[p] + items[req[w].order][p] \in Nat
      BY <1>0, <2>1, OrderPaymentsAssumption
    <3> QED
      BY <1>0, <1>2, <3>1 DEF Release
  <2> QED
    BY <1>0, <1>2, <2>2, <2>3, LedgerStatuses DEF Release
<1>3. ASSUME RefundRead(w) PROVE TypeOK' /\ RowsOK'
  <2>1. req[w].pc # "idle"
    BY <1>3 DEF RefundRead, At
  <2>2. req[w].order \in Orders
    BY <1>0, <2>1 DEF Sane
  <2> QED
    BY <1>0, <1>3, <2>2 DEF RefundRead
<1>4. ASSUME RefundStripe(w) PROVE TypeOK' /\ RowsOK'
  <2>1. req[w].intent \in Intents
    BY <1>0, <1>4 DEF Sane, HasIntent, HoldsIntent, RefundStripe, At
  <2> QED
    BY <1>0, <1>4, <2>1 DEF RefundStripe
<1>5. ASSUME MarkRefunded(w) PROVE TypeOK' /\ RowsOK'
  <2>1. req[w].intent \in Intents
    BY <1>0, <1>5 DEF Sane, HasIntent, HoldsIntent, MarkRefunded, At
  <2> QED
    BY <1>0, <1>5, <2>1 DEF MarkRefunded
<1>6. ASSUME MarkPaid(w) PROVE TypeOK' /\ RowsOK'
  <2>1. status' \in [Orders -> Statuses]
    <3>1. StatusPaid \in Statuses
      BY DEF Statuses, Holding, PostPayment
    <3> QED
      BY <1>0, <1>6, <3>1 DEF MarkPaid
  <2> QED
    BY <1>0, <1>6, <2>1, LedgerStatuses DEF MarkPaid
<1>7. ASSUME MarkPaidRecheck(w) PROVE TypeOK' /\ RowsOK'
  BY <1>0, <1>7, LedgerStatuses, OrderPaymentsAssumption DEF MarkPaidRecheck, At
<1>8. ASSUME UpdateSucceeded(w) PROVE TypeOK' /\ RowsOK'
  BY <1>0, <1>8, LedgerStatuses, OrderPaymentsAssumption DEF UpdateSucceeded, At
<1>9. ASSUME UpdateFailed(w) PROVE TypeOK' /\ RowsOK'
  BY <1>0, <1>9, LedgerStatuses, OrderPaymentsAssumption DEF UpdateFailed, At
<1>10. ASSUME Publish(w) PROVE TypeOK' /\ RowsOK'
  <2>1. req[w].intent \in Intents
    BY <1>0, <1>10 DEF Sane, HasIntent, HoldsIntent, Publish, At
  <2> QED
    BY <1>0, <1>10, <2>1 DEF Publish
<1> QED
  BY <1>1, <1>2, <1>3, <1>4, <1>5, <1>6, <1>7, <1>8, <1>9, <1>10

\* Steps of a worker that reconciles, creates or voids an intent.
LEMMA IntentStepsKeepRecords ==
  ASSUME TypeInv, NEW w \in Workers,
            \/ ReconcileLatest(w)
            \/ ReconcileGet(w)
            \/ CreateCheck(w)
            \/ CreateLatest(w)
            \/ CreateReuse(w)
            \/ \E i \in Intents : NewIntent(w, i)
            \/ NoIntentLeft(w)
            \/ CreateRow(w)
            \/ ReapList(w)
            \/ \E i \in Intents : CancelIntent(w, i)
            \/ ReapGet(w)
            \/ UpdateCancelled(w)
  PROVE  WorkersOK'
<1>0. /\ req \in [Workers -> Requests] /\ req[w] \in Requests /\ Sane(req[w])
      /\ TypeOK /\ RowsOK /\ status \in [Orders -> Statuses] /\ WorkersOK
  BY StatusType DEF TypeInv, WorkersOK
<1>1. ASSUME ReconcileLatest(w) PROVE WorkersOK'
  <2> DEFINE r == IF HasRow(req[w].order) /\ row[LatestForOrder(req[w].order)] = "pending"
                   THEN [req[w] EXCEPT !.pc = "rec_get", !.intent = LatestForOrder(req[w].order)]
                   ELSE Returned(w)
  <2>1. r \in Requests /\ Sane(r)
    <3> USE DEF Sane, HasIntent, HoldsIntent, Steps, ReconcileSteps, RefundSteps, CreateSteps,
               ReapSteps, OtherSteps, Statuses, Holding, Released, PostPayment, Idle, Requests
    <3>1. req[w].pc = "rec_latest" /\ req[w].order \in Orders
      BY <1>0, <1>1 DEF ReconcileLatest, At
    <3>2. CASE HasRow(req[w].order) /\ row[LatestForOrder(req[w].order)] = "pending"
      BY ZenonT(60), <1>0, <3>1, <3>2, LatestOK
    <3>3. CASE ~(HasRow(req[w].order) /\ row[LatestForOrder(req[w].order)] = "pending")
      BY ZenonT(60), <1>0, <3>1, <3>3, ReturnedSane
    <3> QED
      BY <3>2, <3>3
  <2>2. req' = [req EXCEPT ![w] = r]
    BY <1>0, <1>1 DEF Idle, ReconcileLatest, Return, Done, Goto, Start
  <2> QED
    BY <1>0, <2>1, <2>2, OneWorker
<1>2. ASSUME ReconcileGet(w) PROVE WorkersOK'
  <2> DEFINE r == IF intent[req[w].intent] = "succeeded" THEN [req[w] EXCEPT !.pc = "mark_paid"]
                   ELSE IF \/ intent[req[w].intent] = "canceled"
                           \/ /\ intent[req[w].intent] = "requires_payment_method"
                              /\ req[w].intent \in declined
                   THEN [req[w] EXCEPT !.pc = "row_failed"] ELSE Returned(w)
  <2>1. r \in Requests /\ Sane(r)
    <3> USE DEF Sane, HasIntent, HoldsIntent, Steps, ReconcileSteps, RefundSteps, CreateSteps,
               ReapSteps, OtherSteps, Statuses, Holding, Released, PostPayment, Idle, Requests
    <3>1. req[w].pc = "rec_get"
      BY <1>2 DEF ReconcileGet, At
    <3>2. Returned(w) \in Requests /\ Sane(Returned(w))
      BY <1>0, <3>1, ReturnedSane
    <3>3. r \in {[req[w] EXCEPT !.pc = "mark_paid"], [req[w] EXCEPT !.pc = "row_failed"], Returned(w)}
      OBVIOUS
    <3>4. CASE r = [req[w] EXCEPT !.pc = "mark_paid"]
      BY <1>0, <3>1, <3>4
    <3>5. CASE r = [req[w] EXCEPT !.pc = "row_failed"]
      BY <1>0, <3>1, <3>5
    <3> HIDE DEF r
    <3> QED
      BY <3>2, <3>3, <3>4, <3>5
  <2>2. req' = [req EXCEPT ![w] = r]
    BY <1>0, <1>2 DEF Idle, ReconcileGet, Return, Done, Goto, Start
  <2> QED
    BY <1>0, <2>1, <2>2, OneWorker
<1>3. ASSUME CreateCheck(w) PROVE WorkersOK'
  <2> DEFINE r == IF status[req[w].order] = StatusPendingPayment
                   THEN [req[w] EXCEPT !.pc = "create_latest"] ELSE Idle
  <2>1. r \in Requests /\ Sane(r)
    <3> USE DEF Sane, HasIntent, HoldsIntent, Steps, ReconcileSteps, RefundSteps, CreateSteps,
               ReapSteps, OtherSteps, Statuses, Holding, Released, PostPayment, Idle, Requests
    <3> QED
      BY <1>0, <1>3 DEF CreateCheck, At, Start
  <2>2. req' = [req EXCEPT ![w] = r]
    BY <1>0, <1>3 DEF Idle, CreateCheck, Return, Done, Goto, Start
  <2> QED
    BY <1>0, <2>1, <2>2, OneWorker
<1>4. ASSUME CreateLatest(w) PROVE WorkersOK'
  <2> DEFINE r == IF HasRow(req[w].order) /\ row[LatestForOrder(req[w].order)] = "pending"
                   THEN [req[w] EXCEPT !.pc = "create_get", !.intent = LatestForOrder(req[w].order)]
                   ELSE [req[w] EXCEPT !.pc = "create_new"]
  <2>1. r \in Requests /\ Sane(r)
    <3> USE DEF Sane, HasIntent, HoldsIntent, Steps, ReconcileSteps, RefundSteps, CreateSteps,
               ReapSteps, OtherSteps, Statuses, Holding, Released, PostPayment, Idle, Requests
    <3> QED
      BY ZenonT(60), <1>0, <1>4, LatestOK DEF CreateLatest, At, Start
  <2>2. req' = [req EXCEPT ![w] = r]
    BY <1>0, <1>4 DEF Idle, CreateLatest, Return, Done, Goto, Start
  <2> QED
    BY <1>0, <2>1, <2>2, OneWorker
<1>5. ASSUME CreateReuse(w) PROVE WorkersOK'
  <2> DEFINE r == IF isReusableIntentStatus(intent[req[w].intent]) THEN Idle
                   ELSE [req[w] EXCEPT !.pc = "create_new"]
  <2>1. r \in Requests /\ Sane(r)
    <3> USE DEF Sane, HasIntent, HoldsIntent, Steps, ReconcileSteps, RefundSteps, CreateSteps,
               ReapSteps, OtherSteps, Statuses, Holding, Released, PostPayment, Idle, Requests
    <3> QED
      BY <1>0, <1>5 DEF CreateReuse, At, Start
  <2>2. req' = [req EXCEPT ![w] = r]
    BY <1>0, <1>5 DEF Idle, CreateReuse, Return, Done, Goto, Start
  <2> QED
    BY <1>0, <2>1, <2>2, OneWorker
<1>6. ASSUME NEW i \in Intents, NewIntent(w, i) PROVE WorkersOK'
  <2> DEFINE r == [req[w] EXCEPT !.pc = "create_row", !.intent = i]
  <2>1. r \in Requests /\ Sane(r)
    <3> USE DEF Sane, HasIntent, HoldsIntent, Steps, ReconcileSteps, RefundSteps, CreateSteps,
               ReapSteps, OtherSteps, Statuses, Holding, Released, PostPayment, Idle, Requests
    <3> QED
      BY ZenonT(60), <1>0, <1>6 DEF NewIntent, At, Start
  <2>2. req' = [req EXCEPT ![w] = r]
    BY <1>0, <1>6 DEF Idle, NewIntent, Return, Done, Goto, Start
  <2> QED
    BY <1>0, <2>1, <2>2, OneWorker
<1>7. ASSUME NoIntentLeft(w) PROVE WorkersOK'
  <2> DEFINE r == Idle
  <2>1. r \in Requests /\ Sane(r)
    <3> USE DEF Sane, HasIntent, HoldsIntent, Steps, ReconcileSteps, RefundSteps, CreateSteps,
               ReapSteps, OtherSteps, Statuses, Holding, Released, PostPayment, Idle, Requests
    <3> QED
      BY <1>0, <1>7 DEF NoIntentLeft, At, Start
  <2>2. req' = [req EXCEPT ![w] = r]
    BY <1>0, <1>7 DEF Idle, NoIntentLeft, Return, Done, Goto, Start
  <2> QED
    BY <1>0, <2>1, <2>2, OneWorker
<1>8. ASSUME CreateRow(w) PROVE WorkersOK'
  <2> DEFINE r == Idle
  <2>1. r \in Requests /\ Sane(r)
    <3> USE DEF Sane, HasIntent, HoldsIntent, Steps, ReconcileSteps, RefundSteps, CreateSteps,
               ReapSteps, OtherSteps, Statuses, Holding, Released, PostPayment, Idle, Requests
    <3> QED
      BY <1>0, <1>8 DEF CreateRow, At, Start
  <2>2. req' = [req EXCEPT ![w] = r]
    BY <1>0, <1>8 DEF Idle, CreateRow, Return, Done, Goto, Start
  <2> QED
    BY <1>0, <2>1, <2>2, OneWorker
<1>9. ASSUME ReapList(w) PROVE WorkersOK'
  <2> DEFINE r == [req[w] EXCEPT !.left = PendingIntentIDsForOrder(req[w].order),
                   !.pc = NextToVoid(PendingIntentIDsForOrder(req[w].order))]
  <2>1. r \in Requests /\ Sane(r)
    <3> USE DEF Sane, HasIntent, HoldsIntent, Steps, ReconcileSteps, RefundSteps, CreateSteps,
               ReapSteps, OtherSteps, Statuses, Holding, Released, PostPayment, Idle, Requests
    <3> QED
      BY ZenonT(60), <1>0, <1>9 DEF ReapList, At, Start, NextToVoid, PendingIntentIDsForOrder
  <2>2. req' = [req EXCEPT ![w] = r]
    BY <1>0, <1>9 DEF Idle, ReapList, Return, Done, Goto, Start
  <2> QED
    BY <1>0, <2>1, <2>2, OneWorker
<1>10. ASSUME NEW i \in Intents, CancelIntent(w, i) PROVE WorkersOK'
  <2> DEFINE r == [req[w] EXCEPT !.pc = IF intent[i] = "requires_payment_method" THEN "reap_row" ELSE "reap_get",
                   !.intent = i]
  <2>1. r \in Requests /\ Sane(r)
    <3> USE DEF Sane, HasIntent, HoldsIntent, Steps, ReconcileSteps, RefundSteps, CreateSteps,
               ReapSteps, OtherSteps, Statuses, Holding, Released, PostPayment, Idle, Requests
    <3>1. req[w].pc = "reap_void" /\ req[w].order \in Orders
      BY <1>0, <1>10 DEF CancelIntent, At
    <3>2. OrderOf(i) = req[w].order
      <4>1. \E k \in 1..Len(rows[req[w].order]) : rows[req[w].order][k] = i
        BY <1>10 DEF CancelIntent, Oldest
      <4> QED
        BY <1>0, <3>1, <4>1 DEF RowsOK
    <3> QED
      BY <1>0, <3>1, <3>2
  <2>2. req' = [req EXCEPT ![w] = r]
    BY <1>0, <1>10 DEF Idle, CancelIntent, Return, Done, Goto, Start
  <2> QED
    BY <1>0, <2>1, <2>2, OneWorker
<1>11. ASSUME ReapGet(w) PROVE WorkersOK'
  <2> DEFINE r == IF intent[req[w].intent] \in {"succeeded", "processing"}
                   THEN [Idle EXCEPT !.pc = "rec_latest", !.order = req[w].order]
                   ELSE [req[w] EXCEPT !.pc = "reap_row"]
  <2>1. r \in Requests /\ Sane(r)
    <3> USE DEF Sane, HasIntent, HoldsIntent, Steps, ReconcileSteps, RefundSteps, CreateSteps,
               ReapSteps, OtherSteps, Statuses, Holding, Released, PostPayment, Idle, Requests
    <3> QED
      BY ZenonT(60), <1>0, <1>11 DEF ReapGet, At, Start
  <2>2. req' = [req EXCEPT ![w] = r]
    BY <1>0, <1>11 DEF Idle, ReapGet, Return, Done, Goto, Start
  <2> QED
    BY <1>0, <2>1, <2>2, OneWorker
<1>12. ASSUME UpdateCancelled(w) PROVE WorkersOK'
  <2> DEFINE r == [req[w] EXCEPT !.left = req[w].left \ {req[w].intent},
                   !.pc = NextToVoid(req[w].left \ {req[w].intent})]
  <2>1. r \in Requests /\ Sane(r)
    <3> USE DEF Sane, HasIntent, HoldsIntent, Steps, ReconcileSteps, RefundSteps, CreateSteps,
               ReapSteps, OtherSteps, Statuses, Holding, Released, PostPayment, Idle, Requests
    <3> QED
      BY <1>0, <1>12 DEF UpdateCancelled, At, Start, NextToVoid
  <2>2. req' = [req EXCEPT ![w] = r]
    BY <1>0, <1>12 DEF Idle, UpdateCancelled, Return, Done, Goto, Start
  <2> QED
    BY <1>0, <2>1, <2>2, OneWorker
<1> QED
  BY <1>1, <1>2, <1>3, <1>4, <1>5, <1>6, <1>7, <1>8, <1>9, <1>10, <1>11, <1>12

\* The same steps, and the tables.
LEMMA IntentStepsKeepRows ==
  ASSUME TypeInv, WorkersOK', NEW w \in Workers,
            \/ ReconcileLatest(w)
            \/ ReconcileGet(w)
            \/ CreateCheck(w)
            \/ CreateLatest(w)
            \/ CreateReuse(w)
            \/ \E i \in Intents : NewIntent(w, i)
            \/ NoIntentLeft(w)
            \/ CreateRow(w)
            \/ ReapList(w)
            \/ \E i \in Intents : CancelIntent(w, i)
            \/ ReapGet(w)
            \/ UpdateCancelled(w)
  PROVE  TypeOK' /\ RowsOK'
<1> USE DEF TypeOK, RowsOK, Ledger!LedgerTypeOK, Ledger!Baskets, RowStatuses, IntentStatuses,
            orderVars, rowVars, stripeVars, outVars, Fault, TransitionStatus, ReleaseTx, Return
<1>0. /\ TypeOK /\ RowsOK /\ status \in [Orders -> Statuses] /\ req' \in [Workers -> Requests]
      /\ req[w] \in Requests /\ Sane(req[w])
  BY StatusType DEF TypeInv, WorkersOK
<1>1. ASSUME ReconcileLatest(w) PROVE TypeOK' /\ RowsOK'
  BY <1>0, <1>1, LedgerStatuses, OrderPaymentsAssumption DEF ReconcileLatest, At
<1>2. ASSUME ReconcileGet(w) PROVE TypeOK' /\ RowsOK'
  BY <1>0, <1>2, LedgerStatuses, OrderPaymentsAssumption DEF ReconcileGet, At
<1>3. ASSUME CreateCheck(w) PROVE TypeOK' /\ RowsOK'
  BY <1>0, <1>3, LedgerStatuses, OrderPaymentsAssumption DEF CreateCheck, At
<1>4. ASSUME CreateLatest(w) PROVE TypeOK' /\ RowsOK'
  BY <1>0, <1>4, LedgerStatuses, OrderPaymentsAssumption DEF CreateLatest, At
<1>5. ASSUME CreateReuse(w) PROVE TypeOK' /\ RowsOK'
  <2>1. req[w].intent \in Intents
    BY <1>0, <1>5 DEF Sane, HasIntent, HoldsIntent, CreateReuse, At
  <2> QED
    BY <1>0, <1>5, <2>1 DEF CreateReuse
<1>6. ASSUME NEW i \in Intents, NewIntent(w, i) PROVE TypeOK' /\ RowsOK'
  BY <1>0, <1>6, LedgerStatuses, OrderPaymentsAssumption DEF NewIntent, At
<1>7. ASSUME NoIntentLeft(w) PROVE TypeOK' /\ RowsOK'
  BY <1>0, <1>7, LedgerStatuses, OrderPaymentsAssumption DEF NoIntentLeft, At
<1>8. ASSUME CreateRow(w) PROVE TypeOK' /\ RowsOK'
  <2>1. req[w].order \in Orders /\ req[w].intent \in Intents /\ OrderOf(req[w].intent) = req[w].order
    BY <1>0, <1>8 DEF Sane, HasIntent, HoldsIntent, CreateRow, At
  <2> QED
    <3> DEFINE o == req[w].order
                i == req[w].intent
    <3>1. /\ row' = [row EXCEPT ![i] = "pending"]
          /\ rows' = [rows EXCEPT ![o] = Append(@, i)]
          /\ shown' = shown \cup {i}
          /\ UNCHANGED <<orderVars, stripeVars, notified, reported, faults>>
      BY <1>8 DEF CreateRow
    <3> HIDE DEF o, i
    <3>2. o \in Orders /\ i \in Intents /\ OrderOf(i) = o
      BY <2>1 DEF o, i
    <3>3. rows' \in [Orders -> Seq(Intents)]
      BY <1>0, <3>1, <3>2
    <3>4. TypeOK'
      BY <1>0, <3>1, <3>2, <3>3
    <3>5. ASSUME NEW p \in Orders, NEW k \in 1..Len(rows'[p]) PROVE OrderOf(rows'[p][k]) = p
      <4>1. CASE p # o
        BY <1>0, <3>1, <3>5, <4>1
      <4>2. CASE p = o
        <5>1. rows[o] \in Seq(Intents) /\ rows'[p] = Append(rows[o], i)
          BY <1>0, <3>1, <3>2, <4>2
        <5>2. CASE k = Len(rows[o]) + 1
          BY <3>2, <4>2, <5>1, <5>2
        <5>3. CASE k \in 1..Len(rows[o])
          BY <1>0, <3>2, <4>2, <5>1, <5>3
        <5> QED
          BY <3>5, <5>1, <5>2, <5>3
      <4> QED
        BY <4>1, <4>2
    <3> QED
      BY <3>4, <3>5
<1>9. ASSUME ReapList(w) PROVE TypeOK' /\ RowsOK'
  BY <1>0, <1>9, LedgerStatuses, OrderPaymentsAssumption DEF ReapList, At
<1>10. ASSUME NEW i \in Intents, CancelIntent(w, i) PROVE TypeOK' /\ RowsOK'
  BY <1>0, <1>10, LedgerStatuses, OrderPaymentsAssumption DEF CancelIntent, At
<1>11. ASSUME ReapGet(w) PROVE TypeOK' /\ RowsOK'
  BY <1>0, <1>11, LedgerStatuses, OrderPaymentsAssumption DEF ReapGet, At
<1>12. ASSUME UpdateCancelled(w) PROVE TypeOK' /\ RowsOK'
  BY <1>0, <1>12, LedgerStatuses, OrderPaymentsAssumption DEF UpdateCancelled, At
<1> QED
  BY <1>1, <1>2, <1>3, <1>4, <1>5, <1>6, <1>7, <1>8, <1>9, <1>10, <1>11, <1>12

\* A worker that crashes or takes an error path.
LEMMA FailuresKeepRecords ==
  ASSUME TypeInv, NEW w \in Workers,
            \/ Crash(w)
            \/ ReconcileFails(w)
            \/ OrphanRefundFails(w)
            \/ CreateReuseFails(w)
            \/ PublishFails(w)
  PROVE  WorkersOK'
<1>0. /\ req \in [Workers -> Requests] /\ req[w] \in Requests /\ Sane(req[w])
      /\ TypeOK /\ RowsOK /\ status \in [Orders -> Statuses] /\ WorkersOK
  BY StatusType DEF TypeInv, WorkersOK
<1>1. ASSUME Crash(w) PROVE WorkersOK'
  <2> DEFINE r == Idle
  <2>1. r \in Requests /\ Sane(r)
    <3> USE DEF Sane, HasIntent, HoldsIntent, Steps, ReconcileSteps, RefundSteps, CreateSteps,
               ReapSteps, OtherSteps, Statuses, Holding, Released, PostPayment, Idle, Requests
    <3> QED
      BY <1>0, <1>1 DEF Crash, At, Start
  <2>2. req' = [req EXCEPT ![w] = r]
    BY <1>0, <1>1 DEF Idle, Crash, Return, Done, Goto, Start
  <2> QED
    BY <1>0, <2>1, <2>2, OneWorker
<1>2. ASSUME ReconcileFails(w) PROVE WorkersOK'
  <2> DEFINE r == [Idle EXCEPT !.pc = "create_latest", !.order = req[w].order]
  <2>1. r \in Requests /\ Sane(r)
    <3> USE DEF Sane, HasIntent, HoldsIntent, Steps, ReconcileSteps, RefundSteps, CreateSteps,
               ReapSteps, OtherSteps, Statuses, Holding, Released, PostPayment, Idle, Requests
    <3>1. req[w].order \in Orders
      BY <1>0, <1>2 DEF ReconcileFails, At
    <3> QED
      BY <3>1
  <2>2. req' = [req EXCEPT ![w] = r]
    BY <1>0, <1>2 DEF Idle, ReconcileFails, Return, Done, Goto, Start
  <2> QED
    BY <1>0, <2>1, <2>2, OneWorker
<1>3. ASSUME OrphanRefundFails(w) PROVE WorkersOK'
  <2> DEFINE r == Returned(w)
  <2>1. r \in Requests /\ Sane(r)
    <3> USE DEF Sane, HasIntent, HoldsIntent, Steps, ReconcileSteps, RefundSteps, CreateSteps,
               ReapSteps, OtherSteps, Statuses, Holding, Released, PostPayment, Idle, Requests
    <3>1. req[w].pc # "idle"
      BY <1>3 DEF OrphanRefundFails, At, RefundSteps
    <3> QED
      BY <1>0, <3>1, ReturnedSane
  <2>2. req' = [req EXCEPT ![w] = r]
    BY <1>0, <1>3 DEF Idle, OrphanRefundFails, Return, Done, Goto, Start
  <2> QED
    BY <1>0, <2>1, <2>2, OneWorker
<1>4. ASSUME CreateReuseFails(w) PROVE WorkersOK'
  <2> DEFINE r == [req[w] EXCEPT !.pc = "create_new"]
  <2>1. r \in Requests /\ Sane(r)
    <3> USE DEF Sane, HasIntent, HoldsIntent, Steps, ReconcileSteps, RefundSteps, CreateSteps,
               ReapSteps, OtherSteps, Statuses, Holding, Released, PostPayment, Idle, Requests
    <3> QED
      BY <1>0, <1>4 DEF CreateReuseFails, At, Start
  <2>2. req' = [req EXCEPT ![w] = r]
    BY <1>0, <1>4 DEF Idle, CreateReuseFails, Return, Done, Goto, Start
  <2> QED
    BY <1>0, <2>1, <2>2, OneWorker
<1>5. ASSUME PublishFails(w) PROVE WorkersOK'
  <2> DEFINE r == Returned(w)
  <2>1. r \in Requests /\ Sane(r)
    <3> USE DEF Sane, HasIntent, HoldsIntent, Steps, ReconcileSteps, RefundSteps, CreateSteps,
               ReapSteps, OtherSteps, Statuses, Holding, Released, PostPayment, Idle, Requests
    <3>1. req[w].pc # "idle"
      BY <1>5 DEF PublishFails, At, RefundSteps
    <3> QED
      BY <1>0, <3>1, ReturnedSane
  <2>2. req' = [req EXCEPT ![w] = r]
    BY <1>0, <1>5 DEF Idle, PublishFails, Return, Done, Goto, Start
  <2> QED
    BY <1>0, <2>1, <2>2, OneWorker
<1> QED
  BY <1>1, <1>2, <1>3, <1>4, <1>5

\* The same steps, and the tables.
LEMMA FailuresKeepRows ==
  ASSUME TypeInv, WorkersOK', NEW w \in Workers,
            \/ Crash(w)
            \/ ReconcileFails(w)
            \/ OrphanRefundFails(w)
            \/ CreateReuseFails(w)
            \/ PublishFails(w)
  PROVE  TypeOK' /\ RowsOK'
<1> USE DEF TypeOK, RowsOK, Ledger!LedgerTypeOK, Ledger!Baskets, RowStatuses, IntentStatuses,
            orderVars, rowVars, stripeVars, outVars, Fault, TransitionStatus, ReleaseTx, Return
<1>0. /\ TypeOK /\ RowsOK /\ status \in [Orders -> Statuses] /\ req' \in [Workers -> Requests]
      /\ req[w] \in Requests /\ Sane(req[w])
  BY StatusType DEF TypeInv, WorkersOK
<1>1. ASSUME Crash(w) PROVE TypeOK' /\ RowsOK'
  BY <1>0, <1>1, LedgerStatuses, OrderPaymentsAssumption DEF Crash, At
<1>2. ASSUME ReconcileFails(w) PROVE TypeOK' /\ RowsOK'
  BY SMTT(60), <1>0, <1>2, LedgerStatuses, OrderPaymentsAssumption DEF ReconcileFails, At
<1>3. ASSUME OrphanRefundFails(w) PROVE TypeOK' /\ RowsOK'
  <2>1. req[w].pc # "idle"
    BY <1>3 DEF OrphanRefundFails, RefundSteps
  <2>2. req[w].order \in Orders
    BY <1>0, <2>1 DEF Sane
  <2>3. /\ reported' = reported \cup {req[w].order}
        /\ faults' = faults + 1 /\ faults < MaxFaults
        /\ UNCHANGED <<orderVars, rowVars, stripeVars, shown, notified>>
    BY <1>3 DEF OrphanRefundFails
  <2> QED
    BY <1>0, <2>2, <2>3, OrderPaymentsAssumption
<1>4. ASSUME CreateReuseFails(w) PROVE TypeOK' /\ RowsOK'
  BY <1>0, <1>4, LedgerStatuses, OrderPaymentsAssumption DEF CreateReuseFails, At
<1>5. ASSUME PublishFails(w) PROVE TypeOK' /\ RowsOK'
  BY <1>0, <1>5, LedgerStatuses, OrderPaymentsAssumption DEF PublishFails, At
<1> QED
  BY <1>1, <1>2, <1>3, <1>4, <1>5

\* Checkout, the customer and Stripe touch no worker.
LEMMA OutsideKeepsTypes ==
  ASSUME TypeInv,
         \/ \E o \in Orders, want \in Ledger!Baskets : PlaceOrder(o, want)
         \/ \E i \in Intents : ConfirmPayment(i) \/ Charge(i) \/ Decline(i)
         \/ UNCHANGED vars
  PROVE  TypeInv'
<1> USE DEF TypeInv, WorkersOK, RowsOK, TypeOK, Ledger!LedgerTypeOK, IntentStatuses,
            orderVars, rowVars, stripeVars, outVars
<1>1. ASSUME NEW o \in Orders, NEW want \in Ledger!Baskets, PlaceOrder(o, want) PROVE TypeInv'
  <2>1. \A p \in Products : stock[p] - want[p] \in Nat
    BY SMTT(60), <1>1, OrderPaymentsAssumption DEF PlaceOrder, Ledger!Reserve, Ledger!Baskets
  <2>2. Ledger!LedgerTypeOK'
    BY <1>1, <2>1 DEF PlaceOrder, Ledger!Reserve, Ledger!Statuses, Ledger!Holding,
       Ledger!StatusPendingPayment
  <2> QED
    BY <1>1, <2>2 DEF PlaceOrder
<1>2. ASSUME NEW i \in Intents, ConfirmPayment(i) PROVE TypeInv'
  BY <1>2, OrderPaymentsAssumption DEF ConfirmPayment
<1>3. ASSUME NEW i \in Intents, Charge(i) PROVE TypeInv'
  BY <1>3 DEF Charge
<1>4. ASSUME NEW i \in Intents, Decline(i) PROVE TypeInv'
  BY <1>4 DEF Decline
<1>5. CASE UNCHANGED vars
  BY <1>5 DEF vars
<1> QED
  BY <1>1, <1>2, <1>3, <1>4, <1>5

\* An empty shop with no request in flight.
LEMMA TypeInvInit == Init => TypeInv
<1> SUFFICES ASSUME Init PROVE TypeInv
  OBVIOUS
<1>1. Ledger!LedgerTypeOK
  BY OrderPaymentsAssumption DEF Init, Ledger!Init, Ledger!LedgerTypeOK, Ledger!Baskets,
     Ledger!Statuses
<1>2. TypeOK
  <2>1. /\ row \in [Intents -> RowStatuses] /\ rows \in [Orders -> Seq(Intents)]
        /\ intent \in [Intents -> IntentStatuses] /\ tries \in [Intents -> 0..MaxTries]
        /\ faults \in 0..MaxFaults
    BY OrderPaymentsAssumption DEF Init, RowStatuses, IntentStatuses
  <2>2. req \in [Workers -> Requests]
    BY DEF Init, Idle, Requests, Statuses
  <2> QED
    BY <1>1, <2>1, <2>2 DEF TypeOK, Init
<1>3. RowsOK
  BY DEF Init, RowsOK
<1>4. WorkersOK
  BY <1>2 DEF WorkersOK, TypeOK, Init, Sane, HasIntent, HoldsIntent, Idle, RefundSteps,
     ReconcileSteps, ReapSteps
<1> QED
  BY <1>2, <1>3, <1>4 DEF TypeInv

\* Types and records together are inductive.
LEMMA TypeInvNext == TypeInv /\ [Next]_vars => TypeInv'
<1> SUFFICES ASSUME TypeInv, [Next]_vars PROVE TypeInv'
  OBVIOUS
<1>1. ASSUME NEW w \in Workers, Step(w) PROVE TypeInv'
  <2>1. WorkersOK'
    BY <1>1, OrderStepsKeepRecords, IntentStepsKeepRecords DEF Step
  <2>2. TypeOK' /\ RowsOK'
    BY <1>1, <2>1, OrderStepsKeepRows, IntentStepsKeepRows DEF Step
  <2> QED
    BY <2>1, <2>2 DEF TypeInv
<1>2. ASSUME NEW w \in Workers, Failure(w) PROVE TypeInv'
  <2>1. WorkersOK'
    BY <1>2, FailuresKeepRecords DEF Failure
  <2>2. TypeOK' /\ RowsOK'
    BY <1>2, <2>1, FailuresKeepRows DEF Failure
  <2> QED
    BY <2>1, <2>2 DEF TypeInv
<1>3. ASSUME NEW w \in Handlers, NEW o \in Orders, Call(w, o) PROVE TypeInv'
  <2>1. w \in Workers
    BY DEF Workers
  <2>2. WorkersOK'
    BY <1>3, <2>1, CallsKeepRecords DEF Call
  <2>3. TypeOK' /\ RowsOK'
    BY <1>3, <2>1, <2>2, CallsKeepRows DEF Call
  <2> QED
    BY <2>2, <2>3 DEF TypeInv
<1>4. ASSUME NEW w \in Handlers, NEW i \in Intents, Deliver(w, i) PROVE TypeInv'
  <2>1. w \in Workers
    BY DEF Workers
  <2>2. WorkersOK'
    BY <1>4, <2>1, CallsKeepRecords DEF Deliver
  <2>3. TypeOK' /\ RowsOK'
    BY <1>4, <2>1, <2>2, CallsKeepRows DEF Deliver
  <2> QED
    BY <2>2, <2>3 DEF TypeInv
<1>5. ASSUME NEW w \in Reapers, NEW o \in Orders, Reap(w, o) PROVE TypeInv'
  <2>1. w \in Workers
    BY DEF Workers
  <2>2. WorkersOK'
    BY <1>5, <2>1, CallsKeepRecords
  <2>3. TypeOK' /\ RowsOK'
    BY <1>5, <2>1, <2>2, CallsKeepRows
  <2> QED
    BY <2>2, <2>3 DEF TypeInv
<1>6. CASE \/ \E o \in Orders, want \in Ledger!Baskets : PlaceOrder(o, want)
           \/ \E i \in Intents : ConfirmPayment(i) \/ Charge(i) \/ Decline(i)
           \/ UNCHANGED vars
  BY <1>6, OutsideKeepsTypes
<1> QED
  BY <1>1, <1>2, <1>3, <1>4, <1>5, <1>6 DEF Next

\* The strengthened type invariant holds in every state the system reaches.
LEMMA TypeInvAlways == Spec => []TypeInv
BY TypeInvInit, TypeInvNext, PTL DEF Spec

\* Every variable keeps its type, whatever the number of orders, goroutines,
\* intents, retries and faults: no handler acts on an order, an intent or a
\* status that is not one, and stock_quantity never falls below zero.
THEOREM TypeCorrect == Spec => []TypeOK
<1>1. TypeInv => TypeOK
  BY DEF TypeInv
<1> QED
  BY <1>1, TypeInvAlways, PTL
=============================================================================
