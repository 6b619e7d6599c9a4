---------------------------- MODULE OrderPayments ----------------------------
(***************************************************************************)
(* Orders, payment rows and Stripe intents, with every handler that moves   *)
(* them: internal/orders/{service,admin,repository}.go and                 *)
(* internal/payments/{service,repository}.go.                              *)
(*                                                                         *)
(* A worker is a goroutine serving one call.  It takes one step per SQL     *)
(* statement or transaction and one per Stripe call, so anything another   *)
(* worker does may fall between two of its steps.  What a worker read and   *)
(* still holds in local variables is its record req[w].                    *)
(*                                                                         *)
(* Customers, staff and Stripe are the environment.  Webhooks arrive late,  *)
(* in any order, repeatedly or never.  Crash and the ...Fails actions are   *)
(* the error paths; together they happen at most MaxFaults times.          *)
(***************************************************************************)
EXTENDS Integers, Sequences, FiniteSets, OrderStatus

CONSTANTS Orders, Products, InitialStock,
          Handlers,    \* goroutines serving HTTP requests and webhooks
          Reapers,     \* goroutines running the abandoned-checkout reaper
          StaffEdits,  \* the <<from, to>> status edits staff ask for
          MaxQty,      \* bound: units of one product in one order
          MaxIntents,  \* bound: Stripe intents created for one order
          MaxTries,    \* bound: times a customer confirms one intent
          MaxFaults    \* bound: crashes and failed calls in a behaviour

ASSUME OrderPaymentsAssumption ==
    /\ IsFiniteSet(Orders)
    /\ InitialStock \in [Products -> Nat]
    /\ Handlers \cap Reapers = {}
    /\ StaffEdits \subseteq Statuses \X adminSettableStatuses
    /\ MaxQty \in Nat /\ MaxIntents \in Nat /\ MaxTries \in Nat /\ MaxFaults \in Nat

Workers == Handlers \cup Reapers

\* A Stripe intent carries its order in its metadata; the number tells the
\* intents of one order apart.
Intents == Orders \X (1..MaxIntents)
OrderOf(i) == i[1]

\* No order, and no intent, in hand.
None     == "none"
NoIntent == <<None, 0>>

VARIABLES
    status, items, stock,  \* orders, order_items, products (see StockLedger)
    row,       \* row[i]: payments.status of the row of intent i
    rows,      \* rows[o]: the order's payment rows, by created_at
    intent,    \* intent[i]: the PaymentIntent's status at Stripe
    declined,  \* intents whose last_payment_error is set
    tries,     \* tries[i]: confirmations the customer has made
    shown,     \* intents whose client_secret a browser holds
    refunds,   \* intents whose charge Stripe has refunded
    events,    \* webhook events Stripe has emitted: <<kind, intent>>
    notified,  \* messages published to RabbitMQ: <<kind, intent>>
    reported,  \* orders in the "refund manually" log line
    req,       \* req[w]: what worker w is doing
    faults     \* crashes and failed calls so far

orderVars  == <<status, items, stock>>
rowVars    == <<row, rows>>
stripeVars == <<intent, declined, tries, refunds, events>>
outVars    == <<shown, notified, reported>>
vars       == <<orderVars, rowVars, stripeVars, outVars, req, faults>>

Ledger == INSTANCE StockLedger

-----------------------------------------------------------------------------
(* Types                                                                   *)

RowStatuses == {"none", "pending", "succeeded", "failed", "refunded", "cancelled"}

\* requires_confirmation and requires_action are treated by the code like
\* requires_payment_method without an error and are not told apart from it.
IntentStatuses == {"unborn", "requires_payment_method", "processing", "succeeded", "canceled"}

\* Where a worker can be: the next statement or Stripe call it will make.
ReconcileSteps == {"rec_latest", "rec_get", "mark_paid", "recheck", "row_succeeded",
                   "orphan_row", "row_failed"}
RefundSteps    == {"refund_read", "refund_stripe", "refund_mark"}
CreateSteps    == {"create_check", "create_latest", "create_get", "create_new", "create_row"}
ReapSteps      == {"reap_list", "reap_void", "reap_get", "reap_row"}
OtherSteps     == {"release", "staff_set", "publish_succeeded", "publish_failed"}
Steps == ReconcileSteps \cup RefundSteps \cup CreateSteps \cup ReapSteps \cup OtherSteps

Requests == [pc     : Steps \cup {"idle"},
             order  : Orders \cup {None},
             intent : Intents \cup {NoIntent},  \* the payment row in hand
             seen   : Statuses,             \* order status read earlier
             to     : Statuses,             \* status it will be moved to
             ret    : {"idle", "create_check"},  \* where Reconcile returns
             left   : SUBSET Intents]       \* intents still to be voided

Idle == [pc |-> "idle", order |-> None, intent |-> NoIntent, seen |-> NoOrder,
         to |-> NoOrder, ret |-> "idle", left |-> {}]

TypeOK ==
    /\ Ledger!LedgerTypeOK
    /\ row \in [Intents -> RowStatuses]
    /\ rows \in [Orders -> Seq(Intents)]
    /\ intent \in [Intents -> IntentStatuses]
    /\ declined \subseteq Intents
    /\ tries \in [Intents -> 0..MaxTries]
    /\ shown \subseteq Intents
    /\ refunds \subseteq Intents
    /\ events \subseteq {"succeeded", "failed"} \X Intents
    /\ notified \subseteq {"succeeded", "failed"} \X Intents
    /\ reported \subseteq Orders
    /\ req \in [Workers -> Requests]
    /\ faults \in 0..MaxFaults

Init ==
    /\ Ledger!Init
    /\ row = [i \in Intents |-> "none"]
    /\ rows = [o \in Orders |-> <<>>]
    /\ intent = [i \in Intents |-> "unborn"]
    /\ tries = [i \in Intents |-> 0]
    /\ declined = {} /\ shown = {} /\ refunds = {}
    /\ events = {} /\ notified = {} /\ reported = {}
    /\ req = [w \in Workers |-> Idle]
    /\ faults = 0

-----------------------------------------------------------------------------
(* Moving a worker along                                                   *)

At(w, pc) == req[w].pc = pc

Goto(w, pc) == req' = [req EXCEPT ![w].pc = pc]

Done(w) == req' = [req EXCEPT ![w] = Idle]

\* Reconcile returns: to CreateIntent, which reloads the order, or to a caller
\* that has nothing left to change.
Returned(w) == IF req[w].ret = "idle" THEN Idle
               ELSE [Idle EXCEPT !.pc = req[w].ret, !.order = req[w].order]
Return(w) == req' = [req EXCEPT ![w] = Returned(w)]

\* An idle worker takes a call about order o.
Start(w, o, r) == /\ At(w, "idle")
                  /\ req' = [req EXCEPT ![w] = [r EXCEPT !.order = o]]

\* Mutant: UpdateStatus in place of the compare-and-set.
TransitionStatus_Blind(o, from, to) == status' = [status EXCEPT ![o] = to]

\* A Postgres compare-and-set: TransitionStatus(from, to) outside or inside a
\* transaction.  It flips the row only if it is still in the status read.
TransitionStatus(o, from, to) ==
    status' = IF status[o] = from THEN [status EXCEPT ![o] = to] ELSE status

\* Mutant: restocks without asking whether the status flipped.
ReleaseTx_Always(o, from, to) ==
    /\ TransitionStatus(o, from, to)
    /\ stock' = [p \in Products |-> stock[p] + items[o][p]]
    /\ UNCHANGED items

\* The tail that Cancel, AdminUpdateStatus, AdminRefund, MarkPaymentFailed and
\* the reaper share: one transaction that flips the status and, only when it
\* flipped, puts every item back.
ReleaseTx(o, from, to) ==
    /\ TransitionStatus(o, from, to)
    /\ stock' = IF status[o] = from
                THEN [p \in Products |-> stock[p] + items[o][p]]
                ELSE stock
    /\ UNCHANGED items

HasRow(o) == rows[o] # <<>>
LatestForOrder(o) == rows[o][Len(rows[o])]

-----------------------------------------------------------------------------
(* Orders: checkout, cancel, staff                                         *)

\* Mutant: takes the units without comparing them with the stock.
PlaceOrder_Unchecked(o, want) ==
    /\ \E p \in Products : want[p] > 0
    /\ status[o] = NoOrder
    /\ status' = [status EXCEPT ![o] = StatusPendingPayment]
    /\ items' = [items EXCEPT ![o] = want]
    /\ stock' = [p \in Products |-> stock[p] - want[p]]
    /\ UNCHANGED <<rowVars, stripeVars, outVars, req, faults>>

\* The checkout transaction as one step; its locks are the subject of Checkout.
PlaceOrder(o, want) ==
    /\ \E p \in Products : want[p] > 0
    /\ Ledger!Reserve(o, want)
    /\ UNCHANGED <<rowVars, stripeVars, outVars, req, faults>>

\* Mutant: cancels a paid order as refunded without calling RefundOrder.
Cancel_NoRefund(w, o) ==
    /\ cancellable(status[o])
    /\ Start(w, o, [Idle EXCEPT
           !.pc = "release",
           !.seen = status[o],
           !.to = IF status[o] = StatusPaid THEN StatusRefunded ELSE StatusCancelled])
    /\ UNCHANGED <<orderVars, rowVars, stripeVars, outVars, faults>>

Cancel(w, o) ==
    /\ cancellable(status[o])
    /\ Start(w, o, [Idle EXCEPT
           !.pc = IF status[o] = StatusPaid THEN "refund_read" ELSE "release",
           !.seen = status[o],
           !.to = IF status[o] = StatusPaid THEN StatusRefunded ELSE StatusCancelled])
    /\ UNCHANGED <<orderVars, rowVars, stripeVars, outVars, faults>>

AdminRefund(w, o) ==
    /\ refundable(status[o])
    /\ Start(w, o, [Idle EXCEPT !.pc = "refund_read", !.seen = status[o], !.to = StatusRefunded])
    /\ UNCHANGED <<orderVars, rowVars, stripeVars, outVars, faults>>

AdminUpdateStatus(w, o, to) ==
    /\ to \in adminSettableStatuses /\ <<status[o], to>> \in StaffEdits
    /\ status[o] # NoOrder
    /\ to = StatusCancelled => status[o] = StatusPendingPayment
    /\ Start(w, o, [Idle EXCEPT !.pc = IF to = StatusCancelled THEN "release" ELSE "staff_set",
                                !.seen = status[o], !.to = to])
    /\ UNCHANGED <<orderVars, rowVars, stripeVars, outVars, faults>>

StaffSet(w) ==
    /\ At(w, "staff_set")
    /\ TransitionStatus(req[w].order, req[w].seen, req[w].to)
    /\ Done(w)
    /\ UNCHANGED <<items, stock, rowVars, stripeVars, outVars, faults>>

\* MarkPaymentFailed goes on to publish whether or not it flipped the order;
\* the other callers are finished.
Release(w) ==
    /\ At(w, "release")
    /\ ReleaseTx(req[w].order, req[w].seen, req[w].to)
    /\ IF req[w].to = StatusPaymentFailed THEN Goto(w, "publish_failed") ELSE Done(w)
    /\ UNCHANGED <<rowVars, stripeVars, outVars, faults>>

-----------------------------------------------------------------------------
(* Payments: RefundOrder                                                   *)

\* Cancel and AdminRefund call RefundOrder on the way to StatusRefunded;
\* applySucceeded calls it for a charge with no live order behind it.
ForOrphan(w) == req[w].to # StatusRefunded

AfterRefund(w) == IF ForOrphan(w) THEN Return(w) ELSE Goto(w, "release")

\* Mutant: marks the row refunded before asking Stripe.
RefundRead_MarksFirst(w) ==
    LET o == req[w].order IN
    /\ At(w, "refund_read")
    /\ IF HasRow(o) /\ row[LatestForOrder(o)] = "succeeded"
       THEN req' = [req EXCEPT ![w].pc = "refund_mark", ![w].intent = LatestForOrder(o)]
       ELSE Done(w)
    /\ UNCHANGED <<orderVars, rowVars, stripeVars, outVars, faults>>

RefundRead(w) ==
    LET o == req[w].order IN
    /\ At(w, "refund_read")
    /\ \/ /\ HasRow(o) /\ row[LatestForOrder(o)] = "succeeded"
          /\ req' = [req EXCEPT ![w].pc = "refund_stripe", ![w].intent = LatestForOrder(o)]
          /\ UNCHANGED reported
       \/ /\ HasRow(o) /\ row[LatestForOrder(o)] = "refunded"
          /\ AfterRefund(w)
          /\ UNCHANGED reported
       \/ /\ ~(HasRow(o) /\ row[LatestForOrder(o)] \in {"succeeded", "refunded"})
          /\ IF ForOrphan(w) THEN Return(w) /\ reported' = reported \cup {o}
                             ELSE Done(w) /\ UNCHANGED reported
    /\ UNCHANGED <<orderVars, rowVars, stripeVars, shown, notified, faults>>

\* Keyed by the payment row's id, so refunding twice moves the money once.
RefundStripe(w) ==
    /\ At(w, "refund_stripe")
    /\ refunds' = refunds \cup {req[w].intent}
    /\ Goto(w, "refund_mark")
    /\ UNCHANGED <<orderVars, rowVars, intent, declined, tries, events, outVars, faults>>

MarkRefunded(w) ==
    /\ At(w, "refund_mark")
    /\ row' = [row EXCEPT ![req[w].intent] = "refunded"]
    /\ AfterRefund(w)
    /\ UNCHANGED <<orderVars, rows, stripeVars, outVars, faults>>

-----------------------------------------------------------------------------
(* Payments: webhooks and their side effects                               *)

\* Mutant: takes any row that has left pending for handled.
OnIntentSucceeded_OnlyPending(w, i) ==
    /\ <<"succeeded", i>> \in events
    /\ row[i] = "pending"
    /\ Start(w, OrderOf(i), [Idle EXCEPT !.pc = "mark_paid", !.intent = i])
    /\ UNCHANGED <<orderVars, rowVars, stripeVars, outVars, faults>>

\* A delivery that finds no row, or the row already in the event's status, is
\* acknowledged and changes nothing; it is not a step here.
OnIntentSucceeded(w, i) ==
    /\ <<"succeeded", i>> \in events
    /\ row[i] \notin {"none", "succeeded"}
    /\ Start(w, OrderOf(i), [Idle EXCEPT !.pc = "mark_paid", !.intent = i])
    /\ UNCHANGED <<orderVars, rowVars, stripeVars, outVars, faults>>

OnIntentFailed(w, i) ==
    /\ <<"failed", i>> \in events
    /\ row[i] \notin {"none", "failed"}
    /\ Start(w, OrderOf(i), [Idle EXCEPT !.pc = "row_failed", !.intent = i])
    /\ UNCHANGED <<orderVars, rowVars, stripeVars, outVars, faults>>

\* MarkPaid, first statement.
MarkPaid(w) ==
    /\ At(w, "mark_paid")
    /\ TransitionStatus(req[w].order, StatusPendingPayment, StatusPaid)
    /\ Goto(w, IF status[req[w].order] = StatusPendingPayment THEN "row_succeeded" ELSE "recheck")
    /\ UNCHANGED <<items, stock, rowVars, stripeVars, outVars, faults>>

\* Mutant: takes every order the compare-and-set missed for a paid one.
MarkPaidRecheck_AnyStatus(w) ==
    /\ At(w, "recheck")
    /\ Goto(w, "row_succeeded")
    /\ UNCHANGED <<orderVars, rowVars, stripeVars, outVars, faults>>

\* MarkPaid, second statement: the compare-and-set changed nothing, so ask
\* whether the order is paid already or dead.
MarkPaidRecheck(w) ==
    /\ At(w, "recheck")
    /\ Goto(w, IF isPostPaymentStatus(status[req[w].order]) THEN "row_succeeded" ELSE "orphan_row")
    /\ UNCHANGED <<orderVars, rowVars, stripeVars, outVars, faults>>

\* Mutant: records the charge of a dead order and forgets to refund it.
UpdateSucceeded_NoRefund(w) ==
    /\ At(w, "row_succeeded") \/ At(w, "orphan_row")
    /\ row' = [row EXCEPT ![req[w].intent] = "succeeded"]
    /\ IF At(w, "orphan_row") THEN Return(w) ELSE Goto(w, "publish_succeeded")
    /\ UNCHANGED <<orderVars, rows, stripeVars, outVars, faults>>

UpdateSucceeded(w) ==
    /\ At(w, "row_succeeded") \/ At(w, "orphan_row")
    /\ row' = [row EXCEPT ![req[w].intent] = "succeeded"]
    /\ Goto(w, IF At(w, "orphan_row") THEN "refund_read" ELSE "publish_succeeded")
    /\ UNCHANGED <<orderVars, rows, stripeVars, outVars, faults>>

UpdateFailed(w) ==
    /\ At(w, "row_failed")
    /\ row' = [row EXCEPT ![req[w].intent] = "failed"]
    /\ req' = [req EXCEPT ![w].pc = "release", ![w].seen = StatusPendingPayment,
                          ![w].to = StatusPaymentFailed]
    /\ UNCHANGED <<orderVars, rows, stripeVars, outVars, faults>>

Publish(w) ==
    /\ \/ At(w, "publish_succeeded") /\ notified' = notified \cup {<<"succeeded", req[w].intent>>}
       \/ At(w, "publish_failed") /\ notified' = notified \cup {<<"failed", req[w].intent>>}
    /\ Return(w)
    /\ UNCHANGED <<orderVars, rowVars, stripeVars, shown, reported, faults>>

-----------------------------------------------------------------------------
(* Payments: Reconcile, reached from a read of a pending order             *)

\* ListMine on a pending order, a worker for each order that reconcileMany
\* starts a goroutine for; GetByID does the same for one.
ViewOrder(w, o) ==
    /\ status[o] = StatusPendingPayment
    /\ Start(w, o, [Idle EXCEPT !.pc = "rec_latest"])
    /\ UNCHANGED <<orderVars, rowVars, stripeVars, outVars, faults>>

ReconcileLatest(w) ==
    LET o == req[w].order IN
    /\ At(w, "rec_latest")
    /\ IF HasRow(o) /\ row[LatestForOrder(o)] = "pending"
       THEN req' = [req EXCEPT ![w].pc = "rec_get", ![w].intent = LatestForOrder(o)]
       ELSE Return(w)
    /\ UNCHANGED <<orderVars, rowVars, stripeVars, outVars, faults>>

\* Mutant: takes a processing intent for a charge.
ReconcileGet_Early(w) ==
    LET i == req[w].intent IN
    /\ At(w, "rec_get")
    /\ CASE intent[i] \in {"succeeded", "processing"} -> Goto(w, "mark_paid")
         [] intent[i] = "canceled" \/ (intent[i] = "requires_payment_method" /\ i \in declined)
              -> Goto(w, "row_failed")
         [] OTHER -> Return(w)
    /\ UNCHANGED <<orderVars, rowVars, stripeVars, outVars, faults>>

ReconcileGet(w) ==
    LET i == req[w].intent IN
    /\ At(w, "rec_get")
    /\ CASE intent[i] = "succeeded" -> Goto(w, "mark_paid")
         [] intent[i] = "canceled" \/ (intent[i] = "requires_payment_method" /\ i \in declined)
              -> Goto(w, "row_failed")
         [] OTHER -> Return(w)
    /\ UNCHANGED <<orderVars, rowVars, stripeVars, outVars, faults>>

-----------------------------------------------------------------------------
(* Payments: CreateIntent                                                  *)

isReusableIntentStatus(s) == s \in {"requires_payment_method", "processing"}

\* CreateIntent loads the order with GetByID, which reconciles it first.
CreateIntent(w, o) ==
    /\ status[o] = StatusPendingPayment
    /\ Start(w, o, [Idle EXCEPT !.pc = "rec_latest", !.ret = "create_check"])
    /\ UNCHANGED <<orderVars, rowVars, stripeVars, outVars, faults>>

CreateCheck(w) ==
    /\ At(w, "create_check")
    /\ IF status[req[w].order] = StatusPendingPayment THEN Goto(w, "create_latest") ELSE Done(w)
    /\ UNCHANGED <<orderVars, rowVars, stripeVars, outVars, faults>>

CreateLatest(w) ==
    LET o == req[w].order IN
    /\ At(w, "create_latest")
    /\ IF HasRow(o) /\ row[LatestForOrder(o)] = "pending"
       THEN req' = [req EXCEPT ![w].pc = "create_get", ![w].intent = LatestForOrder(o)]
       ELSE Goto(w, "create_new")
    /\ UNCHANGED <<orderVars, rowVars, stripeVars, outVars, faults>>

CreateReuse(w) ==
    LET i == req[w].intent IN
    /\ At(w, "create_get")
    /\ IF isReusableIntentStatus(intent[i])
       THEN Done(w) /\ shown' = shown \cup {i}
       ELSE Goto(w, "create_new") /\ UNCHANGED shown
    /\ UNCHANGED <<orderVars, rowVars, stripeVars, notified, reported, faults>>

\* Stripe numbers an order's intents in the order it creates them.
NewIntent(w, i) ==
    /\ At(w, "create_new")
    /\ OrderOf(i) = req[w].order /\ intent[i] = "unborn"
    /\ \A j \in Intents : OrderOf(j) = OrderOf(i) /\ j[2] < i[2] => intent[j] # "unborn"
    /\ intent' = [intent EXCEPT ![i] = "requires_payment_method"]
    /\ req' = [req EXCEPT ![w].pc = "create_row", ![w].intent = i]
    /\ UNCHANGED <<orderVars, rowVars, declined, tries, refunds, events, outVars, faults>>

\* Bound: an order that has used its MaxIntents gets no more; the call fails.
NoIntentLeft(w) ==
    /\ At(w, "create_new")
    /\ \A i \in Intents : OrderOf(i) = req[w].order => intent[i] # "unborn"
    /\ Done(w)
    /\ UNCHANGED <<orderVars, rowVars, stripeVars, outVars, faults>>

\* The row is inserted, then the client_secret goes to the browser.
CreateRow(w) ==
    LET i == req[w].intent IN
    /\ At(w, "create_row")
    /\ row' = [row EXCEPT ![i] = "pending"]
    /\ rows' = [rows EXCEPT ![req[w].order] = Append(@, i)]
    /\ shown' = shown \cup {i}
    /\ Done(w)
    /\ UNCHANGED <<orderVars, stripeVars, notified, reported, faults>>

-----------------------------------------------------------------------------
(* The reaper: ExpireStaleCheckouts and CancelOrderIntents                 *)

\* Age is not modelled: any pending order may have passed pendingOrderTTL.
Reap(w, o) ==
    /\ status[o] = StatusPendingPayment
    /\ Start(w, o, [Idle EXCEPT !.pc = "reap_list", !.seen = StatusPendingPayment,
                                !.to = StatusCancelled])
    /\ UNCHANGED <<orderVars, rowVars, stripeVars, outVars, faults>>

NextToVoid(left) == IF left = {} THEN "release" ELSE "reap_void"

PendingIntentIDsForOrder(o) == {i \in Intents : OrderOf(i) = o /\ row[i] = "pending"}

ReapList(w) ==
    /\ At(w, "reap_list")
    /\ req' = [req EXCEPT ![w].left = PendingIntentIDsForOrder(req[w].order),
                          ![w].pc = NextToVoid(PendingIntentIDsForOrder(req[w].order))]
    /\ UNCHANGED <<orderVars, rowVars, stripeVars, outVars, faults>>

\* i is the one of the intents still to be voided whose row is the oldest.
Oldest(i, left, rs) == \E k \in 1..Len(rs) : /\ rs[k] = i /\ i \in left
                                             /\ \A j \in 1..(k - 1) : rs[j] \notin left

\* Stripe refuses to cancel an intent that is processing, succeeded or canceled.
CancelIntent(w, i) ==
    /\ At(w, "reap_void")
    /\ Oldest(i, req[w].left, rows[req[w].order])
    /\ IF intent[i] = "requires_payment_method"
       THEN /\ intent' = [intent EXCEPT ![i] = "canceled"]
            /\ req' = [req EXCEPT ![w].pc = "reap_row", ![w].intent = i]
       ELSE /\ UNCHANGED intent
            /\ req' = [req EXCEPT ![w].pc = "reap_get", ![w].intent = i]
    /\ UNCHANGED <<orderVars, rowVars, declined, tries, refunds, events, outVars, faults>>

\* Mutant: skips an order with a live payment instead of reconciling it.
ReapGet_Skip(w) ==
    /\ At(w, "reap_get")
    /\ IF intent[req[w].intent] \in {"succeeded", "processing"} THEN Done(w) ELSE Goto(w, "reap_row")
    /\ UNCHANGED <<orderVars, rowVars, stripeVars, outVars, faults>>

\* Stripe refused: a live payment goes to Reconcile, anything else is recorded
\* as cancelled.
ReapGet(w) ==
    /\ At(w, "reap_get")
    /\ IF intent[req[w].intent] \in {"succeeded", "processing"}
       THEN req' = [req EXCEPT ![w] = [Idle EXCEPT !.pc = "rec_latest", !.order = req[w].order]]
       ELSE Goto(w, "reap_row")
    /\ UNCHANGED <<orderVars, rowVars, stripeVars, outVars, faults>>

UpdateCancelled(w) ==
    LET i == req[w].intent
        left == req[w].left \ {i} IN
    /\ At(w, "reap_row")
    /\ row' = IF row[i] = "pending" THEN [row EXCEPT ![i] = "cancelled"] ELSE row
    /\ req' = [req EXCEPT ![w].left = left, ![w].pc = NextToVoid(left)]
    /\ UNCHANGED <<orderVars, rows, stripeVars, outVars, faults>>

-----------------------------------------------------------------------------
(* The customer's browser and Stripe (external)                            *)

ConfirmPayment(i) ==
    /\ i \in shown /\ intent[i] = "requires_payment_method" /\ tries[i] < MaxTries
    /\ intent' = [intent EXCEPT ![i] = "processing"]
    /\ declined' = declined \ {i}
    /\ tries' = [tries EXCEPT ![i] = @ + 1]
    /\ UNCHANGED <<orderVars, rowVars, refunds, events, outVars, req, faults>>

Charge(i) ==
    /\ intent[i] = "processing"
    /\ intent' = [intent EXCEPT ![i] = "succeeded"]
    /\ events' = events \cup {<<"succeeded", i>>}
    /\ UNCHANGED <<orderVars, rowVars, declined, tries, refunds, outVars, req, faults>>

Decline(i) ==
    /\ intent[i] = "processing"
    /\ intent' = [intent EXCEPT ![i] = "requires_payment_method"]
    /\ declined' = declined \cup {i}
    /\ events' = events \cup {<<"failed", i>>}
    /\ UNCHANGED <<orderVars, rowVars, tries, refunds, outVars, req, faults>>

-----------------------------------------------------------------------------
(* Faults                                                                  *)

Fault == faults < MaxFaults /\ faults' = faults + 1

\* The process dies, the request's context ends, or a statement or Stripe call
\* fails and the handler gives up with an error: its remaining steps are lost.
Crash(w) ==
    /\ Fault /\ ~At(w, "idle") /\ Done(w)
    /\ UNCHANGED <<orderVars, rowVars, stripeVars, outVars>>

\* When Reconcile or the reload after it fails, GetByID logs it and hands
\* CreateIntent the order it loaded before, still pending.
ReconcileFails(w) ==
    /\ Fault
    /\ \/ At(w, "create_check")
       \/ /\ req[w].ret = "create_check"
          /\ \/ req[w].pc \in ReconcileSteps
             \/ At(w, "release") /\ req[w].to = StatusPaymentFailed
    /\ req' = [req EXCEPT ![w] = [Idle EXCEPT !.pc = "create_latest", !.order = req[w].order]]
    /\ UNCHANGED <<orderVars, rowVars, stripeVars, outVars>>

\* The automatic refund of an orphaned charge fails: it is logged for a person
\* to refund, and the webhook is acknowledged.
OrphanRefundFails(w) ==
    /\ Fault
    /\ req[w].pc \in RefundSteps /\ ForOrphan(w)
    /\ reported' = reported \cup {req[w].order}
    /\ Return(w)
    /\ UNCHANGED <<orderVars, rowVars, stripeVars, shown, notified>>

\* CreateIntent ignores an error of LatestForOrder or GetIntent and asks Stripe
\* for a new intent.
CreateReuseFails(w) ==
    /\ Fault
    /\ At(w, "create_latest") \/ At(w, "create_get")
    /\ Goto(w, "create_new")
    /\ UNCHANGED <<orderVars, rowVars, stripeVars, outVars>>

\* publishWithRetry gives up after its last attempt and only logs.
PublishFails(w) ==
    /\ Fault
    /\ At(w, "publish_succeeded") \/ At(w, "publish_failed")
    /\ Return(w)
    /\ UNCHANGED <<orderVars, rowVars, stripeVars, outVars>>

-----------------------------------------------------------------------------

Call(w, o) ==
    \/ Cancel(w, o) \/ AdminRefund(w, o) \/ ViewOrder(w, o) \/ CreateIntent(w, o)
    \/ \E to \in adminSettableStatuses : AdminUpdateStatus(w, o, to)

Deliver(w, i) == OnIntentSucceeded(w, i) \/ OnIntentFailed(w, i)

Step(w) ==
    \/ StaffSet(w) \/ Release(w)
    \/ RefundRead(w) \/ RefundStripe(w) \/ MarkRefunded(w)
    \/ MarkPaid(w) \/ MarkPaidRecheck(w) \/ UpdateSucceeded(w) \/ UpdateFailed(w) \/ Publish(w)
    \/ ReconcileLatest(w) \/ ReconcileGet(w)
    \/ CreateCheck(w) \/ CreateLatest(w) \/ CreateReuse(w) \/ NoIntentLeft(w) \/ CreateRow(w)
    \/ ReapList(w) \/ ReapGet(w) \/ UpdateCancelled(w)
    \/ \E i \in Intents : NewIntent(w, i) \/ CancelIntent(w, i)

Failure(w) == \/ Crash(w) \/ ReconcileFails(w) \/ OrphanRefundFails(w)
              \/ CreateReuseFails(w) \/ PublishFails(w)

Next ==
    \/ \E o \in Orders, want \in Ledger!Baskets : PlaceOrder(o, want)
    \/ \E w \in Handlers, o \in Orders : Call(w, o)
    \/ \E w \in Handlers, i \in Intents : Deliver(w, i)
    \/ \E w \in Reapers, o \in Orders : Reap(w, o)
    \/ \E w \in Workers : Step(w) \/ Failure(w)
    \/ \E i \in Intents : ConfirmPayment(i) \/ Charge(i) \/ Decline(i)

Spec == Init /\ [][Next]_vars

(* Fairness.  A goroutine that is not interrupted runs on; the reaper's      *)
(* ticker visits every stale order (a batch is ordered by age); a processing *)
(* intent settles.  Requests and webhooks may never come.                    *)

Fairness ==
    /\ \A w \in Workers : WF_vars(Step(w))
    /\ \A o \in Orders : SF_vars(\E w \in Reapers : Reap(w, o))
    /\ \A i \in Intents : WF_vars(Charge(i) \/ Decline(i))

FairSpec == Spec /\ Fairness

\* Stripe redelivers a payment_intent.succeeded event until a handler takes it.
DeliveryFairness ==
    \A i \in Intents : SF_vars(\E w \in Handlers : OnIntentSucceeded(w, i))

WebhookSpec == FairSpec /\ DeliveryFairness

-----------------------------------------------------------------------------
(* Safety                                                                  *)

Charged(o)  == \E i \in Intents : OrderOf(i) = o /\ intent[i] = "succeeded"
Reversed(o) == \E i \in Intents : OrderOf(i) = o /\ i \in refunds

Working(w, o, pcs) == req[w].order = o /\ req[w].pc \in pcs

\* No interleaving of checkout, cancel, reaper, failed payment, staff refund and
\* their errors loses a unit of stock or returns one twice.
StockConserved == Ledger!StockConserved

\* "Any order past pending_payment has been charged" (orders/admin.go:70): an
\* order that is to be fulfilled, or whose money went back, has a charge that
\* Stripe reports as succeeded.
PaidIsCharged ==
    \A o \in Orders : status[o] \in PostPayment \cup {StatusRefunded} => Charged(o)

\* An order is called refunded only after Stripe has returned a charge of it:
\* Cancel and AdminRefund refund first and flip the status last, whatever fails
\* in between.
RefundedIsReversed ==
    \A o \in Orders : status[o] = StatusRefunded => Reversed(o)

\* The payments table never claims money it does not have: a succeeded row is a
\* succeeded intent, a refunded row a refunded one, and nothing is refunded that
\* was not charged (UpdateSucceeded and MarkRefunded after any race).
RowsTellTheTruth ==
    \A i \in Intents :
        /\ row[i] \in {"succeeded", "refunded"} => intent[i] = "succeeded"
        /\ row[i] = "refunded" => i \in refunds
        /\ i \in refunds => intent[i] = "succeeded"

\* MarkPaid's bool ("the caller must not confirm the purchase"): the
\* payment.succeeded message that becomes the confirmation email is published
\* only for an order that is paid for and was alive when the charge landed.
ConfirmOnlyPaid ==
    \A i \in Intents : <<"succeeded", i>> \in notified =>
        /\ intent[i] = "succeeded"
        /\ status[OrderOf(i)] \in PostPayment \cup {StatusRefunded}

\* Once a row says succeeded no webhook will be acted on for it again
\* (onIntentSucceeded), so by then the charge must be backed by a live order,
\* refunded, reported, or in the hands of a worker that is refunding it
\* (applySucceeded: "Auto-refund; if that fails, the log line is the signal for
\* a manual refund", and "must only be set once everything else is durably done").
ChargeAccounted ==
    \A i \in Intents : row[i] = "succeeded" =>
        \/ status[OrderOf(i)] \in PostPayment
        \/ i \in refunds
        \/ OrderOf(i) \in reported
        \/ \E w \in Workers : Working(w, OrderOf(i), RefundSteps)

\* Forward edits are compare-and-set "so two admins can't race the same order
\* into an inconsistent state" (orders/admin.go:105): an order being fulfilled
\* has not had its money returned, except while a worker that will find it in
\* the status it read is about to mark it refunded.
NotRefundedAndFulfilled ==
    \A o \in Orders :
        status[o] \in PostPayment /\ HasRow(o) /\ row[LatestForOrder(o)] = "refunded" =>
            \E w \in Workers : Working(w, o, {"release"}) /\ req[w].seen = status[o]

(* Implementation                                                          *)

\* Stock, statuses and items move only as the ledger allows: reserve once,
\* settle from pending, release once, and never leave a released status.
ImplementsLedger == Ledger!Spec

(* Liveness                                                                *)

\* No checkout holds stock for ever: a pending order is paid, failed or
\* cancelled in the end, even if no webhook ever arrives (the reaper, and
\* Reconcile as "the safety net for missed webhooks").
CheckoutResolves ==
    \A o \in Orders : (status[o] = StatusPendingPayment) ~> (status[o] # StatusPendingPayment)

\* Money taken for a dead order goes back: a charge that landed on an order
\* that was failed or cancelled is refunded or reported for a manual refund.
OrphanSettled ==
    \A i \in Intents :
        (intent[i] = "succeeded" /\ status[OrderOf(i)] \in Released)
            ~> (i \in refunds \/ OrderOf(i) \in reported)
=============================================================================
