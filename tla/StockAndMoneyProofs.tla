------------------------- MODULE StockAndMoneyProofs --------------------------
(***************************************************************************)
(* OrderPayments implements StockLedger for as long as staff edit paid       *)
(* orders only, and conserves stock for as long as they revive no dead one.  *)
(* What the orders and payments tables say about money is true of Stripe,    *)
(* for each order that staff did not move forward unpaid.  A recorded charge *)
(* is accounted for.  An order whose money was returned is fulfilled only    *)
(* after one of two things.                                                  *)
(***************************************************************************)
EXTENDS OrderPaymentsProofs

USE DEF StatusPendingPayment, StatusPaid, StatusPaymentFailed, StatusProcessing,
        StatusShipped, StatusDelivered, StatusCancelled, StatusRefunded, NoOrder

\* AdminUpdateStatus moves an order forward from whatever status it read.  What
\* the claims about money and stock need is said of the edits under way: those
\* of order o start from a status it reached by being paid for,
PaidEdits(o) ==
    \A w \in Workers : At(w, "staff_set") /\ req[w].order = o => req[w].seen \in PostPayment

\* those of every order do,
StaffCareful == \A o \in Orders : PaidEdits(o)

\* or no edit starts from an order that is dead, or not yet placed, and whose
\* units are on the shelf.
NoneRevived == \A w \in Workers : At(w, "staff_set") => req[w].seen \in Holding

\* The edits staff ask for are of such a kind when a forward one is asked of
\* paid orders only, as a staff member who reads the page does.
StaffDiscipline ==
    \A e \in StaffEdits : e[2] = StatusCancelled \/ e[1] \in PostPayment

\* The steps that change neither status, items nor stock.
LEMMA OnlyFourMoveOrders ==
  ASSUME [Next]_vars
  PROVE  \/ \E o \in Orders, want \in Ledger!Baskets : PlaceOrder(o, want)
         \/ \E w \in Workers : StaffSet(w) \/ Release(w) \/ MarkPaid(w)
         \/ UNCHANGED orderVars
<1>1. ASSUME NEW w \in Workers, Step(w), ~StaffSet(w), ~Release(w), ~MarkPaid(w)
      PROVE  UNCHANGED orderVars
  BY <1>1 DEF Step, RefundRead, RefundStripe, MarkRefunded, MarkPaidRecheck, UpdateSucceeded,
     UpdateFailed, Publish, ReconcileLatest, ReconcileGet, CreateCheck, CreateLatest, CreateReuse,
     NoIntentLeft, CreateRow, ReapList, ReapGet, UpdateCancelled, NewIntent, CancelIntent
<1>2. ASSUME NEW w \in Workers, Failure(w) PROVE UNCHANGED orderVars
  BY <1>2 DEF Failure, Crash, ReconcileFails, OrphanRefundFails, CreateReuseFails, PublishFails
<1>3. ASSUME NEW w, NEW o, Call(w, o) \/ Reap(w, o) PROVE UNCHANGED orderVars
  BY <1>3 DEF Call, Cancel, AdminRefund, ViewOrder, CreateIntent, AdminUpdateStatus, Reap
<1>4. ASSUME NEW w, NEW i, Deliver(w, i) PROVE UNCHANGED orderVars
  BY <1>4 DEF Deliver, OnIntentSucceeded, OnIntentFailed
<1>5. ASSUME NEW i, ConfirmPayment(i) \/ Charge(i) \/ Decline(i) PROVE UNCHANGED orderVars
  BY <1>5 DEF ConfirmPayment, Charge, Decline
<1>6. UNCHANGED vars => UNCHANGED orderVars
  BY DEF vars
<1> QED
  BY SMTT(60), <1>1, <1>2, <1>3, <1>4, <1>5, <1>6 DEF Next

\* The transition a worker is about to commit, read off its record.
LEMMA ReleasePair ==
  ASSUME TypeInv, NEW w \in Workers, At(w, "release")
  PROVE  /\ req[w].order \in Orders
         /\ \/ /\ req[w].seen = StatusPendingPayment
               /\ req[w].to \in {StatusPaymentFailed, StatusCancelled}
            \/ req[w].seen \in PostPayment /\ req[w].to = StatusRefunded
BY DEF TypeInv, WorkersOK, Sane, At

\* A forward edit, read off the record.
LEMMA StaffPair ==
  ASSUME TypeInv, NEW w \in Workers, At(w, "staff_set")
  PROVE  /\ req[w].order \in Orders
         /\ req[w].to \in {StatusProcessing, StatusShipped, StatusDelivered}
<1>1. /\ req[w].order \in Orders
      /\ <<req[w].seen, req[w].to>> \in StaffEdits /\ req[w].to # StatusCancelled
  BY DEF TypeInv, WorkersOK, Sane, At
<1>2. <<req[w].seen, req[w].to>> \in Statuses \X adminSettableStatuses
  BY <1>1, OrderPaymentsAssumption
<1>3. req[w].to \in {StatusProcessing, StatusShipped, StatusDelivered}
  BY <1>1, <1>2 DEF adminSettableStatuses
<1> QED
  BY <1>1, <1>3

\* Careful staff revive nothing.
LEMMA CarefulRevivesNone == TypeInv /\ StaffCareful => NoneRevived
<1> SUFFICES ASSUME TypeInv, StaffCareful, NEW w \in Workers, At(w, "staff_set")
             PROVE  req[w].seen \in Holding
  BY DEF NoneRevived
<1>1. req[w].order \in Orders
  BY StaffPair
<1> QED
  BY <1>1 DEF StaffCareful, PaidEdits, Holding

\* Staff who ask for nothing else are careful throughout.
LEMMA DisciplineIsCare == ASSUME StaffDiscipline PROVE Spec => []StaffCareful
<1>1. TypeInv => StaffCareful
  <2> SUFFICES ASSUME TypeInv, NEW w \in Workers, At(w, "staff_set")
               PROVE  req[w].seen \in PostPayment
    BY DEF StaffCareful, PaidEdits
  <2>1. <<req[w].seen, req[w].to>> \in StaffEdits /\ req[w].to # StatusCancelled
    BY DEF TypeInv, WorkersOK, Sane, At
  <2>2. \/ <<req[w].seen, req[w].to>>[2] = StatusCancelled
        \/ <<req[w].seen, req[w].to>>[1] \in PostPayment
    BY <2>1 DEF StaffDiscipline
  <2> QED
    BY <2>1, <2>2
<1> QED
  BY <1>1, TypeInvAlways, PTL

\* Whatever the handlers, the reaper, Stripe and the faults do, stock and
\* statuses move as the ledger allows, unless staff move an unpaid order.
LEMMA LedgerSteps ==
  ASSUME TypeInv, [Next]_vars
  PROVE  \/ Ledger!Next \/ UNCHANGED <<status, items, stock>>
         \/ \E w \in Workers : StaffSet(w) /\ req[w].seen \notin PostPayment
<1> USE DEF Ledger!PostPayment, Ledger!Holding, Ledger!Released, Ledger!NoOrder,
            Ledger!StatusPendingPayment, Ledger!StatusPaid, Ledger!StatusPaymentFailed,
            Ledger!StatusProcessing, Ledger!StatusShipped, Ledger!StatusDelivered,
            Ledger!StatusCancelled, Ledger!StatusRefunded
<1>0. status \in [Orders -> Statuses]
  BY StatusType DEF TypeInv
<1>1. ASSUME NEW o \in Orders, NEW want \in Ledger!Baskets, PlaceOrder(o, want)
      PROVE  Ledger!Next
  BY <1>1 DEF PlaceOrder, Ledger!Next
<1>2. ASSUME NEW w \in Workers, StaffSet(w), req[w].seen \in PostPayment
      PROVE  Ledger!Next \/ UNCHANGED <<status, items, stock>>
  <2>1. /\ req[w].order \in Orders
        /\ req[w].to \in Ledger!PostPayment /\ req[w].seen \in Ledger!PostPayment
    BY <1>2, StaffPair DEF StaffSet, PostPayment
  <2>2. CASE status[req[w].order] = req[w].seen
    <3>1. Ledger!Advance(req[w].order, req[w].to)
      BY <1>2, <2>1, <2>2 DEF StaffSet, TransitionStatus, Ledger!Advance
    <3> QED
      BY <2>1, <3>1 DEF Ledger!Next
  <2>3. CASE status[req[w].order] # req[w].seen
    BY <1>2, <2>3 DEF StaffSet, TransitionStatus
  <2> QED
    BY <2>2, <2>3
<1>3. ASSUME NEW w \in Workers, Release(w)
      PROVE  Ledger!Next \/ UNCHANGED <<status, items, stock>>
  <2>1. /\ req[w].order \in Orders /\ req[w].to \in Ledger!Released
        /\ \/ /\ req[w].seen = StatusPendingPayment
              /\ req[w].to \in {StatusPaymentFailed, StatusCancelled}
           \/ req[w].seen \in Ledger!PostPayment /\ req[w].to = StatusRefunded
    BY <1>3, ReleasePair DEF Release, PostPayment
  <2>2. CASE status[req[w].order] = req[w].seen
    <3>1. Ledger!Release(req[w].order, req[w].to)
      BY <1>3, <2>1, <2>2 DEF Release, ReleaseTx, TransitionStatus, Ledger!Release
    <3> QED
      BY <2>1, <3>1 DEF Ledger!Next
  <2>3. CASE status[req[w].order] # req[w].seen
    BY <1>3, <2>3 DEF Release, ReleaseTx, TransitionStatus
  <2> QED
    BY <2>2, <2>3
<1>4. ASSUME NEW w \in Workers, MarkPaid(w)
      PROVE  Ledger!Next \/ UNCHANGED <<status, items, stock>>
  <2>1. req[w].order \in Orders
    BY <1>4 DEF MarkPaid, At, TypeInv, WorkersOK, Sane
  <2>2. CASE status[req[w].order] = StatusPendingPayment
    <3>1. Ledger!Advance(req[w].order, StatusPaid)
      BY <1>4, <2>1, <2>2 DEF MarkPaid, TransitionStatus, Ledger!Advance
    <3> QED
      BY <2>1, <3>1 DEF Ledger!Next
  <2>3. CASE status[req[w].order] # StatusPendingPayment
    BY <1>4, <2>3 DEF MarkPaid, TransitionStatus
  <2> QED
    BY <2>2, <2>3
<1> QED
  BY <1>1, <1>2, <1>3, <1>4, OnlyFourMoveOrders DEF orderVars

\* Refinement: for as long as staff edit paid orders only, stock and statuses
\* move as the ledger allows.
THEOREM Refinement == Spec /\ []StaffCareful => ImplementsLedger
<1>1. Init => Ledger!Init
  BY DEF Init
<1>2. TypeInv /\ StaffCareful /\ [Next]_vars => [Ledger!Next]_(Ledger!ledgerVars)
  <2> SUFFICES ASSUME TypeInv, StaffCareful, [Next]_vars
               PROVE  Ledger!Next \/ UNCHANGED <<status, items, stock>>
    BY DEF Ledger!ledgerVars
  <2>1. ASSUME NEW w \in Workers, StaffSet(w) PROVE req[w].seen \in PostPayment
    BY <2>1, StaffPair DEF StaffSet, StaffCareful, PaidEdits
  <2> QED
    BY <2>1, LedgerSteps
<1> QED
  BY <1>1, <1>2, TypeInvAlways, PTL DEF Spec, Ledger!Spec, ImplementsLedger

-----------------------------------------------------------------------------
(* Conservation of stock in the full system                                *)

Proved == INSTANCE StockLedgerProofs

\* StockLedgerProofs proves things of the same definitions as Ledger names.
LEMMA SameLedger ==
  /\ Ledger!Init => Proved!Init
  /\ [Ledger!Next]_(Ledger!ledgerVars) => [Proved!Next]_(Proved!ledgerVars)
  /\ Ledger!LedgerTypeOK => Proved!LedgerTypeOK
  /\ Ledger!LedgerTypeOK' => Proved!LedgerTypeOK'
  /\ Ledger!StockConserved <=> Proved!StockConserved
<1> USE DEF
            Proved!StatusPendingPayment, Ledger!StatusPendingPayment,
            Proved!StatusPaid, Ledger!StatusPaid, Proved!StatusPaymentFailed,
            Ledger!StatusPaymentFailed, Proved!StatusProcessing,
            Ledger!StatusProcessing, Proved!StatusShipped, Ledger!StatusShipped,
            Proved!StatusDelivered, Ledger!StatusDelivered, Proved!StatusCancelled,
            Ledger!StatusCancelled, Proved!StatusRefunded, Ledger!StatusRefunded,
            Proved!NoOrder, Ledger!NoOrder, Proved!PostPayment, Ledger!PostPayment,
            Proved!Holding, Ledger!Holding, Proved!Released, Ledger!Released,
            Proved!Statuses, Ledger!Statuses
<1>1. Ledger!Init => Proved!Init
  BY DEF Ledger!Init, Proved!Init
<1>2. [Ledger!Next]_(Ledger!ledgerVars) => [Proved!Next]_(Proved!ledgerVars)
  BY DEF Ledger!Next, Proved!Next, Ledger!ledgerVars, Proved!ledgerVars,
     Ledger!Reserve, Proved!Reserve, Ledger!Advance, Proved!Advance,
     Ledger!Release, Proved!Release, Ledger!Baskets, Proved!Baskets
<1>3. /\ Ledger!LedgerTypeOK => Proved!LedgerTypeOK
      /\ Ledger!LedgerTypeOK' => Proved!LedgerTypeOK'
  BY DEF Ledger!LedgerTypeOK, Proved!LedgerTypeOK, Ledger!Baskets, Proved!Baskets
<1>4. \A S : Proved!Cardinality(S) = Ledger!Cardinality(S)
  BY DEF Proved!Cardinality, Ledger!Cardinality, Proved!IsFiniteSet, Ledger!IsFiniteSet
<1>5. \A p : Proved!HeldUnits(p) = Ledger!HeldUnits(p)
  BY DEF Proved!HeldUnits, Ledger!HeldUnits
<1>6. Ledger!StockConserved <=> Proved!StockConserved
  BY <1>4, <1>5 DEF Proved!StockConserved, Ledger!StockConserved
<1> QED
  BY <1>1, <1>2, <1>3, <1>6

\* A forward edit of an order that holds its units leaves it holding them.
LEMMA EditKeepsUnits ==
  ASSUME TypeInv, NEW w \in Workers, StaffSet(w), req[w].seen \in Holding
  PROVE  /\ UNCHANGED <<items, stock>>
         /\ \A o \in Orders : status'[o] \in Proved!Holding <=> status[o] \in Proved!Holding
<1> USE DEF Proved!StatusPendingPayment, Proved!StatusPaid, Proved!StatusProcessing,
            Proved!StatusShipped, Proved!StatusDelivered, Proved!PostPayment, Proved!Holding
<1>0. status \in [Orders -> Statuses] /\ UNCHANGED <<items, stock>>
  BY StatusType DEF TypeInv, StaffSet
<1>1. req[w].to \in Proved!Holding /\ req[w].seen \in Proved!Holding
  BY StaffPair DEF StaffSet, Holding, PostPayment
<1>2. \/ /\ status[req[w].order] = req[w].seen
         /\ status' = [status EXCEPT ![req[w].order] = req[w].to]
      \/ UNCHANGED status
  BY DEF StaffSet, TransitionStatus
<1> QED
  BY <1>0, <1>1, <1>2

\* No unit of stock is lost or returned twice, under any interleaving of
\* checkouts, payments, cancellations, refunds, staff edits, the reaper and
\* faults, for as long as AdminUpdateStatus revives no dead order.
THEOREM NoStockLost == Spec /\ []NoneRevived => []StockConserved
<1>0. Proved!LedgerAssumption
  BY OrderPaymentsAssumption DEF Proved!LedgerAssumption, Proved!IsFiniteSet, IsFiniteSet
<1>1. Init => Proved!StockConserved
  BY <1>0, SameLedger, Proved!ConservedAtFirst DEF Init
<1>2. TypeInv /\ TypeInv' /\ NoneRevived /\ Proved!StockConserved /\ [Next]_vars
        => Proved!StockConserved'
  <2> SUFFICES ASSUME TypeInv, TypeInv', NoneRevived, Proved!StockConserved, [Next]_vars
               PROVE  Proved!StockConserved'
    OBVIOUS
  <2>1. Proved!LedgerTypeOK /\ Proved!LedgerTypeOK'
    BY SameLedger DEF TypeInv, TypeOK
  <2>2. CASE Ledger!Next \/ UNCHANGED <<status, items, stock>>
    <3>1. [Proved!Next]_(Proved!ledgerVars)
      BY <2>2, SameLedger DEF Ledger!ledgerVars
    <3> QED
      BY <1>0, <2>1, <3>1, Proved!ConservedByLedger
  <2>3. ASSUME NEW w \in Workers, StaffSet(w) PROVE Proved!StockConserved'
    <3>1. req[w].seen \in Holding
      BY <2>3 DEF NoneRevived, StaffSet
    <3>2. /\ UNCHANGED <<items, stock>>
          /\ \A o \in Orders : status'[o] \in Proved!Holding <=> status[o] \in Proved!Holding
      BY <2>3, <3>1, EditKeepsUnits
    <3> QED
      BY <1>0, <3>2, Proved!ConservedByMoving
  <2> QED
    BY <2>2, <2>3, LedgerSteps
<1>3. Proved!StockConserved => StockConserved
  BY SameLedger DEF StockConserved
<1> QED
  BY <1>1, <1>2, <1>3, TypeInvAlways, PTL DEF Spec

-----------------------------------------------------------------------------
(* Money.                                                                  *)

\* The statuses an order reaches only by being paid.
PaidLike == PostPayment \cup {StatusRefunded}

\* The steps of a worker that has seen its intent succeed.
HoldsCharge == {"mark_paid", "recheck", "row_succeeded", "orphan_row", "publish_succeeded",
                "refund_stripe", "refund_mark"}

\* What a worker relies on about the money when it comes to act on its record.
Backed(r) ==
    /\ r.pc \in HoldsCharge => intent[r.intent] = "succeeded"
    /\ r.pc = "refund_mark" => r.intent \in refunds
    /\ r.pc = "release" /\ r.to = StatusRefunded => Reversed(r.order)
    /\ r.pc \in {"row_succeeded", "publish_succeeded"} => status[r.order] \in PaidLike

\* Stripe reports a success only when there was one.
EventsAreCharges == \A i \in Intents : <<"succeeded", i>> \in events => intent[i] = "succeeded"

MoneyInv == /\ \A w \in Workers : Backed(req[w])
            /\ EventsAreCharges
            /\ RowsTellTheTruth
            /\ RefundedIsReversed
            /\ ConfirmOnlyPaid

\* A record about which Backed says nothing.
Quiet(r) == r.pc \notin HoldsCharge /\ ~(r.pc = "release" /\ r.to = StatusRefunded)

\* Stripe never takes back a success, a refund or (in the orders table) the
\* fact that an order was once paid.
LEMMA MoneyStands ==
  ASSUME TypeInv, [Next]_vars
  PROVE  /\ \A i \in Intents : intent[i] = "succeeded" => intent'[i] = "succeeded"
         /\ refunds \subseteq refunds'
         /\ \A o \in Orders : status[o] \in PaidLike => status'[o] \in PaidLike
<1> USE DEF orderVars, rowVars, stripeVars, outVars
<1>0. intent \in [Intents -> IntentStatuses] /\ status \in [Orders -> Statuses]
  BY StatusType DEF TypeInv, TypeOK
<1>1. \/ UNCHANGED <<intent, refunds>>
      \/ \E w \in Workers : RefundStripe(w)
      \/ \E w \in Workers, i \in Intents : NewIntent(w, i) \/ CancelIntent(w, i)
      \/ \E i \in Intents : ConfirmPayment(i) \/ Charge(i) \/ Decline(i)
  <2>1. ASSUME NEW w \in Workers, Step(w), ~RefundStripe(w),
               ~\E i \in Intents : NewIntent(w, i) \/ CancelIntent(w, i)
        PROVE  UNCHANGED <<intent, refunds>>
    BY <2>1 DEF Step, StaffSet, Release, RefundRead, MarkRefunded, MarkPaid, MarkPaidRecheck,
       UpdateSucceeded, UpdateFailed, Publish, ReconcileLatest, ReconcileGet, CreateCheck,
       CreateLatest, CreateReuse, NoIntentLeft, CreateRow, ReapList, ReapGet, UpdateCancelled
  <2>2. ASSUME NEW w \in Workers, Failure(w) PROVE UNCHANGED <<intent, refunds>>
    BY <2>2 DEF Failure, Crash, ReconcileFails, OrphanRefundFails, CreateReuseFails, PublishFails
  <2>3. ASSUME NEW w, NEW o, Call(w, o) \/ Reap(w, o) PROVE UNCHANGED <<intent, refunds>>
    <3>1. Call(w, o) => UNCHANGED stripeVars
      BY DEF Call, Cancel, AdminRefund, ViewOrder, CreateIntent, AdminUpdateStatus
    <3>2. Reap(w, o) => UNCHANGED stripeVars
      BY DEF Reap
    <3> QED
      BY <2>3, <3>1, <3>2
  <2>4. ASSUME NEW w, NEW i, Deliver(w, i) PROVE UNCHANGED <<intent, refunds>>
    BY <2>4 DEF Deliver, OnIntentSucceeded, OnIntentFailed
  <2>5. ASSUME NEW o, NEW want, PlaceOrder(o, want) PROVE UNCHANGED <<intent, refunds>>
    BY <2>5 DEF PlaceOrder
  <2>6. UNCHANGED vars => UNCHANGED <<intent, refunds>>
    BY DEF vars
  <2> QED
    BY SMTT(60), <2>1, <2>2, <2>3, <2>4, <2>5, <2>6 DEF Next
<1>2. /\ \A i \in Intents : intent[i] = "succeeded" => intent'[i] = "succeeded"
      /\ refunds \subseteq refunds'
  BY ZenonT(60), <1>0, <1>1 DEF RefundStripe, NewIntent, CancelIntent, ConfirmPayment, Charge, Decline
<1>3. ASSUME NEW o \in Orders, status[o] \in PaidLike PROVE status'[o] \in PaidLike
  <2> USE <1>0, <1>3 DEF PaidLike, PostPayment
  <2>1. ASSUME NEW q \in Orders, NEW want \in Ledger!Baskets, PlaceOrder(q, want)
        PROVE  status'[o] \in PaidLike
    BY <2>1 DEF PlaceOrder, Ledger!Reserve, Ledger!NoOrder
  <2>2. ASSUME NEW w \in Workers, StaffSet(w) PROVE status'[o] \in PaidLike
    BY <2>2, StaffPair DEF StaffSet, TransitionStatus
  <2>3. ASSUME NEW w \in Workers, Release(w) PROVE status'[o] \in PaidLike
    BY <2>3, ReleasePair DEF Release, ReleaseTx, TransitionStatus
  <2>4. ASSUME NEW w \in Workers, MarkPaid(w) PROVE status'[o] \in PaidLike
    BY <2>4 DEF MarkPaid, TransitionStatus
  <2> QED
    BY <2>1, <2>2, <2>3, <2>4, OnlyFourMoveOrders
<1> QED
  BY <1>2, <1>3

\* A worker that is done, or back in CreateIntent, relies on nothing.
LEMMA ReturnedIsQuiet ==
  ASSUME TypeInv, NEW w \in Workers
  PROVE  Quiet(Idle) /\ Quiet(Returned(w))
<1>1. req[w].ret \in {"idle", "create_check"}
  BY DEF TypeInv, WorkersOK, Requests
<1> QED
  BY <1>1 DEF Quiet, Idle, Returned, HoldsCharge

\* A step, or a failure, of one worker leaves the records of the others alone.
LEMMA OthersStand ==
  ASSUME TypeInv, NEW v \in Workers, NEW w \in Workers, w # v, Step(w) \/ Failure(w)
  PROVE  req'[v] = req[v]
<1>0. req \in [Workers -> Requests]
  BY DEF TypeInv, WorkersOK
<1> QED
  BY <1>0 DEF Step, StaffSet, Release, RefundRead, RefundStripe, MarkRefunded, MarkPaid,
     MarkPaidRecheck, UpdateSucceeded, UpdateFailed, Publish, ReconcileLatest, ReconcileGet,
     CreateCheck, CreateLatest, CreateReuse, NoIntentLeft, CreateRow, ReapList, ReapGet,
     UpdateCancelled, NewIntent, CancelIntent, AfterRefund, Failure, Crash, ReconcileFails,
     OrphanRefundFails, CreateReuseFails, PublishFails, Goto, Done, Return

\* The steps after which a worker relies on something about the money.
LEMMA OnlyTheseRely ==
  ASSUME TypeInv, [Next]_vars, NEW v \in Workers
  PROVE  \/ req'[v] = req[v] \/ Quiet(req'[v])
         \/ \E i \in Intents : OnIntentSucceeded(v, i)
         \/ ReconcileGet(v) \/ MarkPaid(v) \/ MarkPaidRecheck(v) \/ UpdateSucceeded(v)
         \/ RefundRead(v) \/ RefundStripe(v) \/ MarkRefunded(v)
<1>0. req \in [Workers -> Requests] /\ req[v] \in Requests /\ Sane(req[v])
  BY SMTT(60) DEF TypeInv, WorkersOK
<1>1. ASSUME NEW w \in Workers, w # v, Step(w) \/ Failure(w) PROVE req'[v] = req[v]
  BY <1>1, OthersStand
<1>2. ASSUME NEW w \in Workers, NEW o \in Orders, Call(w, o) \/ Reap(w, o)
      PROVE  req'[v] = req[v] \/ Quiet(req'[v])
  <2>2. CASE Cancel(w, o)
    <3>1. status[o] \in {StatusPendingPayment, StatusPaid}
      BY <2>2 DEF Cancel, cancellable
    <3> QED
      BY <1>0, <2>2, <3>1 DEF Cancel, Start, Quiet, HoldsCharge, Idle
  <2>3. CASE AdminRefund(w, o)
    BY <1>0, <2>3 DEF AdminRefund, Start, Quiet, HoldsCharge, Idle
  <2>4. CASE ViewOrder(w, o) \/ CreateIntent(w, o)
    <3>1. CASE ViewOrder(w, o)
      BY <1>0, <3>1 DEF ViewOrder, Start, Quiet, HoldsCharge, Idle
    <3>2. CASE CreateIntent(w, o)
      <4>1. PICK x : x.pc = "rec_latest" /\ req' = [req EXCEPT ![w] = x]
        BY <3>2 DEF CreateIntent, Start, Idle
      <4> QED
        BY <1>0, <4>1 DEF Quiet, HoldsCharge
    <3> QED
      BY <2>4, <3>1, <3>2
  <2>5. ASSUME NEW to \in adminSettableStatuses, AdminUpdateStatus(w, o, to)
        PROVE  req'[v] = req[v] \/ Quiet(req'[v])
    BY <1>0, <2>5 DEF AdminUpdateStatus, Start, Quiet, HoldsCharge, Idle, adminSettableStatuses
  <2>6. CASE Reap(w, o)
    BY <1>0, <2>6 DEF Reap, Start, Quiet, HoldsCharge, Idle
  <2> QED
    BY <1>2, <2>2, <2>3, <2>4, <2>5, <2>6 DEF Call
<1>3. ASSUME NEW w \in Workers, NEW i \in Intents, Deliver(w, i)
      PROVE  \/ req'[v] = req[v] \/ Quiet(req'[v])
             \/ \E j \in Intents : OnIntentSucceeded(v, j)
  <2>1. CASE OnIntentFailed(w, i)
    BY <1>0, <2>1 DEF OnIntentFailed, Start, Quiet, HoldsCharge, Idle
  <2>2. CASE OnIntentSucceeded(w, i) /\ w # v
    BY <1>0, <2>2 DEF OnIntentSucceeded, Start
  <2> QED
    BY <1>3, <2>1, <2>2 DEF Deliver
<1>4. ASSUME Failure(v) PROVE Quiet(req'[v])
  <2>1. Crash(v) => req'[v] = Idle
    BY <1>0 DEF Crash, Done
  <2>2. OrphanRefundFails(v) \/ PublishFails(v) => req'[v] = Returned(v)
    BY <1>0 DEF OrphanRefundFails, PublishFails, Return
  <2>3. ReconcileFails(v) => req'[v].pc = "create_latest"
    BY <1>0 DEF ReconcileFails, Idle
  <2>4. CreateReuseFails(v) => req'[v].pc = "create_new"
    BY <1>0 DEF CreateReuseFails, Goto, Requests
  <2> QED
    BY <1>4, <2>1, <2>2, <2>3, <2>4, ReturnedIsQuiet DEF Failure, Quiet, HoldsCharge
<1>5. ASSUME \/ StaffSet(v) \/ Release(v) \/ UpdateFailed(v) \/ Publish(v) \/ ReconcileLatest(v)
             \/ CreateCheck(v) \/ CreateLatest(v) \/ CreateReuse(v) \/ NoIntentLeft(v)
             \/ CreateRow(v) \/ \E i \in Intents : NewIntent(v, i)
      PROVE  Quiet(req'[v])
  <2>1. \/ req'[v] = Idle \/ req'[v] = Returned(v)
        \/ req'[v].pc \in {"publish_failed", "rec_get", "create_latest", "create_get", "create_new",
                           "create_row"}
        \/ req'[v].pc = "release" /\ req'[v].to = StatusPaymentFailed
    <3>1. CASE StaffSet(v) \/ Release(v) \/ Publish(v) \/ CreateReuse(v) \/ NoIntentLeft(v) \/ CreateRow(v)
      BY <1>0, <3>1 DEF StaffSet, Release, Publish, CreateReuse, NoIntentLeft, CreateRow, Done,
         Return, Goto, Requests
    <3>2. CASE UpdateFailed(v) \/ ReconcileLatest(v) \/ CreateCheck(v) \/ CreateLatest(v)
      BY <1>0, <3>2 DEF UpdateFailed, ReconcileLatest, CreateCheck, CreateLatest, Done, Return,
         Goto, Requests
    <3>3. CASE \E i \in Intents : NewIntent(v, i)
      BY <1>0, <3>3 DEF NewIntent, Requests
    <3> QED
      BY <1>5, <3>1, <3>2, <3>3
  <2> QED
    BY <2>1, ReturnedIsQuiet DEF Quiet, HoldsCharge
<1>6. ASSUME \/ ReapList(v) \/ ReapGet(v) \/ UpdateCancelled(v)
             \/ \E i \in Intents : CancelIntent(v, i)
      PROVE  Quiet(req'[v])
  <2>1. req[v].pc \in ReapSteps => req[v].to = StatusCancelled
    BY <1>0 DEF Sane
  <2>2. \/ req'[v].pc \in {"reap_void", "reap_get", "reap_row", "rec_latest"}
        \/ req'[v].pc = "release" /\ req'[v].to = StatusCancelled
    <3>1. ReapList(v) \/ UpdateCancelled(v) => req'[v].pc \in {"reap_void", "release"}
                                                 /\ req'[v].to = req[v].to
      <4>1. CASE ReapList(v)
        BY <1>0, <4>1 DEF ReapList, NextToVoid, Requests
      <4>2. CASE UpdateCancelled(v)
        <5>1. PICK l : req' = [req EXCEPT ![v].left = l, ![v].pc = NextToVoid(l)]
          BY <4>2 DEF UpdateCancelled
        <5> QED
          BY <1>0, <5>1 DEF NextToVoid, Requests
      <4> QED
        BY <4>1, <4>2
    <3>2. ReapGet(v) => req'[v].pc \in {"rec_latest", "reap_row"}
      <4>1. ReapGet(v) => \/ \E x : x.pc = "rec_latest" /\ req' = [req EXCEPT ![v] = x]
                          \/ req' = [req EXCEPT ![v].pc = "reap_row"]
        BY DEF ReapGet, Goto, Idle
      <4> QED
        BY <1>0, <4>1 DEF Requests
    <3>3. (\E i \in Intents : CancelIntent(v, i)) => req'[v].pc \in {"reap_get", "reap_row"}
      BY <1>0 DEF CancelIntent, Requests
    <3> QED
      BY <1>6, <2>1, <3>1, <3>2, <3>3 DEF ReapList, UpdateCancelled, At, ReapSteps
  <2> QED
    BY <2>2 DEF Quiet, HoldsCharge
<1>7. ASSUME NEW o, NEW want, PlaceOrder(o, want) PROVE req' = req
  BY <1>7 DEF PlaceOrder
<1>8. ASSUME NEW i, ConfirmPayment(i) \/ Charge(i) \/ Decline(i) PROVE req' = req
  BY <1>8 DEF ConfirmPayment, Charge, Decline
<1>9. UNCHANGED vars => req' = req
  BY DEF vars
<1>10. Handlers \subseteq Workers /\ Reapers \subseteq Workers
  BY DEF Workers
<1>11. ASSUME Step(v)
       PROVE  \/ Quiet(req'[v])
              \/ ReconcileGet(v) \/ MarkPaid(v) \/ MarkPaidRecheck(v) \/ UpdateSucceeded(v)
              \/ RefundRead(v) \/ RefundStripe(v) \/ MarkRefunded(v)
  BY <1>5, <1>6, <1>11 DEF Step
<1> QED
  BY <1>1, <1>2, <1>3, <1>4, <1>7, <1>8, <1>9, <1>10, <1>11 DEF Next

\* Whatever a worker relies on is still so when it acts: the charge behind a
\* paid order, the refund behind a refunded one.
LEMMA WorkersStayBacked ==
  ASSUME TypeInv, TypeInv', MoneyInv, [Next]_vars, NEW v \in Workers
  PROVE  Backed(req[v])'
<1> USE DEF HoldsCharge, At, Goto
<1>0. /\ req \in [Workers -> Requests] /\ req[v] \in Requests
      /\ Sane(req[v]) /\ Sane(req'[v]) /\ Backed(req[v])
      /\ TypeOK /\ RowsOK /\ EventsAreCharges /\ RowsTellTheTruth
      /\ status \in [Orders -> Statuses] /\ intent \in [Intents -> IntentStatuses]
  BY StatusType DEF TypeInv, WorkersOK, MoneyInv, TypeOK
<1>1. /\ \A i \in Intents : intent[i] = "succeeded" => intent'[i] = "succeeded"
      /\ refunds \subseteq refunds'
      /\ \A o \in Orders : status[o] \in PaidLike => status'[o] \in PaidLike
  BY MoneyStands
<1>2. CASE req'[v] = req[v]
  BY <1>0, <1>1, <1>2 DEF Backed, Sane, HasIntent, HoldsIntent, Reversed
<1>3. CASE Quiet(req'[v])
  BY <1>3 DEF Quiet, Backed
<1>4. ASSUME NEW i \in Intents, OnIntentSucceeded(v, i) PROVE Backed(req[v])'
  <2>1. req'[v].pc = "mark_paid" /\ req'[v].intent = i
    BY <1>0, <1>4 DEF OnIntentSucceeded, Start, Idle
  <2> QED
    BY <1>0, <1>1, <1>4, <2>1 DEF Backed, OnIntentSucceeded, EventsAreCharges
<1>5. ASSUME ReconcileGet(v) PROVE Backed(req[v])'
  <2>1. \/ intent[req[v].intent] = "succeeded" /\ req'[v] = [req[v] EXCEPT !.pc = "mark_paid"]
        \/ Quiet(req'[v])
    <3>1. \/ intent[req[v].intent] = "succeeded" /\ req'[v] = [req[v] EXCEPT !.pc = "mark_paid"]
          \/ req'[v].pc = "row_failed" \/ req'[v] = Returned(v)
      BY <1>0, <1>5 DEF ReconcileGet, Return, Requests
    <3> QED
      BY <3>1, ReturnedIsQuiet DEF Quiet
  <2>2. req[v].intent \in Intents
    BY <1>0, <1>5 DEF ReconcileGet, Sane, HasIntent, HoldsIntent
  <2> QED
    BY <1>0, <1>1, <1>3, <2>1, <2>2 DEF Backed, Requests
<1>6. ASSUME MarkPaid(v) PROVE Backed(req[v])'
  <2>1. req[v].intent \in Intents /\ req[v].order \in Orders /\ intent[req[v].intent] = "succeeded"
    BY <1>0, <1>6 DEF MarkPaid, Sane, HasIntent, HoldsIntent, Backed
  <2>2. /\ req'[v].intent = req[v].intent /\ req'[v].order = req[v].order
        /\ \/ req'[v].pc = "row_succeeded" /\ status'[req[v].order] = StatusPaid
           \/ req'[v].pc = "recheck"
    BY <1>0, <1>6, <2>1 DEF MarkPaid, TransitionStatus, Requests
  <2> QED
    BY <1>1, <2>1, <2>2 DEF Backed, PaidLike, PostPayment
<1>7. ASSUME MarkPaidRecheck(v) PROVE Backed(req[v])'
  <2>1. req[v].intent \in Intents /\ req[v].order \in Orders /\ intent[req[v].intent] = "succeeded"
    BY <1>0, <1>7 DEF MarkPaidRecheck, Sane, HasIntent, HoldsIntent, Backed
  <2>2. /\ req'[v].intent = req[v].intent /\ req'[v].order = req[v].order
        /\ \/ req'[v].pc = "row_succeeded" /\ status[req[v].order] \in PostPayment
           \/ req'[v].pc = "orphan_row"
    BY <1>0, <1>7, <2>1 DEF MarkPaidRecheck, isPostPaymentStatus, Requests
  <2> QED
    BY <1>1, <2>1, <2>2 DEF Backed, PaidLike
<1>8. ASSUME UpdateSucceeded(v) PROVE Backed(req[v])'
  <2>1. /\ req[v].intent \in Intents /\ req[v].order \in Orders /\ intent[req[v].intent] = "succeeded"
        /\ At(v, "orphan_row") \/ status[req[v].order] \in PaidLike
    BY <1>0, <1>8 DEF UpdateSucceeded, Sane, HasIntent, HoldsIntent, Backed
  <2>2. /\ req'[v].intent = req[v].intent /\ req'[v].order = req[v].order
        /\ \/ req'[v].pc = "publish_succeeded" /\ ~At(v, "orphan_row")
           \/ req'[v].pc = "refund_read"
    BY <1>0, <1>8, <2>1 DEF UpdateSucceeded, Requests
  <2> QED
    BY <1>1, <2>1, <2>2 DEF Backed
<1>9. ASSUME RefundRead(v) PROVE Backed(req[v])'
  <2>1. req[v].order \in Orders
    BY <1>0, <1>9 DEF RefundRead, Sane
  <2>2. CASE HasRow(req[v].order) /\ row[LatestForOrder(req[v].order)] = "succeeded"
    <3> DEFINE i == LatestForOrder(req[v].order)
    <3>1. i \in Intents /\ intent[i] = "succeeded"
      BY <1>0, <2>1, <2>2, LatestOK DEF RowsTellTheTruth
    <3>2. req'[v] = [req[v] EXCEPT !.pc = "refund_stripe", !.intent = i]
      BY <1>0, <1>9, <2>2 DEF RefundRead
    <3> QED
      BY <1>0, <1>1, <3>1, <3>2 DEF Backed, Requests
  <2>3. CASE HasRow(req[v].order) /\ row[LatestForOrder(req[v].order)] = "refunded"
    <3> DEFINE i == LatestForOrder(req[v].order)
    <3>1. i \in Intents /\ OrderOf(i) = req[v].order /\ i \in refunds'
      BY <1>0, <1>1, <2>1, <2>3, LatestOK DEF RowsTellTheTruth
    <3>2. \/ req'[v] = [req[v] EXCEPT !.pc = "release"]
          \/ Quiet(req'[v])
      BY <1>0, <1>9, <2>3, ReturnedIsQuiet DEF RefundRead, AfterRefund, Return
    <3>3. CASE req'[v] = [req[v] EXCEPT !.pc = "release"]
      <4>1. req'[v].pc = "release" /\ req'[v].order = req[v].order
        BY <1>0, <3>3 DEF Requests
      <4>2. Reversed(req[v].order)'
        BY <3>1, <4>1 DEF Reversed
      <4> QED
        BY <4>1, <4>2 DEF Backed
    <3> QED
      BY <1>3, <3>2, <3>3
  <2>4. CASE ~(HasRow(req[v].order) /\ row[LatestForOrder(req[v].order)] \in {"succeeded", "refunded"})
    <3>1. Quiet(req'[v])
      BY <1>0, <1>9, <2>4, ReturnedIsQuiet DEF RefundRead, Done, Return
    <3> QED
      BY <1>3, <3>1
  <2> QED
    BY <2>2, <2>3, <2>4
<1>10. ASSUME RefundStripe(v) PROVE Backed(req[v])'
  <2>1. req[v].intent \in Intents /\ intent[req[v].intent] = "succeeded"
    BY <1>0, <1>10 DEF RefundStripe, Sane, HasIntent, HoldsIntent, Backed
  <2>2. req'[v].intent = req[v].intent /\ req'[v].pc = "refund_mark" /\ req[v].intent \in refunds'
    BY <1>0, <1>10 DEF RefundStripe, Requests
  <2> QED
    BY <1>1, <2>1, <2>2 DEF Backed
<1>11. ASSUME MarkRefunded(v) PROVE Backed(req[v])'
  <2>1. /\ req[v].intent \in Intents /\ OrderOf(req[v].intent) = req[v].order
        /\ req[v].intent \in refunds'
    BY <1>0, <1>1, <1>11 DEF MarkRefunded, Sane, HasIntent, HoldsIntent, Backed
  <2>2. \/ req'[v] = [req[v] EXCEPT !.pc = "release"]
        \/ Quiet(req'[v])
    BY <1>0, <1>11, ReturnedIsQuiet DEF MarkRefunded, AfterRefund, Return
  <2>3. CASE req'[v] = [req[v] EXCEPT !.pc = "release"]
    <3>1. req'[v].pc = "release" /\ req'[v].order = req[v].order
      BY <1>0, <2>3 DEF Requests
    <3>2. Reversed(req[v].order)'
      BY <2>1, <3>1 DEF Reversed
    <3> QED
      BY <3>1, <3>2 DEF Backed
  <2> QED
    BY <1>3, <2>2, <2>3
<1> QED
  BY <1>2, <1>3, <1>4, <1>5, <1>6, <1>7, <1>8, <1>9, <1>10, <1>11, OnlyTheseRely

\* Payment rows change in five places,
LEMMA OnlyRowWriters ==
  ASSUME [Next]_vars
  PROVE  \/ UNCHANGED rowVars
         \/ \E w \in Workers : \/ CreateRow(w) \/ UpdateFailed(w) \/ UpdateCancelled(w)
                               \/ UpdateSucceeded(w) \/ MarkRefunded(w)
<1> USE DEF orderVars, rowVars, stripeVars, outVars
<1>1. ASSUME NEW w \in Workers, Step(w), ~CreateRow(w), ~UpdateFailed(w), ~UpdateCancelled(w),
             ~UpdateSucceeded(w), ~MarkRefunded(w)
      PROVE  UNCHANGED rowVars
  BY <1>1 DEF Step, StaffSet, Release, RefundRead, RefundStripe, MarkPaid, MarkPaidRecheck,
     Publish, ReconcileLatest, ReconcileGet, CreateCheck, CreateLatest, CreateReuse,
     NoIntentLeft, ReapList, ReapGet, NewIntent, CancelIntent
<1>2. ASSUME NEW w \in Workers, Failure(w) PROVE UNCHANGED rowVars
  BY <1>2 DEF Failure, Crash, ReconcileFails, OrphanRefundFails, CreateReuseFails, PublishFails
<1>3. ASSUME NEW w, NEW o, Call(w, o) \/ Reap(w, o) PROVE UNCHANGED rowVars
  <2>1. Call(w, o) => UNCHANGED rowVars
    BY DEF Call, Cancel, AdminRefund, ViewOrder, CreateIntent, AdminUpdateStatus
  <2>2. Reap(w, o) => UNCHANGED rowVars
    BY DEF Reap
  <2> QED
    BY <1>3, <2>1, <2>2
<1>4. ASSUME NEW w, NEW j, Deliver(w, j) PROVE UNCHANGED rowVars
  BY <1>4 DEF Deliver, OnIntentSucceeded, OnIntentFailed
<1>5. ASSUME NEW o, NEW want, PlaceOrder(o, want) PROVE UNCHANGED rowVars
  BY <1>5 DEF PlaceOrder
<1>6. ASSUME NEW j, ConfirmPayment(j) \/ Charge(j) \/ Decline(j) PROVE UNCHANGED rowVars
  BY <1>6 DEF ConfirmPayment, Charge, Decline
<1>7. UNCHANGED vars => UNCHANGED rowVars
  BY DEF vars
<1> QED
  BY SMTT(60), <1>1, <1>2, <1>3, <1>4, <1>5, <1>6, <1>7 DEF Next

\* and only two of them claim money.
LEMMA OnlyTwoClaimMoney ==
  ASSUME TypeInv, [Next]_vars, NEW i \in Intents
  PROVE  \/ row'[i] = row[i] \/ row'[i] \in {"pending", "failed", "cancelled"}
         \/ \E w \in Workers : UpdateSucceeded(w) /\ i = req[w].intent /\ row'[i] = "succeeded"
         \/ \E w \in Workers : MarkRefunded(w) /\ i = req[w].intent
<1>0. row \in [Intents -> RowStatuses]
  BY DEF TypeInv, TypeOK
<1>1. \/ UNCHANGED row
      \/ \E w \in Workers : \/ CreateRow(w) \/ UpdateFailed(w) \/ UpdateCancelled(w)
                            \/ UpdateSucceeded(w) \/ MarkRefunded(w)
  BY OnlyRowWriters DEF rowVars
<1>2. ASSUME NEW w \in Workers, CreateRow(w) \/ UpdateFailed(w) \/ UpdateCancelled(w)
      PROVE  row'[i] = row[i] \/ row'[i] \in {"pending", "failed", "cancelled"}
  BY <1>0, <1>2 DEF CreateRow, UpdateFailed, UpdateCancelled
<1>3. ASSUME NEW w \in Workers, UpdateSucceeded(w)
      PROVE  row'[i] = row[i] \/ (i = req[w].intent /\ row'[i] = "succeeded")
  BY <1>0, <1>3 DEF UpdateSucceeded
<1>4. ASSUME NEW w \in Workers, MarkRefunded(w) PROVE row'[i] = row[i] \/ i = req[w].intent
  BY <1>0, <1>4 DEF MarkRefunded
<1> QED
  BY <1>1, <1>2, <1>3, <1>4

\* One step changes at most one of: the refunds, the messages, the events.
LEMMA WhereMoneyIsRecorded ==
  ASSUME [Next]_vars
  PROVE  /\ UNCHANGED refunds \/ \E w \in Workers : RefundStripe(w)
         /\ UNCHANGED notified \/ \E w \in Workers : Publish(w)
         /\ UNCHANGED events \/ \E i \in Intents : Charge(i) \/ Decline(i)
<1> USE DEF orderVars, rowVars, stripeVars, outVars
<1>1. ASSUME NEW w \in Workers, Step(w)
      PROVE  /\ UNCHANGED events
             /\ UNCHANGED refunds \/ RefundStripe(w)
             /\ UNCHANGED notified \/ Publish(w)
  BY <1>1 DEF Step, StaffSet, Release, RefundRead, RefundStripe, MarkRefunded, MarkPaid,
     MarkPaidRecheck, UpdateSucceeded, UpdateFailed, ReconcileLatest, ReconcileGet, Publish,
     CreateCheck, CreateLatest, CreateReuse, NoIntentLeft, CreateRow, ReapList, ReapGet,
     UpdateCancelled, NewIntent, CancelIntent
<1>2. ASSUME NEW w \in Workers, Failure(w) PROVE UNCHANGED <<refunds, notified, events>>
  BY <1>2 DEF Failure, Crash, ReconcileFails, OrphanRefundFails, CreateReuseFails, PublishFails
<1>3. ASSUME NEW w, NEW o, Call(w, o) \/ Reap(w, o) PROVE UNCHANGED <<refunds, notified, events>>
  <2>1. Call(w, o) => UNCHANGED <<stripeVars, outVars>>
    BY DEF Call, Cancel, AdminRefund, ViewOrder, CreateIntent, AdminUpdateStatus
  <2>2. Reap(w, o) => UNCHANGED <<stripeVars, outVars>>
    BY DEF Reap
  <2> QED
    BY <1>3, <2>1, <2>2
<1>4. ASSUME NEW w, NEW i, Deliver(w, i) PROVE UNCHANGED <<refunds, notified, events>>
  BY <1>4 DEF Deliver, OnIntentSucceeded, OnIntentFailed
<1>5. ASSUME NEW o, NEW want, PlaceOrder(o, want) PROVE UNCHANGED <<refunds, notified, events>>
  BY <1>5 DEF PlaceOrder
<1>6. ASSUME NEW i, ConfirmPayment(i) \/ Charge(i) \/ Decline(i)
      PROVE  UNCHANGED <<refunds, notified>> /\ (ConfirmPayment(i) => UNCHANGED events)
  BY <1>6 DEF ConfirmPayment, Charge, Decline
<1>7. UNCHANGED vars => UNCHANGED <<refunds, notified, events>>
  BY DEF vars
<1> QED
  BY SMTT(60), <1>1, <1>2, <1>3, <1>4, <1>5, <1>6, <1>7 DEF Next

\* No step makes a record of money that is not there.
LEMMA MoneyInvNext == TypeInv /\ TypeInv' /\ MoneyInv /\ [Next]_vars => MoneyInv'
<1> SUFFICES ASSUME TypeInv, TypeInv', MoneyInv, [Next]_vars PROVE MoneyInv'
  OBVIOUS
<1>0. /\ req \in [Workers -> Requests] /\ \A w \in Workers : Sane(req[w]) /\ Backed(req[w])
      /\ EventsAreCharges /\ RowsTellTheTruth /\ RefundedIsReversed /\ ConfirmOnlyPaid
      /\ status \in [Orders -> Statuses] /\ intent \in [Intents -> IntentStatuses]
  BY StatusType DEF TypeInv, WorkersOK, MoneyInv, TypeOK
<1>1. /\ \A i \in Intents : intent[i] = "succeeded" => intent'[i] = "succeeded"
      /\ refunds \subseteq refunds'
      /\ \A o \in Orders : status[o] \in PaidLike => status'[o] \in PaidLike
  BY MoneyStands
<1>2. EventsAreCharges'
  <2> SUFFICES ASSUME NEW i \in Intents, <<"succeeded", i>> \in events' PROVE intent'[i] = "succeeded"
    BY DEF EventsAreCharges
  <2>1. CASE <<"succeeded", i>> \in events
    BY <1>0, <1>1, <2>1 DEF EventsAreCharges
  <2>2. CASE <<"succeeded", i>> \notin events
    <3>1. PICK j \in Intents : Charge(j) \/ Decline(j)
      BY <2>2, WhereMoneyIsRecorded
    <3> QED
      BY <1>0, <2>2, <3>1 DEF Charge, Decline
  <2> QED
    BY <2>1, <2>2
<1>3. RowsTellTheTruth'
  <2> SUFFICES ASSUME NEW i \in Intents
               PROVE  /\ row'[i] \in {"succeeded", "refunded"} => intent'[i] = "succeeded"
                      /\ row'[i] = "refunded" => i \in refunds'
                      /\ i \in refunds' => intent'[i] = "succeeded"
    BY DEF RowsTellTheTruth
  <2>1. i \in refunds' => intent'[i] = "succeeded"
    <3>1. CASE i \in refunds
      BY <1>0, <1>1, <3>1 DEF RowsTellTheTruth
    <3>2. ASSUME NEW w \in Workers, RefundStripe(w), i \in refunds', i \notin refunds
          PROVE  intent[i] = "succeeded"
      BY <1>0, <3>2 DEF RefundStripe, Backed, HoldsCharge, At
    <3> QED
      BY <1>1, <3>1, <3>2, WhereMoneyIsRecorded
  <2>2. CASE row'[i] = row[i] \/ row'[i] \in {"pending", "failed", "cancelled"}
    BY <1>0, <1>1, <2>1, <2>2 DEF RowsTellTheTruth
  <2>3. ASSUME NEW w \in Workers, UpdateSucceeded(w), i = req[w].intent, row'[i] = "succeeded"
        PROVE  intent'[i] = "succeeded" /\ row'[i] # "refunded"
    BY <1>0, <1>1, <2>3 DEF UpdateSucceeded, Backed, HoldsCharge, At
  <2>4. ASSUME NEW w \in Workers, MarkRefunded(w), i = req[w].intent
        PROVE  intent'[i] = "succeeded" /\ i \in refunds'
    BY <1>0, <1>1, <2>4 DEF MarkRefunded, Backed, HoldsCharge, At
  <2> QED
    BY <2>1, <2>2, <2>3, <2>4, OnlyTwoClaimMoney
<1>4. RefundedIsReversed'
  <2> SUFFICES ASSUME NEW o \in Orders, status'[o] = StatusRefunded PROVE Reversed(o)'
    BY DEF RefundedIsReversed
  <2>1. CASE status[o] = StatusRefunded
    BY <1>0, <1>1, <2>1 DEF RefundedIsReversed, Reversed
  <2>2. CASE status[o] # StatusRefunded
    <3>1. ASSUME NEW q \in Orders, NEW want \in Ledger!Baskets, PlaceOrder(q, want) PROVE FALSE
      BY <1>0, <2>2, <3>1 DEF PlaceOrder, Ledger!Reserve, Ledger!StatusPendingPayment
    <3>2. ASSUME NEW w \in Workers, StaffSet(w) PROVE FALSE
      BY <1>0, <2>2, <3>2, StaffPair DEF StaffSet, TransitionStatus
    <3>3. ASSUME NEW w \in Workers, MarkPaid(w) PROVE FALSE
      BY <1>0, <2>2, <3>3 DEF MarkPaid, TransitionStatus
    <3>4. ASSUME NEW w \in Workers, Release(w) PROVE Reversed(o)
      <4>1. req[w].order = o /\ req[w].to = StatusRefunded /\ req[w].pc = "release"
        BY <1>0, <2>2, <3>4 DEF Release, ReleaseTx, TransitionStatus, At
      <4> QED
        BY <1>0, <4>1 DEF Backed
    <3>5. ~UNCHANGED orderVars
      BY <2>2 DEF orderVars
    <3>6. Reversed(o) => Reversed(o)'
      BY <1>1 DEF Reversed
    <3> QED
      BY <3>1, <3>2, <3>3, <3>4, <3>5, <3>6, OnlyFourMoveOrders
  <2> QED
    BY <2>1, <2>2
<1>5. ConfirmOnlyPaid'
  <2> SUFFICES ASSUME NEW i \in Intents, <<"succeeded", i>> \in notified'
               PROVE  intent'[i] = "succeeded" /\ status'[OrderOf(i)] \in PaidLike
    BY DEF ConfirmOnlyPaid, PaidLike
  <2>0. OrderOf(i) \in Orders
    BY IntentType
  <2>1. CASE <<"succeeded", i>> \in notified
    BY <1>0, <1>1, <2>0, <2>1 DEF ConfirmOnlyPaid, PaidLike
  <2>2. CASE <<"succeeded", i>> \notin notified
    <3>1. PICK w \in Workers : Publish(w)
      BY <2>2, WhereMoneyIsRecorded
    <3>2. At(w, "publish_succeeded") /\ i = req[w].intent
      BY <2>2, <3>1 DEF Publish
    <3>3. OrderOf(i) = req[w].order
      BY <1>0, <3>2 DEF Sane, HasIntent, HoldsIntent, At
    <3> QED
      BY <1>0, <1>1, <2>0, <3>2, <3>3 DEF Backed, HoldsCharge, At
  <2> QED
    BY <2>1, <2>2
<1> QED
  BY <1>2, <1>3, <1>4, <1>5, WorkersStayBacked DEF MoneyInv

\* At first there is no money.
LEMMA MoneyInvInit == Init => MoneyInv
<1> SUFFICES ASSUME Init PROVE MoneyInv
  OBVIOUS
<1>1. \A w \in Workers : Backed(req[w])
  BY DEF Init, Idle, Backed, HoldsCharge
<1>2. EventsAreCharges /\ RowsTellTheTruth /\ ConfirmOnlyPaid
  BY DEF Init, EventsAreCharges, RowsTellTheTruth, ConfirmOnlyPaid
<1>3. RefundedIsReversed
  BY DEF Init, Ledger!Init, Ledger!NoOrder, RefundedIsReversed
<1> QED
  BY <1>1, <1>2, <1>3 DEF MoneyInv

\* The money invariant holds in every state the system reaches.
LEMMA MoneyInvAlways == Spec => [](TypeInv /\ MoneyInv)
BY MoneyInvInit, MoneyInvNext, TypeInvInit, TypeInvNext, PTL DEF Spec

\* The payments table never claims money that is not there: UpdateSucceeded and
\* MarkRefunded write what Stripe has done, after any race.
THEOREM RowsTruthful == Spec => []RowsTellTheTruth
<1>1. MoneyInv => RowsTellTheTruth
  BY DEF MoneyInv
<1> QED
  BY <1>1, MoneyInvAlways, PTL

\* An order is called refunded only when Stripe has returned a charge of it:
\* Cancel and AdminRefund refund before they flip the status.
THEOREM RefundFirst == Spec => []RefundedIsReversed
<1>1. MoneyInv => RefundedIsReversed
  BY DEF MoneyInv
<1> QED
  BY <1>1, MoneyInvAlways, PTL

\* The confirmation email goes out only for an order that was paid for and
\* alive when the charge landed (MarkPaid's answer, applySucceeded).
THEOREM OnlyPaidConfirmed == Spec => []ConfirmOnlyPaid
<1>1. MoneyInv => ConfirmOnlyPaid
  BY DEF MoneyInv
<1> QED
  BY <1>1, MoneyInvAlways, PTL

\* An order comes to be paid for, fulfilled or refunded only with a charge,
\* unless staff move it forward unpaid.
LEMMA OnlyChargedGoOn ==
  ASSUME TypeInv, MoneyInv, [Next]_vars, NEW o \in Orders, PaidEdits(o),
         status[o] \in PaidLike => Charged(o), status'[o] \in PaidLike
  PROVE  Charged(o)'
<1>0. /\ status \in [Orders -> Statuses]
      /\ \A w \in Workers : Sane(req[w]) /\ Backed(req[w])
  BY StatusType DEF TypeInv, WorkersOK, MoneyInv
<1>1. Charged(o) => Charged(o)'
  BY MoneyStands DEF Charged
<1>2. CASE status[o] \in PaidLike
  BY <1>1, <1>2
<1>3. CASE status[o] \notin PaidLike
  <2> USE <1>0, <1>3 DEF PaidLike, PostPayment
  <2>1. ASSUME NEW q \in Orders, NEW want \in Ledger!Baskets, PlaceOrder(q, want) PROVE FALSE
    BY <2>1 DEF PlaceOrder, Ledger!Reserve, Ledger!StatusPendingPayment
  <2>2. ASSUME NEW w \in Workers, StaffSet(w) PROVE FALSE
    <3>1. req[w].order = o => req[w].seen \in PostPayment
      BY <2>2 DEF StaffSet, PaidEdits
    <3> QED
      BY <2>2, <3>1 DEF StaffSet, TransitionStatus
  <2>3. ASSUME NEW w \in Workers, Release(w) PROVE FALSE
    BY <2>3, ReleasePair DEF Release, ReleaseTx, TransitionStatus
  <2>4. ASSUME NEW w \in Workers, MarkPaid(w) PROVE Charged(o)
    <3>1. req[w].order = o
      BY <2>4 DEF MarkPaid, TransitionStatus
    <3>2. /\ intent[req[w].intent] = "succeeded"
          /\ req[w].intent \in Intents /\ OrderOf(req[w].intent) = req[w].order
      BY <2>4 DEF MarkPaid, At, Sane, HasIntent, HoldsIntent, Backed, HoldsCharge
    <3> QED
      BY <3>1, <3>2 DEF Charged
  <2>5. ~UNCHANGED orderVars
    BY DEF orderVars
  <2> QED
    BY <1>1, <2>1, <2>2, <2>3, <2>4, <2>5, OnlyFourMoveOrders
<1> QED
  BY <1>2, <1>3

\* "Any order past pending_payment has been charged" (orders/admin.go:70) is
\* true of each order that staff do not move forward unpaid, whatever they do
\* with the others.
THEOREM EachPaidOrderCharged ==
  ASSUME NEW o \in Orders
  PROVE  Spec /\ []PaidEdits(o) => [](status[o] \in PostPayment \cup {StatusRefunded} => Charged(o))
<1> DEFINE IfPaid == status[o] \in PostPayment \cup {StatusRefunded} => Charged(o)
<1>1. Init => IfPaid
  BY DEF Init, Ledger!Init, Ledger!NoOrder, PostPayment
<1>2. TypeInv /\ MoneyInv /\ PaidEdits(o) /\ IfPaid /\ [Next]_vars => IfPaid'
  BY OnlyChargedGoOn DEF PaidLike
<1> QED
  BY <1>1, <1>2, MoneyInvAlways, PTL DEF Spec

\* For as long as staff edit paid orders only, every order that is fulfilled or
\* refunded was charged.
THEOREM PaidOnlyIfCharged == Spec /\ []StaffCareful => []PaidIsCharged
<1>1. Init => PaidIsCharged
  BY DEF Init, Ledger!Init, Ledger!NoOrder, PaidIsCharged, PostPayment
<1>2. TypeInv /\ MoneyInv /\ StaffCareful /\ PaidIsCharged /\ [Next]_vars => PaidIsCharged'
  <2> SUFFICES ASSUME TypeInv, MoneyInv, StaffCareful, PaidIsCharged, [Next]_vars,
                      NEW o \in Orders, status'[o] \in PaidLike
               PROVE  Charged(o)'
    BY DEF PaidIsCharged, PaidLike
  <2>1. PaidEdits(o) /\ (status[o] \in PaidLike => Charged(o))
    BY DEF StaffCareful, PaidIsCharged, PaidLike
  <2> QED
    BY <2>1, OnlyChargedGoOn
<1> QED
  BY <1>1, <1>2, MoneyInvAlways, PTL DEF Spec

-----------------------------------------------------------------------------
(* Charges.                                                                *)

\* Order o has not been charged twice.  A second charge is out of RefundOrder's
\* sight, which looks at the latest payment row only (f_second_charge).
OneChargeOf(o) ==
    \A i, j \in Intents :
        /\ OrderOf(i) = o /\ intent[i] = "succeeded"
        /\ OrderOf(j) = o /\ intent[j] = "succeeded"
        => i = j

OneChargeEach == \A o \in Orders : OneChargeOf(o)

\* The one failure that leaves a charge behind: the process dies, or a statement
\* fails, between applySucceeded's UpdateSucceeded, after which no event is
\* acted on, and the end of the refund that follows it.
OrphanDropped == \E w \in Workers : Crash(w) /\ req[w].pc \in RefundSteps /\ ForOrphan(w)

\* ChargeAccounted, of one intent.
Settled(i) ==
    row[i] = "succeeded" =>
        \/ status[OrderOf(i)] \in PostPayment
        \/ i \in refunds
        \/ OrderOf(i) \in reported
        \/ \E w \in Workers : Working(w, OrderOf(i), RefundSteps)

\* The refund that Cancel and AdminRefund ask for is of an order that was paid.
RefundOnPaid(r) ==
    r.pc \in RefundSteps /\ r.to = StatusRefunded => status[r.order] \in PaidLike

\* The charge of intent i is backed, returned, reported or being returned.
Accounted(i) ==
    \/ status[OrderOf(i)] \in PaidLike
    \/ i \in refunds
    \/ OrderOf(i) \in reported
    \/ \E w \in Workers : Working(w, OrderOf(i), RefundSteps)

ChargeInv ==
    /\ \A w \in Workers : RefundOnPaid(req[w])
    /\ \A i \in Intents : row[i] = "succeeded" /\ OneChargeOf(OrderOf(i)) => Accounted(i)

\* How a worker comes to RefundOrder, moves through it and leaves it.
LEMMA RefundOrderSteps ==
  ASSUME TypeInv, [Next]_vars, NEW v \in Workers
  PROVE  \/ req'[v] = req[v]
         \/ RefundRead(v) \/ RefundStripe(v) \/ MarkRefunded(v)
         \/ Failure(v) /\ req'[v].pc \notin RefundSteps
         \/ /\ req[v].pc \notin RefundSteps
            /\ \/ req'[v].pc \notin RefundSteps
               \/ \E o \in Orders : Cancel(v, o) \/ AdminRefund(v, o)
               \/ UpdateSucceeded(v)
<1> USE DEF RefundSteps, At
<1>0. req \in [Workers -> Requests] /\ req[v] \in Requests /\ Sane(req[v])
  BY SMTT(60) DEF TypeInv, WorkersOK
<1>1. ASSUME NEW w \in Workers, w # v, Step(w) \/ Failure(w) PROVE req'[v] = req[v]
  BY <1>1, OthersStand
<1>2. ASSUME NEW w \in Workers, NEW o \in Orders, Call(w, o) \/ Reap(w, o),
             ~(w = v /\ (Cancel(w, o) \/ AdminRefund(w, o)))
      PROVE  req'[v] = req[v] \/ (req[v].pc \notin RefundSteps /\ req'[v].pc \notin RefundSteps)
  <2>1. PICK x : At(w, "idle") /\ req' = [req EXCEPT ![w] = [x EXCEPT !.order = o]]
    BY <1>2 DEF Call, Cancel, AdminRefund, ViewOrder, CreateIntent, AdminUpdateStatus, Reap, Start
  <2>2. CASE w # v
    BY <1>0, <2>1, <2>2
  <2>3. CASE w = v
    <3>1. CASE ViewOrder(v, o)
      BY <1>0, <3>1 DEF ViewOrder, Start, Idle
    <3>2. CASE CreateIntent(v, o)
      BY <1>0, <3>2 DEF CreateIntent, Start, Idle
    <3>3. ASSUME NEW to \in adminSettableStatuses, AdminUpdateStatus(v, o, to)
          PROVE  req[v].pc \notin RefundSteps /\ req'[v].pc \notin RefundSteps
      BY <1>0, <3>3 DEF AdminUpdateStatus, Start, Idle
    <3>4. CASE Reap(v, o)
      BY <1>0, <3>4 DEF Reap, Start, Idle
    <3> QED
      BY <1>2, <2>3, <3>1, <3>2, <3>3, <3>4 DEF Call
  <2> QED
    BY <2>2, <2>3
<1>3. ASSUME NEW w \in Workers, NEW i \in Intents, Deliver(w, i)
      PROVE  req'[v] = req[v] \/ (req[v].pc \notin RefundSteps /\ req'[v].pc \notin RefundSteps)
  <2>1. CASE OnIntentSucceeded(w, i)
    BY <1>0, <2>1 DEF OnIntentSucceeded, Start, Idle
  <2>2. CASE OnIntentFailed(w, i)
    BY <1>0, <2>2 DEF OnIntentFailed, Start, Idle
  <2> QED
    BY <1>3, <2>1, <2>2 DEF Deliver
<1>4. Idle.pc \notin RefundSteps /\ Returned(v).pc \notin RefundSteps
  <2>1. req[v].ret \in {"idle", "create_check"}
    BY <1>0 DEF Requests
  <2> QED
    BY <2>1 DEF Idle, Returned
<1>5. ASSUME Failure(v) PROVE req'[v].pc \notin RefundSteps
  <2>1. Crash(v) => req'[v] = Idle
    BY <1>0 DEF Crash, Done
  <2>2. OrphanRefundFails(v) \/ PublishFails(v) => req'[v] = Returned(v)
    BY <1>0 DEF OrphanRefundFails, PublishFails, Return
  <2>3. ReconcileFails(v) => req'[v].pc = "create_latest"
    BY <1>0 DEF ReconcileFails, Idle
  <2>4. CreateReuseFails(v) => req'[v].pc = "create_new"
    BY <1>0 DEF CreateReuseFails, Goto, Requests
  <2> QED
    BY <1>4, <1>5, <2>1, <2>2, <2>3, <2>4 DEF Failure
<1>6. ASSUME \/ StaffSet(v) \/ Release(v) \/ UpdateFailed(v) \/ Publish(v) \/ ReconcileLatest(v)
             \/ CreateCheck(v) \/ CreateLatest(v) \/ CreateReuse(v) \/ NoIntentLeft(v)
             \/ CreateRow(v) \/ MarkPaid(v) \/ MarkPaidRecheck(v)
             \/ \E i \in Intents : NewIntent(v, i) \/ CancelIntent(v, i)
      PROVE  req[v].pc \notin RefundSteps /\ req'[v].pc \notin RefundSteps
  <2>1. \/ req'[v] = Idle \/ req'[v] = Returned(v)
        \/ req'[v].pc \in {"publish_failed", "rec_get", "create_latest", "create_get", "create_new",
                           "create_row", "release", "row_succeeded", "recheck", "orphan_row",
                           "reap_get", "reap_row"}
    <3>1. CASE StaffSet(v) \/ Release(v) \/ Publish(v) \/ CreateReuse(v) \/ NoIntentLeft(v) \/ CreateRow(v)
      BY <1>0, <3>1 DEF StaffSet, Release, Publish, CreateReuse, NoIntentLeft, CreateRow, Done,
         Return, Goto, Requests
    <3>2. CASE UpdateFailed(v) \/ ReconcileLatest(v) \/ CreateCheck(v) \/ CreateLatest(v)
      BY <1>0, <3>2 DEF UpdateFailed, ReconcileLatest, CreateCheck, CreateLatest, Done, Return,
         Goto, Requests
    <3>3. CASE MarkPaid(v) \/ MarkPaidRecheck(v)
      BY <1>0, <3>3 DEF MarkPaid, MarkPaidRecheck, Goto, Requests
    <3>4. CASE \E i \in Intents : NewIntent(v, i) \/ CancelIntent(v, i)
      BY SMTT(60), <1>0, <3>4 DEF NewIntent, CancelIntent, Requests
    <3> QED
      BY <1>6, <3>1, <3>2, <3>3, <3>4
  <2>2. req[v].pc \notin RefundSteps
    BY <1>6 DEF StaffSet, Release, UpdateFailed, Publish, ReconcileLatest, CreateCheck,
       CreateLatest, CreateReuse, NoIntentLeft, CreateRow, NewIntent, CancelIntent, MarkPaid,
       MarkPaidRecheck
  <2> QED
    BY <1>4, <2>1, <2>2
<1>7. ASSUME ReconcileGet(v) \/ ReapList(v) \/ ReapGet(v) \/ UpdateCancelled(v)
      PROVE  req[v].pc \notin RefundSteps /\ req'[v].pc \notin RefundSteps
  <2>1. CASE ReconcileGet(v)
    <3>1. req'[v].pc \in {"mark_paid", "row_failed"} \/ req'[v] = Returned(v)
      BY <1>0, <2>1 DEF ReconcileGet, Goto, Return, Requests
    <3> QED
      BY <1>4, <2>1, <3>1 DEF ReconcileGet
  <2>2. CASE ReapList(v)
    BY <1>0, <2>2 DEF ReapList, NextToVoid, Requests
  <2>3. CASE ReapGet(v)
    <3>1. \/ \E x : x.pc = "rec_latest" /\ req' = [req EXCEPT ![v] = x]
          \/ req' = [req EXCEPT ![v].pc = "reap_row"]
      BY <2>3 DEF ReapGet, Goto, Idle
    <3> QED
      BY <1>0, <2>3, <3>1 DEF ReapGet, Requests
  <2>4. CASE UpdateCancelled(v)
    <3>1. PICK l : req' = [req EXCEPT ![v].left = l, ![v].pc = NextToVoid(l)]
      BY <2>4 DEF UpdateCancelled
    <3> QED
      BY <1>0, <2>4, <3>1 DEF UpdateCancelled, NextToVoid, Requests
  <2> QED
    BY <1>7, <2>1, <2>2, <2>3, <2>4
<1>8. UpdateSucceeded(v) => req[v].pc \notin RefundSteps
  BY DEF UpdateSucceeded
<1>9. ASSUME NEW o, Cancel(v, o) \/ AdminRefund(v, o) PROVE req[v].pc \notin RefundSteps
  BY <1>9 DEF Cancel, AdminRefund, Start
<1>10. ASSUME NEW o, NEW want, PlaceOrder(o, want) PROVE req' = req
  BY <1>10 DEF PlaceOrder
<1>11. ASSUME NEW i, ConfirmPayment(i) \/ Charge(i) \/ Decline(i) PROVE req' = req
  BY <1>11 DEF ConfirmPayment, Charge, Decline
<1>12. UNCHANGED vars => req' = req
  BY DEF vars
<1>13. Handlers \subseteq Workers /\ Reapers \subseteq Workers
  BY DEF Workers
<1>14. ASSUME Step(v)
       PROVE  \/ RefundRead(v) \/ RefundStripe(v) \/ MarkRefunded(v)
              \/ /\ req[v].pc \notin RefundSteps
                 /\ req'[v].pc \notin RefundSteps \/ UpdateSucceeded(v)
  BY <1>6, <1>7, <1>8, <1>14 DEF Step
<1> HIDE DEF RefundSteps, At
<1> QED
  BY <1>1, <1>2, <1>3, <1>5, <1>9, <1>10, <1>11, <1>12, <1>13, <1>14 DEF Next

\* What has been reported for a manual refund stays reported.
LEMMA ReportsStand ==
  ASSUME [Next]_vars
  PROVE  reported \subseteq reported'
<1> USE DEF outVars
<1>1. ASSUME NEW w \in Workers, Step(w) \/ Failure(w)
      PROVE  reported \subseteq reported'
  BY <1>1 DEF Step, StaffSet, Release, RefundRead, RefundStripe, MarkRefunded, MarkPaid,
     MarkPaidRecheck, UpdateSucceeded, UpdateFailed, Publish, ReconcileLatest, ReconcileGet,
     CreateCheck, CreateLatest, CreateReuse, NoIntentLeft, CreateRow, ReapList, ReapGet,
     UpdateCancelled, NewIntent, CancelIntent, Failure, Crash, ReconcileFails,
     OrphanRefundFails, CreateReuseFails, PublishFails
<1>2. ASSUME NEW w, NEW o, Call(w, o) \/ Reap(w, o) PROVE reported' = reported
  BY <1>2 DEF Call, Cancel, AdminRefund, ViewOrder, CreateIntent, AdminUpdateStatus, Reap
<1>3. ASSUME NEW w, NEW i, Deliver(w, i) PROVE reported' = reported
  BY <1>3 DEF Deliver, OnIntentSucceeded, OnIntentFailed
<1>4. ASSUME NEW o, NEW want, PlaceOrder(o, want) PROVE reported' = reported
  BY <1>4 DEF PlaceOrder
<1>5. ASSUME NEW i, ConfirmPayment(i) \/ Charge(i) \/ Decline(i) PROVE reported' = reported
  BY <1>5 DEF ConfirmPayment, Charge, Decline
<1>6. UNCHANGED vars => reported' = reported
  BY DEF vars
<1> QED
  BY SMTT(60), <1>1, <1>2, <1>3, <1>4, <1>5, <1>6 DEF Next

\* Cancel and AdminRefund start from a paid order, and an order once paid is
\* paid or refunded for good.
LEMMA RefundsStayOnPaid ==
  ASSUME TypeInv, TypeInv', [Next]_vars, NEW v \in Workers, RefundOnPaid(req[v])
  PROVE  RefundOnPaid(req[v])'
<1>0. /\ req \in [Workers -> Requests] /\ req[v] \in Requests /\ Sane(req[v]) /\ Sane(req'[v])
      /\ status \in [Orders -> Statuses]
      /\ \A o \in Orders : status[o] \in PaidLike => status'[o] \in PaidLike
  BY StatusType, MoneyStands DEF TypeInv, WorkersOK
<1>1. SUFFICES ASSUME req'[v].pc \in RefundSteps, req'[v].to = StatusRefunded
               PROVE  status'[req'[v].order] \in PaidLike
  BY DEF RefundOnPaid
<1>2. req'[v].order \in Orders
  BY <1>0, <1>1 DEF Sane, RefundSteps
<1>3. CASE req'[v] = req[v]
  BY <1>0, <1>1, <1>2, <1>3 DEF RefundOnPaid
<1>4. ASSUME NEW o \in Orders, Cancel(v, o) \/ AdminRefund(v, o)
      PROVE  status'[req'[v].order] \in PaidLike
  <2>1. req'[v].order = o
    BY ZenonT(60), <1>0, <1>4 DEF Cancel, AdminRefund, Start, Idle
  <2>2. status[o] \in PaidLike
    <3>1. CASE AdminRefund(v, o)
      BY <3>1 DEF AdminRefund, refundable, PaidLike, PostPayment
    <3>2. CASE Cancel(v, o)
      <4>1. req'[v].pc = IF status[o] = StatusPaid THEN "refund_read" ELSE "release"
        BY <1>0, <3>2 DEF Cancel, Start, Idle
      <4> QED
        BY <1>1, <4>1 DEF RefundSteps, PaidLike, PostPayment
    <3> QED
      BY <1>4, <3>1, <3>2
  <2> QED
    BY <1>0, <2>1, <2>2
<1>5. ASSUME UpdateSucceeded(v) PROVE FALSE
  <2>1. req'[v].to = req[v].to /\ req[v].pc \in ReconcileSteps
    BY <1>0, <1>5 DEF UpdateSucceeded, Goto, At, Requests, ReconcileSteps
  <2> QED
    BY <1>0, <1>1, <2>1 DEF Sane
<1>6. ASSUME RefundRead(v) \/ RefundStripe(v) \/ MarkRefunded(v)
      PROVE  status'[req'[v].order] \in PaidLike
  <2>1. /\ req[v].pc \in RefundSteps
        /\ \/ req'[v].to = req[v].to /\ req'[v].order = req[v].order
           \/ req'[v] = Idle \/ req'[v] = Returned(v)
    BY <1>0, <1>6 DEF RefundRead, RefundStripe, MarkRefunded, AfterRefund, Return, Done, Goto, At,
       Requests, RefundSteps
  <2>2. Idle.to # StatusRefunded /\ Returned(v).to # StatusRefunded
    <3>1. req[v].ret \in {"idle", "create_check"}
      BY <1>0 DEF Requests
    <3> QED
      BY <3>1 DEF Idle, Returned
  <2> QED
    BY <1>0, <1>1, <1>2, <2>1, <2>2 DEF RefundOnPaid
<1> QED
  BY <1>1, <1>3, <1>4, <1>5, <1>6, RefundOrderSteps

\* When an order is not charged twice, what RefundOrder finds returned, or
\* returns, is the one charge of the order.
LEMMA TheOneCharge ==
  ASSUME MoneyInv, NEW i \in Intents, OneChargeOf(OrderOf(i)), intent[i] = "succeeded",
         NEW j \in Intents, OrderOf(j) = OrderOf(i), j \in refunds
  PROVE  i \in refunds
BY DEF MoneyInv, RowsTellTheTruth, OneChargeOf

\* A worker that leaves RefundOrder has seen to the charge of its order, or has
\* reported it, unless it is one that drops it.
LEMMA RefundOrderSettles ==
  ASSUME TypeInv, TypeInv', MoneyInv, MoneyInv', [Next]_vars, ~OrphanDropped,
         NEW v \in Workers, RefundOnPaid(req[v]),
         NEW i \in Intents, OneChargeOf(OrderOf(i))', row[i] = "succeeded", Working(v, OrderOf(i), RefundSteps)
  PROVE  Accounted(i)'
<1>0. /\ req \in [Workers -> Requests] /\ req[v] \in Requests /\ Sane(req[v]) /\ Backed(req[v])
      /\ TypeOK /\ RowsOK /\ status \in [Orders -> Statuses] /\ RowsTellTheTruth
      /\ req[v].order \in Orders /\ req[v].order = OrderOf(i) /\ req[v].pc \in RefundSteps
  BY StatusType, IntentType DEF TypeInv, WorkersOK, MoneyInv, Working
<1>1. /\ intent'[i] = "succeeded" /\ refunds \subseteq refunds'
      /\ \A o \in Orders : status[o] \in PaidLike => status'[o] \in PaidLike
  BY <1>0, MoneyStands DEF RowsTellTheTruth
<1>2. ASSUME NEW j \in Intents, OrderOf(j) = OrderOf(i), j \in refunds' PROVE Accounted(i)'
  <2>1. i \in refunds'
    BY <1>1, <1>2 DEF MoneyInv, RowsTellTheTruth, OneChargeOf
  <2> QED
    BY <2>1 DEF Accounted
<1>3. ASSUME req'[v].order = req[v].order, req'[v].pc \in RefundSteps PROVE Accounted(i)'
  BY <1>0, <1>3 DEF Accounted, Working
<1>4. CASE req'[v] = req[v]
  BY <1>0, <1>3, <1>4
<1>5. CASE RefundStripe(v)
  BY <1>0, <1>3, <1>5 DEF RefundStripe, Goto, RefundSteps, Requests
<1>6. CASE MarkRefunded(v)
  <2>1. req[v].intent \in Intents /\ OrderOf(req[v].intent) = OrderOf(i) /\ req[v].intent \in refunds
    BY <1>0, <1>6 DEF MarkRefunded, At, Sane, HasIntent, HoldsIntent, Backed
  <2> QED
    BY <1>1, <1>2, <2>1
<1>7. CASE RefundRead(v)
  <2> DEFINE o == req[v].order
             l == LatestForOrder(o)
  <2>1. CASE HasRow(o) /\ row[l] = "succeeded"
    <3>1. req' = [req EXCEPT ![v].pc = "refund_stripe", ![v].intent = l]
      BY <1>7, <2>1 DEF RefundRead
    <3> QED
      BY <1>0, <1>3, <3>1 DEF RefundSteps, Requests
  <2>2. CASE HasRow(o) /\ row[l] = "refunded"
    <3>1. l \in Intents /\ OrderOf(l) = OrderOf(i) /\ l \in refunds
      BY <1>0, <2>2, LatestOK DEF RowsTellTheTruth
    <3> QED
      BY <1>1, <1>2, <3>1
  <2>3. CASE ~(HasRow(o) /\ row[l] \in {"succeeded", "refunded"})
    <3>1. CASE ForOrphan(v)
      <4>1. reported' = reported \cup {o}
        BY <1>7, <2>3, <3>1 DEF RefundRead
      <4> QED
        BY <1>0, <4>1 DEF Accounted
    <3>2. CASE ~ForOrphan(v)
      <4>1. status'[OrderOf(i)] \in PaidLike
        BY <1>0, <1>1, <3>2 DEF ForOrphan, RefundOnPaid
      <4> QED
        BY <4>1 DEF Accounted
    <3> QED
      BY <3>1, <3>2
  <2> QED
    BY <2>1, <2>2, <2>3
<1>8. CASE Failure(v)
  <2>1. CASE OrphanRefundFails(v)
    BY <1>0, <2>1 DEF OrphanRefundFails, Accounted
  <2>2. CASE Crash(v)
    <3>1. req[v].to = StatusRefunded
      BY <1>0, <2>2 DEF OrphanDropped, ForOrphan
    <3>2. status'[OrderOf(i)] \in PaidLike
      BY <1>0, <1>1, <3>1 DEF RefundOnPaid
    <3> QED
      BY <3>2 DEF Accounted
  <2>3. CASE ReconcileFails(v) \/ CreateReuseFails(v) \/ PublishFails(v)
    BY <1>0, <2>3 DEF ReconcileFails, CreateReuseFails, PublishFails, At, RefundSteps, ReconcileSteps
  <2> QED
    BY <1>8, <2>1, <2>2, <2>3 DEF Failure
<1> QED
  BY <1>0, <1>4, <1>5, <1>6, <1>7, <1>8, RefundOrderSteps

\* A row that says succeeded, of an order that was not charged twice, is of a
\* charge that is accounted for, and stays so unless its refund is dropped.
LEMMA ChargeInvNext ==
  ASSUME TypeInv, TypeInv', MoneyInv, MoneyInv', ChargeInv, [Next]_vars, ~OrphanDropped
  PROVE  ChargeInv'
<1>0. /\ \A w \in Workers : Sane(req[w]) /\ Backed(req[w]) /\ RefundOnPaid(req[w])
      /\ req \in [Workers -> Requests]
  BY DEF TypeInv, WorkersOK, MoneyInv, ChargeInv
<1>1. \A w \in Workers : RefundOnPaid(req[w])'
  BY <1>0, RefundsStayOnPaid
<1>2. ASSUME NEW i \in Intents, OneChargeOf(OrderOf(i))', row'[i] = "succeeded"
      PROVE  Accounted(i)'
  <2>1. OneChargeOf(OrderOf(i))
    BY <1>2, MoneyStands DEF OneChargeOf
  <2>3. OrderOf(i) \in Orders
    BY IntentType
  <2>4. CASE row[i] = "succeeded"
    <3>1. Accounted(i)
      BY <2>1, <2>4 DEF ChargeInv
    <3>2. ASSUME status[OrderOf(i)] \in PaidLike \/ i \in refunds \/ OrderOf(i) \in reported
          PROVE  Accounted(i)'
      BY <2>3, <3>2, MoneyStands, ReportsStand DEF Accounted
    <3>3. ASSUME NEW w \in Workers, Working(w, OrderOf(i), RefundSteps) PROVE Accounted(i)'
      BY <1>0, <1>2, <2>4, <3>3, RefundOrderSettles
    <3> QED
      BY <3>1, <3>2, <3>3 DEF Accounted
  <2>5. CASE row[i] # "succeeded"
    <3>1. PICK w \in Workers : UpdateSucceeded(w) /\ i = req[w].intent
      <4>1. ~\E w \in Workers : MarkRefunded(w) /\ i = req[w].intent
        BY <1>2, <2>5 DEF MarkRefunded, TypeInv, TypeOK
      <4> QED
        BY <1>2, <2>5, <4>1, OnlyTwoClaimMoney
    <3>2. OrderOf(i) = req[w].order
      BY <1>0, <3>1 DEF UpdateSucceeded, At, Sane, HasIntent, HoldsIntent
    <3>3. CASE At(w, "orphan_row")
      <4>1. req'[w].order = OrderOf(i) /\ req'[w].pc = "refund_read"
        BY <1>0, <3>1, <3>2, <3>3 DEF UpdateSucceeded, Goto, Requests
      <4> QED
        BY <4>1 DEF Accounted, Working, RefundSteps
    <3>4. CASE ~At(w, "orphan_row")
      <4>1. status[OrderOf(i)] \in PaidLike
        BY <1>0, <3>1, <3>2, <3>4 DEF UpdateSucceeded, At, Backed
      <4> QED
        BY <2>3, <4>1, MoneyStands DEF Accounted
    <3> QED
      BY <3>3, <3>4
  <2> QED
    BY <2>4, <2>5
<1> QED
  BY <1>1, <1>2 DEF ChargeInv

\* At first nothing has been charged.
LEMMA ChargeInvInit == Init => ChargeInv
BY DEF Init, Idle, ChargeInv, RefundOnPaid, RefundSteps

\* What ChargeInv says of a charge is what ChargeAccounted says of it.
LEMMA AccountedIsSettled ==
  ASSUME TypeInv, MoneyInv, ChargeInv, NEW i \in Intents, OneChargeOf(OrderOf(i))
  PROVE  Settled(i)
<1> SUFFICES ASSUME row[i] = "succeeded"
             PROVE  \/ status[OrderOf(i)] \in PostPayment
                    \/ i \in refunds
                    \/ OrderOf(i) \in reported
                    \/ \E w \in Workers : Working(w, OrderOf(i), RefundSteps)
  BY DEF Settled
<1>1. Accounted(i) /\ intent[i] = "succeeded" /\ OrderOf(i) \in Orders
  BY IntentType DEF ChargeInv, MoneyInv, RowsTellTheTruth
<1>2. CASE status[OrderOf(i)] = StatusRefunded
  <2>1. PICK j \in Intents : OrderOf(j) = OrderOf(i) /\ j \in refunds
    BY <1>1, <1>2 DEF MoneyInv, RefundedIsReversed, Reversed
  <2> QED
    BY <1>1, <2>1, TheOneCharge
<1> QED
  BY <1>1, <1>2 DEF Accounted, PaidLike

\* Unless a crash drops the refund of an orphaned charge, a charge that the
\* payments table records is backed by a live order, returned, reported for a
\* person to return, or about to be returned by a handler at work on its order,
\* whatever else fails: for each order that was not charged twice, and whatever
\* the number of its intents (applySucceeded, RefundOrder).
THEOREM EachChargeSettled ==
  Spec /\ [][~OrphanDropped]_vars
    => [](\A i \in Intents : OneChargeOf(OrderOf(i)) => Settled(i))
<1>1. TypeInv /\ OrphanDropped => ~UNCHANGED vars
  BY DEF TypeInv, TypeOK, OrphanDropped, Crash, Fault, vars
<1>2. TypeInv /\ MoneyInv /\ ChargeInv /\ [Next]_vars /\ [~OrphanDropped]_vars
        /\ TypeInv' /\ MoneyInv' => ChargeInv'
  BY <1>1, ChargeInvNext
<1>3. TypeInv /\ MoneyInv /\ ChargeInv
        => \A i \in Intents : OneChargeOf(OrderOf(i)) => Settled(i)
  BY AccountedIsSettled
<1> QED
  BY <1>2, <1>3, ChargeInvInit, MoneyInvAlways, PTL DEF Spec

\* So while no order was charged twice, every recorded charge is accounted for
\* ("must only be set once everything else is durably done", applySucceeded).
THEOREM ChargesAccounted ==
  Spec /\ [][~OrphanDropped]_vars => [](OneChargeEach => ChargeAccounted)
<1>1. (\A i \in Intents : OneChargeOf(OrderOf(i)) => Settled(i))
        => (OneChargeEach => ChargeAccounted)
  <2> SUFFICES ASSUME \A i \in Intents : OneChargeOf(OrderOf(i)) => Settled(i), OneChargeEach
               PROVE  \A i \in Intents : Settled(i)
    BY DEF ChargeAccounted, Settled
  <2> QED
    BY IntentType DEF OneChargeEach
<1> QED
  BY <1>1, EachChargeSettled, PTL
-----------------------------------------------------------------------------
(* Refunds and fulfilment.                                                 *)

\* Worker v is returning the money of order o, or is about to call it refunded.
ForRefund(v, o) ==
    Working(v, o, RefundSteps \cup {"release"}) /\ req[v].to = StatusRefunded

\* Staff move an order forward while Cancel or AdminRefund is between the status
\* it read and the one it will write (f_refund_ship_race).
ShippedUnderRefund ==
    \E w, v \in Workers : /\ StaffSet(w) /\ status[req[w].order] = req[w].seen
                          /\ ForRefund(v, req[w].order)

\* Cancel or AdminRefund is cut short between MarkRefunded and the status.
RefundCutShort ==
    \E w \in Workers : Crash(w) /\ At(w, "release") /\ req[w].to = StatusRefunded

\* The statuses of an order whose payment has been decided.
Resolved == PostPayment \cup Released

\* An order somebody works on, or has a payment row, has been placed.
PlacedInv ==
    /\ \A w \in Workers : req[w].pc # "idle" => status[req[w].order] # NoOrder
    /\ \A i \in Intents : row[i] # "none" => status[OrderOf(i)] # NoOrder

\* What a worker knows of its order when it refunds, or asks again after a
\* compare-and-set that missed.
RefundKnows(r) ==
    /\ r.pc \in RefundSteps \cup {"release"} /\ r.to = StatusRefunded =>
           status[r.order] \in {r.seen, StatusRefunded}
    /\ r.pc = "orphan_row" \/ (r.pc \in RefundSteps /\ r.to # StatusRefunded) =>
           status[r.order] \in Released
    /\ r.pc = "recheck" => status[r.order] \in Resolved

RaceInv ==
    /\ PlacedInv
    /\ \A w \in Workers : RefundKnows(req[w])
    /\ \A i \in Intents : row[i] = "refunded" => status[OrderOf(i)] \in Resolved
    /\ NotRefundedAndFulfilled

\* How the status of an order moves.
LEMMA StatusMoves ==
  ASSUME TypeInv, [Next]_vars, NEW o \in Orders
  PROVE  \/ status'[o] = status[o]
         \/ status[o] = NoOrder /\ status'[o] = StatusPendingPayment
         \/ status[o] = StatusPendingPayment /\ status'[o] = StatusPaid
         \/ \E w \in Workers : /\ StaffSet(w) /\ req[w].order = o
                               /\ status[o] = req[w].seen /\ status'[o] = req[w].to
         \/ \E w \in Workers : /\ Release(w) /\ req[w].order = o
                               /\ status[o] = req[w].seen /\ status'[o] = req[w].to
<1>0. status \in [Orders -> Statuses]
  BY StatusType DEF TypeInv
<1>1. ASSUME NEW q \in Orders, NEW want \in Ledger!Baskets, PlaceOrder(q, want)
      PROVE  status'[o] = status[o] \/ (status[o] = NoOrder /\ status'[o] = StatusPendingPayment)
  BY <1>0, <1>1 DEF PlaceOrder, Ledger!Reserve, Ledger!StatusPendingPayment, Ledger!NoOrder
<1>2. ASSUME NEW w \in Workers, StaffSet(w)
      PROVE  \/ status'[o] = status[o]
             \/ req[w].order = o /\ status[o] = req[w].seen /\ status'[o] = req[w].to
  BY <1>0, <1>2 DEF StaffSet, TransitionStatus
<1>3. ASSUME NEW w \in Workers, Release(w)
      PROVE  \/ status'[o] = status[o]
             \/ req[w].order = o /\ status[o] = req[w].seen /\ status'[o] = req[w].to
  BY <1>0, <1>3 DEF Release, ReleaseTx, TransitionStatus
<1>4. ASSUME NEW w \in Workers, MarkPaid(w)
      PROVE  \/ status'[o] = status[o]
             \/ status[o] = StatusPendingPayment /\ status'[o] = StatusPaid
  BY <1>0, <1>4 DEF MarkPaid, TransitionStatus
<1> QED
  BY <1>1, <1>2, <1>3, <1>4, OnlyFourMoveOrders DEF orderVars

\* Without revivals a dead order stays as it is and a resolved one resolved; a
\* placed order stays placed in any case.
LEMMA StatusStands ==
  ASSUME TypeInv, [Next]_vars, NEW o \in Orders
  PROVE  /\ status[o] # NoOrder => status'[o] # NoOrder
         /\ NoneRevived /\ status[o] \in Released => status'[o] = status[o]
         /\ NoneRevived /\ status[o] \in Resolved => status'[o] \in Resolved
<1> USE DEF Resolved, Released, PostPayment
<1>1. ASSUME NEW w \in Workers, StaffSet(w)
      PROVE  /\ req[w].to \in {StatusProcessing, StatusShipped, StatusDelivered}
             /\ NoneRevived => req[w].seen \notin Released
  BY <1>1, StaffPair DEF StaffSet, NoneRevived, Holding
<1>2. ASSUME NEW w \in Workers, Release(w)
      PROVE  /\ req[w].to \in Released
             /\ req[w].seen \notin Released
  BY <1>2, ReleasePair DEF Release
<1> QED
  BY <1>1, <1>2, StatusMoves

\* A payment row is written by a worker at work on its order.
LEMMA RowWriters ==
  ASSUME TypeInv, [Next]_vars, NEW i \in Intents, row'[i] # row[i]
  PROVE  \E w \in Workers : req[w].pc # "idle" /\ req[w].order = OrderOf(i)
<1>0. row \in [Intents -> RowStatuses] /\ \A w \in Workers : Sane(req[w])
  BY DEF TypeInv, TypeOK, WorkersOK
<1>1. PICK w \in Workers : /\ i = req[w].intent
                           /\ req[w].pc \in {"create_row", "row_failed", "reap_row", "row_succeeded",
                                             "orphan_row", "refund_mark"}
  <2>1. PICK w \in Workers : \/ CreateRow(w) \/ UpdateFailed(w) \/ UpdateCancelled(w)
                             \/ UpdateSucceeded(w) \/ MarkRefunded(w)
    BY OnlyRowWriters DEF rowVars
  <2>2. i = req[w].intent
    BY <1>0, <2>1 DEF CreateRow, UpdateFailed, UpdateCancelled, UpdateSucceeded, MarkRefunded
  <2>3. req[w].pc \in {"create_row", "row_failed", "reap_row", "row_succeeded", "orphan_row",
                       "refund_mark"}
    BY <2>1 DEF CreateRow, UpdateFailed, UpdateCancelled, UpdateSucceeded, MarkRefunded, At
  <2> QED
    BY <2>2, <2>3
<1> QED
  BY <1>0, <1>1 DEF Sane, HasIntent, HoldsIntent

\* Only CreateRow lists a row, and one that is pending.
LEMMA LatestStays ==
  ASSUME TypeInv, [Next]_vars, NEW o \in Orders, HasRow(o)', row'[LatestForOrder(o)'] = "refunded"
  PROVE  HasRow(o) /\ LatestForOrder(o)' = LatestForOrder(o)
<1> USE DEF HasRow, LatestForOrder
<1>0. /\ rows \in [Orders -> Seq(Intents)] /\ row \in [Intents -> RowStatuses]
      /\ \A w \in Workers : Sane(req[w])
  BY DEF TypeInv, TypeOK, WorkersOK
<1>1. ASSUME NEW w \in Workers, CreateRow(w), req[w].order = o PROVE FALSE
  <2>1. req[w].intent \in Intents
    BY <1>0, <1>1 DEF CreateRow, At, Sane, HasIntent, HoldsIntent
  <2>2. rows'[o] = Append(rows[o], req[w].intent) /\ row'[req[w].intent] = "pending"
    BY <1>0, <1>1, <2>1 DEF CreateRow
  <2>3. rows'[o][Len(rows'[o])] = req[w].intent
    BY <1>0, <2>1, <2>2
  <2> QED
    BY <2>2, <2>3
<1>2. ASSUME NEW w \in Workers, CreateRow(w), req[w].order # o PROVE rows'[o] = rows[o]
  BY <1>0, <1>2 DEF CreateRow
<1>3. ASSUME NEW w \in Workers,
             UpdateFailed(w) \/ UpdateCancelled(w) \/ UpdateSucceeded(w) \/ MarkRefunded(w)
      PROVE  rows' = rows
  BY <1>3 DEF UpdateFailed, UpdateCancelled, UpdateSucceeded, MarkRefunded
<1>4. rows'[o] = rows[o]
  BY <1>1, <1>2, <1>3, OnlyRowWriters DEF rowVars
<1> QED
  BY <1>4

\* The order a worker has in hand is the one it had, one that a call found
\* placed, or the one of a payment row that a webhook found.
LEMMA OrdersInHand ==
  ASSUME TypeInv, [Next]_vars, NEW v \in Workers
  PROVE  \/ req'[v] = req[v] \/ req'[v].pc = "idle"
         \/ req[v].pc # "idle" /\ req'[v].order = req[v].order
         \/ req'[v].order \in Orders /\ status[req'[v].order] # NoOrder
         \/ \E i \in Intents : row[i] # "none" /\ req'[v].order = OrderOf(i)
<1>0. req \in [Workers -> Requests] /\ req[v] \in Requests
  BY SMTT(60) DEF TypeInv, WorkersOK
<1>1. ASSUME NEW w \in Workers, w # v, Step(w) \/ Failure(w) PROVE req'[v] = req[v]
  BY <1>1, OthersStand
<1>2. ASSUME NEW w \in Workers, NEW o \in Orders, Call(w, o) \/ Reap(w, o)
      PROVE  req'[v] = req[v] \/ (req'[v].order = o /\ status[o] # NoOrder)
  <2>1. req'[v] = req[v] \/ req'[v].order = o
    <3>1. CASE Cancel(w, o)
      BY <1>0, <3>1 DEF Cancel, Start, Idle
    <3>2. CASE AdminRefund(w, o)
      BY <1>0, <3>2 DEF AdminRefund, Start, Idle
    <3>3. CASE ViewOrder(w, o)
      BY <1>0, <3>3 DEF ViewOrder, Start, Idle
    <3>4. CASE CreateIntent(w, o)
      BY <1>0, <3>4 DEF CreateIntent, Start, Idle
    <3>5. ASSUME NEW to \in adminSettableStatuses, AdminUpdateStatus(w, o, to)
          PROVE  req'[v] = req[v] \/ req'[v].order = o
      BY <1>0, <3>5 DEF AdminUpdateStatus, Start, Idle
    <3>6. CASE Reap(w, o)
      BY <1>0, <3>6 DEF Reap, Start, Idle
    <3> QED
      BY <1>2, <3>1, <3>2, <3>3, <3>4, <3>5, <3>6 DEF Call
  <2>2. status[o] # NoOrder
    BY <1>2 DEF Call, Cancel, AdminRefund, ViewOrder, CreateIntent, AdminUpdateStatus, Reap,
       cancellable, refundable, PostPayment
  <2> QED
    BY <2>1, <2>2
<1>3. ASSUME NEW w \in Workers, NEW i \in Intents, Deliver(w, i)
      PROVE  req'[v] = req[v] \/ (row[i] # "none" /\ req'[v].order = OrderOf(i))
  <2>1. CASE OnIntentSucceeded(w, i)
    BY <1>0, <2>1 DEF OnIntentSucceeded, Start, Idle
  <2>2. CASE OnIntentFailed(w, i)
    BY <1>0, <2>2 DEF OnIntentFailed, Start, Idle
  <2> QED
    BY <1>3, <2>1, <2>2 DEF Deliver
<1>4. ASSUME Step(v) \/ Failure(v)
      PROVE  req'[v].pc = "idle" \/ (req[v].pc # "idle" /\ req'[v].order = req[v].order)
  <2>1. Idle.pc = "idle" /\ (Returned(v).pc = "idle" \/ Returned(v).order = req[v].order)
    BY SMTT(60) DEF Idle, Returned
  <2>2. req[v].pc # "idle"
    BY SMTT(60), <1>0, <1>4 DEF Step, StaffSet, Release, RefundRead, RefundStripe, MarkRefunded,
       MarkPaid, MarkPaidRecheck, UpdateSucceeded, UpdateFailed, Publish, ReconcileLatest, ReconcileGet,
       CreateCheck, CreateLatest, CreateReuse, NoIntentLeft, CreateRow, ReapList, ReapGet,
       UpdateCancelled, NewIntent, CancelIntent, Failure, Crash, ReconcileFails,
       OrphanRefundFails, CreateReuseFails, PublishFails, At, ReconcileSteps, RefundSteps
  <2>3. \/ req'[v] = Idle \/ req'[v] = Returned(v) \/ req'[v].order = req[v].order
    <3>1. CASE StaffSet(v) \/ Release(v) \/ Publish(v) \/ CreateReuse(v) \/ NoIntentLeft(v) \/ CreateRow(v)
      BY <1>0, <3>1 DEF StaffSet, Release, Publish, CreateReuse, NoIntentLeft, CreateRow, Done,
         Return, Goto, Requests
    <3>2. CASE UpdateFailed(v) \/ ReconcileLatest(v) \/ CreateCheck(v) \/ CreateLatest(v)
      BY <1>0, <3>2 DEF UpdateFailed, ReconcileLatest, CreateCheck, CreateLatest, Done, Return,
         Goto, Requests
    <3>3. CASE MarkPaid(v) \/ MarkPaidRecheck(v) \/ UpdateSucceeded(v)
      BY <1>0, <3>3 DEF MarkPaid, MarkPaidRecheck, UpdateSucceeded, Goto, Requests
    <3>4. CASE \E i \in Intents : NewIntent(v, i) \/ CancelIntent(v, i)
      BY SMTT(60), <1>0, <3>4 DEF NewIntent, CancelIntent, Requests
    <3>5. CASE RefundRead(v) \/ RefundStripe(v) \/ MarkRefunded(v)
      BY <1>0, <3>5 DEF RefundRead, RefundStripe, MarkRefunded, AfterRefund, Return, Done, Goto,
         Requests
    <3>6. CASE ReconcileGet(v)
      BY <1>0, <3>6 DEF ReconcileGet, Goto, Return, Requests
    <3>7. CASE ReapList(v) \/ UpdateCancelled(v)
      <4>1. PICK l : req' = [req EXCEPT ![v].left = l, ![v].pc = NextToVoid(l)]
        BY <3>7 DEF ReapList, UpdateCancelled
      <4> QED
        BY <1>0, <4>1 DEF Requests
    <3>8. CASE ReapGet(v)
      <4>1. \/ \E x : x.order = req[v].order /\ req' = [req EXCEPT ![v] = x]
            \/ req' = [req EXCEPT ![v].pc = "reap_row"]
        BY <3>8 DEF ReapGet, Goto, Idle
      <4> QED
        BY <1>0, <4>1 DEF Requests
    <3>9. CASE Failure(v)
      <4>1. Crash(v) => req'[v] = Idle
        BY <1>0 DEF Crash, Done
      <4>2. OrphanRefundFails(v) \/ PublishFails(v) => req'[v] = Returned(v)
        BY <1>0 DEF OrphanRefundFails, PublishFails, Return
      <4>3. ReconcileFails(v) => req'[v].order = req[v].order
        BY <1>0 DEF ReconcileFails, Idle
      <4>4. CreateReuseFails(v) => req'[v].order = req[v].order
        BY <1>0 DEF CreateReuseFails, Goto, Requests
      <4> QED
        BY <3>9, <4>1, <4>2, <4>3, <4>4 DEF Failure
    <3> QED
      BY <1>4, <3>1, <3>2, <3>3, <3>4, <3>5, <3>6, <3>7, <3>8, <3>9 DEF Step
  <2> QED
    BY <2>1, <2>2, <2>3
<1>5. ASSUME NEW o, NEW want, PlaceOrder(o, want) PROVE req' = req
  BY <1>5 DEF PlaceOrder
<1>6. ASSUME NEW i, ConfirmPayment(i) \/ Charge(i) \/ Decline(i) PROVE req' = req
  BY <1>6 DEF ConfirmPayment, Charge, Decline
<1>7. UNCHANGED vars => req' = req
  BY DEF vars
<1>8. Handlers \subseteq Workers /\ Reapers \subseteq Workers
  BY DEF Workers
<1> QED
  BY <1>1, <1>2, <1>3, <1>4, <1>5, <1>6, <1>7, <1>8 DEF Next

\* The records that RefundKnows speaks of.
Decides(r) == \/ r.pc \in RefundSteps \cup {"recheck", "orphan_row"}
              \/ r.pc = "release" /\ r.to = StatusRefunded

\* How a worker comes to be deciding about a refund.
LEMMA OnlyTheseDecide ==
  ASSUME TypeInv, [Next]_vars, NEW v \in Workers
  PROVE  \/ req'[v] = req[v] \/ ~Decides(req'[v])
         \/ MarkPaid(v) \/ MarkPaidRecheck(v) \/ UpdateSucceeded(v)
         \/ RefundRead(v) \/ RefundStripe(v) \/ MarkRefunded(v)
         \/ \E o \in Orders : Cancel(v, o) \/ AdminRefund(v, o)
<1>0. req \in [Workers -> Requests] /\ req[v] \in Requests
  BY SMTT(60) DEF TypeInv, WorkersOK
<1>1. ASSUME NEW i \in Intents, OnIntentSucceeded(v, i) PROVE ~Decides(req'[v])
  BY <1>0, <1>1 DEF OnIntentSucceeded, Start, Idle, Decides, RefundSteps
<1>2. ASSUME ReconcileGet(v) PROVE ~Decides(req'[v])
  <2>1. req'[v].pc \in {"mark_paid", "row_failed"} \/ req'[v] = Returned(v)
    BY <1>0, <1>2 DEF ReconcileGet, Goto, Return, Requests
  <2>2. Returned(v).pc \in {"idle", "create_check"}
    BY <1>0 DEF Returned, Idle, Requests
  <2> QED
    BY <2>1, <2>2 DEF Decides, RefundSteps
<1>3. ASSUME Quiet(req'[v]), Decides(req'[v]) PROVE req'[v].pc \in RefundSteps
  BY <1>3 DEF Quiet, HoldsCharge, Decides
<1>4. ASSUME Failure(v), req'[v].pc \notin RefundSteps PROVE ~Decides(req'[v])
  <2>1. Crash(v) => req'[v] = Idle
    BY <1>0 DEF Crash, Done
  <2>2. OrphanRefundFails(v) \/ PublishFails(v) => req'[v] = Returned(v)
    BY <1>0 DEF OrphanRefundFails, PublishFails, Return
  <2>3. ReconcileFails(v) => req'[v].pc = "create_latest"
    BY <1>0 DEF ReconcileFails, Idle
  <2>4. CreateReuseFails(v) => req'[v].pc = "create_new"
    BY <1>0 DEF CreateReuseFails, Goto, Requests
  <2>5. Idle.pc = "idle" /\ Returned(v).pc \in {"idle", "create_check"}
    BY <1>0 DEF Returned, Idle, Requests
  <2> QED
    BY <1>4, <2>1, <2>2, <2>3, <2>4, <2>5 DEF Failure, Decides, RefundSteps
<1> QED
  BY <1>1, <1>2, <1>3, OnlyTheseRely, RefundOrderSteps

\* What a worker knows of its order stays so until it acts.
LEMMA KnowledgeStands ==
  ASSUME TypeInv, PlacedInv, NoneRevived, [Next]_vars, ~ShippedUnderRefund,
         NEW v \in Workers, RefundKnows(req[v])
  PROVE  RefundKnows(req[v])'
<1>0. /\ req \in [Workers -> Requests] /\ req[v] \in Requests /\ Sane(req[v])
      /\ status \in [Orders -> Statuses]
      /\ req[v].pc # "idle" => req[v].order \in Orders /\ status[req[v].order] # NoOrder
  BY SMTT(60), StatusType DEF TypeInv, WorkersOK, Sane, PlacedInv
<1>1. CASE req'[v] = req[v]
  <2> DEFINE o == req[v].order
  <2>1. ASSUME ForRefund(v, o) PROVE status'[o] \in {req[v].seen, StatusRefunded}
    <3>1. /\ o \in Orders /\ req[v].seen \in PostPayment
          /\ status[o] \in {req[v].seen, StatusRefunded}
      BY <1>0, <2>1 DEF ForRefund, Working, RefundKnows, Sane, RefundSteps
    <3>2. ASSUME NEW w \in Workers, StaffSet(w), req[w].order = o, status[o] = req[w].seen
          PROVE  FALSE
      BY <2>1, <3>2 DEF ShippedUnderRefund
    <3>3. ASSUME NEW w \in Workers, Release(w), req[w].order = o, status[o] = req[w].seen,
                 status'[o] = req[w].to
          PROVE  status'[o] = StatusRefunded
      BY <3>1, <3>3, ReleasePair DEF Release, PostPayment
    <3> QED
      BY <3>1, <3>2, <3>3, StatusMoves DEF PostPayment
  <2>2. ASSUME o \in Orders
        PROVE  /\ status[o] \in Released => status'[o] \in Released
               /\ status[o] \in Resolved => status'[o] \in Resolved
    BY <2>2, StatusStands
  <2> QED
    BY <1>0, <1>1, <2>1, <2>2 DEF RefundKnows, ForRefund, Working, RefundSteps
<1>2. CASE ~Decides(req'[v])
  BY <1>2 DEF RefundKnows, Decides
<1>3. CASE MarkPaid(v)
  <2>1. req[v].order \in Orders /\ status[req[v].order] # NoOrder
    BY <1>0, <1>3 DEF MarkPaid, At
  <2>2. CASE status[req[v].order] = StatusPendingPayment
    <3>1. req'[v].pc = "row_succeeded"
      BY <1>0, <1>3, <2>2 DEF MarkPaid, Goto, Requests
    <3> QED
      BY <3>1 DEF RefundKnows, RefundSteps
  <2>3. CASE status[req[v].order] # StatusPendingPayment
    <3>1. req'[v].pc = "recheck" /\ req'[v].order = req[v].order /\ status' = status
      BY <1>0, <1>3, <2>3 DEF MarkPaid, Goto, TransitionStatus, Requests
    <3>2. status[req[v].order] \in Resolved
      BY <1>0, <2>1, <2>3 DEF Resolved, Statuses, Holding
    <3> QED
      BY <3>1, <3>2 DEF RefundKnows, RefundSteps
  <2> QED
    BY <2>2, <2>3
<1>4. CASE MarkPaidRecheck(v)
  <2>1. /\ status[req[v].order] \in Resolved /\ status' = status
        /\ req'[v].order = req[v].order
        /\ req'[v].pc = IF status[req[v].order] \in PostPayment THEN "row_succeeded" ELSE "orphan_row"
    BY <1>0, <1>4 DEF MarkPaidRecheck, At, Goto, RefundKnows, isPostPaymentStatus, orderVars, Requests
  <2> QED
    BY <2>1 DEF RefundKnows, RefundSteps, Resolved
<1>5. CASE UpdateSucceeded(v)
  <2>1. /\ status' = status /\ req'[v].order = req[v].order
        /\ \/ req'[v].pc = "publish_succeeded"
           \/ /\ status[req[v].order] \in Released /\ req'[v].pc = "refund_read"
              /\ req'[v].to # StatusRefunded
    BY <1>0, <1>5 DEF UpdateSucceeded, At, Goto, RefundKnows, Sane, ReconcileSteps, orderVars, Requests
  <2> QED
    BY <2>1 DEF RefundKnows, RefundSteps
<1>6. CASE RefundRead(v) \/ RefundStripe(v) \/ MarkRefunded(v)
  <2>1. /\ req[v].pc \in RefundSteps /\ status' = status
        /\ \/ /\ req'[v].order = req[v].order /\ req'[v].seen = req[v].seen /\ req'[v].to = req[v].to
              /\ req'[v].pc \in RefundSteps \/ (req'[v].pc = "release" /\ ~ForOrphan(v))
           \/ req'[v] = Idle \/ req'[v] = Returned(v)
    <3>1. CASE RefundRead(v)
      BY <1>0, <3>1 DEF RefundRead, AfterRefund, ForOrphan, Return, Done, Goto, At, RefundSteps,
         orderVars, Requests
    <3>2. CASE RefundStripe(v)
      BY <1>0, <3>2 DEF RefundStripe, Goto, At, RefundSteps, orderVars, Requests
    <3>3. CASE MarkRefunded(v)
      BY <1>0, <3>3 DEF MarkRefunded, AfterRefund, ForOrphan, Return, Goto, At, RefundSteps,
         orderVars, Requests
    <3> QED
      BY <1>6, <3>1, <3>2, <3>3
  <2>2. Idle.pc = "idle" /\ Returned(v).pc \in {"idle", "create_check"}
    BY <1>0 DEF Returned, Idle, Requests
  <2> QED
    BY <2>1, <2>2 DEF RefundKnows, RefundSteps, ForOrphan
<1>7. ASSUME NEW o \in Orders, Cancel(v, o) \/ AdminRefund(v, o) PROVE RefundKnows(req[v])'
  <2>1. /\ status' = status
        /\ req'[v].order = o /\ req'[v].seen = status[o]
        /\ \/ req'[v].pc = "refund_read" /\ req'[v].to = StatusRefunded
           \/ req'[v].pc = "release" /\ req'[v].to = StatusCancelled
    <3>1. CASE AdminRefund(v, o)
      BY <1>0, <3>1 DEF AdminRefund, Start, Idle, orderVars
    <3>2. CASE Cancel(v, o) /\ status[o] = StatusPaid
      BY <1>0, <3>2 DEF Cancel, Start, Idle, orderVars
    <3>3. CASE Cancel(v, o) /\ status[o] # StatusPaid
      BY <1>0, <3>3 DEF Cancel, Start, Idle, orderVars
    <3> QED
      BY <1>7, <3>1, <3>2, <3>3
  <2> QED
    BY <2>1 DEF RefundKnows, RefundSteps
<1> QED
  BY <1>1, <1>2, <1>3, <1>4, <1>5, <1>6, <1>7, OnlyTheseDecide

\* Somebody works on placed orders only, and only these have payment rows.
LEMMA PlacedNext == TypeInv /\ TypeInv' /\ PlacedInv /\ [Next]_vars => PlacedInv'
<1> SUFFICES ASSUME TypeInv, TypeInv', PlacedInv, [Next]_vars PROVE PlacedInv'
  OBVIOUS
<1>0. /\ \A w \in Workers : Sane(req[w]) /\ Sane(req'[w])
      /\ \A o \in Orders : status[o] # NoOrder => status'[o] # NoOrder
      /\ \A i \in Intents : OrderOf(i) \in Orders
  BY StatusStands, IntentType DEF TypeInv, WorkersOK
<1>1. ASSUME NEW w \in Workers, req'[w].pc # "idle" PROVE status'[req'[w].order] # NoOrder
  <2>1. req'[w].order \in Orders
    BY <1>0, <1>1 DEF Sane
  <2>2. status[req'[w].order] # NoOrder
    BY <1>1, OrdersInHand DEF PlacedInv
  <2> QED
    BY <1>0, <2>1, <2>2
<1>2. ASSUME NEW i \in Intents, row'[i] # "none" PROVE status'[OrderOf(i)] # NoOrder
  <2>1. status[OrderOf(i)] # NoOrder
    BY <1>2, RowWriters DEF PlacedInv
  <2> QED
    BY <1>0, <2>1
<1> QED
  BY <1>1, <1>2 DEF PlacedInv

\* What MarkRefunded knows of the order of the row it marks.
LEMMA WhatIsMarked ==
  ASSUME TypeInv, NEW w \in Workers, RefundKnows(req[w]), MarkRefunded(w)
  PROVE  /\ OrderOf(req[w].intent) = req[w].order /\ req[w].order \in Orders
         /\ UNCHANGED status
         /\ \/ /\ req[w].to = StatusRefunded /\ req[w].seen \in PostPayment
               /\ status[req[w].order] \in {req[w].seen, StatusRefunded}
               /\ req'[w].pc = "release" /\ req'[w].order = req[w].order
               /\ req'[w].seen = req[w].seen
            \/ status[req[w].order] \in Released
<1>0. req \in [Workers -> Requests] /\ req[w] \in Requests /\ Sane(req[w])
  BY SMTT(60) DEF TypeInv, WorkersOK
<1>1. /\ req[w].pc = "refund_mark" /\ UNCHANGED status
      /\ req[w].to = StatusRefunded => req' = [req EXCEPT ![w].pc = "release"]
  BY DEF MarkRefunded, At, AfterRefund, ForOrphan, Goto, orderVars
<1> QED
  BY <1>0, <1>1 DEF Sane, HasIntent, HoldsIntent, RefundSteps, RefundKnows, Requests

\* Cancel and AdminRefund leave their last step by taking it, or by a crash.
LEMMA LeavesRelease ==
  ASSUME TypeInv, [Next]_vars, NEW v \in Workers, At(v, "release"), req[v].to = StatusRefunded
  PROVE  req'[v] = req[v] \/ Release(v) \/ Crash(v)
<1>0. req \in [Workers -> Requests]
  BY DEF TypeInv, WorkersOK
<1>1. ASSUME NEW w \in Workers, w # v, Step(w) \/ Failure(w) PROVE req'[v] = req[v]
  BY <1>1, OthersStand
<1>2. ASSUME NEW w \in Workers, NEW o, Call(w, o) \/ Reap(w, o) PROVE req'[v] = req[v]
  <2>1. PICK x : At(w, "idle") /\ req' = [req EXCEPT ![w] = x]
    BY <1>2 DEF Call, Cancel, AdminRefund, ViewOrder, CreateIntent, AdminUpdateStatus, Reap, Start
  <2> QED
    BY <1>0, <2>1 DEF At
<1>3. ASSUME NEW w \in Workers, NEW i, Deliver(w, i) PROVE req'[v] = req[v]
  BY <1>0, <1>3 DEF Deliver, OnIntentSucceeded, OnIntentFailed, Start, At
<1>4. Step(v) => Release(v)
  BY DEF Step, At, StaffSet, RefundRead, RefundStripe, MarkRefunded, MarkPaid,
     MarkPaidRecheck, UpdateSucceeded, UpdateFailed, Publish, ReconcileLatest, ReconcileGet,
     CreateCheck, CreateLatest, CreateReuse, NoIntentLeft, CreateRow, ReapList, ReapGet,
     UpdateCancelled, NewIntent, CancelIntent
<1>5. Failure(v) => Crash(v)
  BY DEF Failure, At, ReconcileFails, OrphanRefundFails, CreateReuseFails, PublishFails,
     ReconcileSteps, RefundSteps
<1>6. ASSUME NEW o, NEW want, PlaceOrder(o, want) PROVE req' = req
  BY <1>6 DEF PlaceOrder
<1>7. ASSUME NEW i, ConfirmPayment(i) \/ Charge(i) \/ Decline(i) PROVE req' = req
  BY <1>7 DEF ConfirmPayment, Charge, Decline
<1>8. UNCHANGED vars => req' = req
  BY DEF vars
<1>9. Handlers \subseteq Workers /\ Reapers \subseteq Workers
  BY DEF Workers
<1> QED
  BY <1>1, <1>2, <1>3, <1>4, <1>5, <1>6, <1>7, <1>8, <1>9 DEF Next

\* A refunded row is of an order that is resolved, and stays so.
LEMMA RefundedIsResolved ==
  ASSUME TypeInv, NoneRevived, RaceInv, [Next]_vars, NEW i \in Intents, row'[i] = "refunded"
  PROVE  status'[OrderOf(i)] \in Resolved
<1>0. OrderOf(i) \in Orders /\ \A w \in Workers : RefundKnows(req[w])
  BY IntentType DEF RaceInv
<1>1. CASE row[i] = "refunded"
  BY <1>0, <1>1, StatusStands DEF RaceInv
<1>2. CASE row[i] # "refunded"
  <2>1. PICK w \in Workers : MarkRefunded(w) /\ i = req[w].intent
    BY <1>2, OnlyTwoClaimMoney
  <2> QED
    BY <1>0, <2>1, WhatIsMarked DEF Resolved, Released
<1> QED
  BY <1>1, <1>2

\* While no edit crosses a refund, and no refund is cut short before its last
\* step, an order whose money is back and whose status says otherwise is in the
\* hands of the call that will put it right.
LEMMA RaceStands ==
  ASSUME TypeInv, NoneRevived, RaceInv, [Next]_vars, ~ShippedUnderRefund, ~RefundCutShort,
         NEW o \in Orders, status'[o] \in PostPayment, HasRow(o)',
         row'[LatestForOrder(o)'] = "refunded"
  PROVE  \E w \in Workers : Working(w, o, {"release"})' /\ req'[w].seen = status'[o]
<1> DEFINE i == LatestForOrder(o)
<1>0. /\ HasRow(o) /\ LatestForOrder(o)' = i /\ i \in Intents /\ OrderOf(i) = o
      /\ status \in [Orders -> Statuses]
      /\ \A w \in Workers : RefundKnows(req[w])
  BY LatestStays, LatestOK, StatusType DEF RaceInv, TypeInv
<1> HIDE DEF i
<1>1. CASE row[i] = "refunded"
  <2>1. status[o] \in PostPayment
    <3>1. status[o] \in Resolved
      BY <1>0, <1>1 DEF RaceInv
    <3>2. status[o] \notin Released
      BY StatusStands DEF PostPayment, Released
    <3> QED
      BY <3>1, <3>2 DEF Resolved
  <2>2. PICK w \in Workers : Working(w, o, {"release"}) /\ req[w].seen = status[o]
    BY <1>0, <1>1, <2>1 DEF RaceInv, NotRefundedAndFulfilled, i
  <2>3. At(w, "release") /\ req[w].order = o /\ req[w].to = StatusRefunded
    BY <2>1, <2>2, ReleasePair DEF Working, At, PostPayment
  <2>4. status'[o] = status[o]
    <3>1. ASSUME NEW u \in Workers, StaffSet(u), req[u].order = o, status[o] = req[u].seen
          PROVE  FALSE
      BY <2>3, <3>1 DEF ShippedUnderRefund, ForRefund, Working, At
    <3>2. ASSUME NEW u \in Workers, Release(u), req[u].order = o, status'[o] = req[u].to
          PROVE  FALSE
      BY <3>2, ReleasePair DEF Release, PostPayment
    <3> QED
      BY <2>1, <3>1, <3>2, StatusMoves DEF PostPayment
  <2>5. ~Release(w)
    BY <1>0, <2>1, <2>2, <2>3, <2>4 DEF Release, ReleaseTx, TransitionStatus, PostPayment
  <2>6. ~Crash(w)
    BY <2>3 DEF RefundCutShort
  <2>7. req'[w] = req[w]
    BY <2>3, <2>5, <2>6, LeavesRelease
  <2> QED
    BY <2>2, <2>3, <2>4, <2>7 DEF Working, At
<1>2. CASE row[i] # "refunded"
  <2>1. PICK w \in Workers : MarkRefunded(w) /\ i = req[w].intent
    BY <1>0, <1>2, OnlyTwoClaimMoney
  <2>2. /\ req[w].order = o /\ status' = status
        /\ req'[w].pc = "release" /\ req'[w].order = o /\ req'[w].seen = status[o]
    BY <1>0, <2>1, WhatIsMarked DEF PostPayment, Released
  <2> QED
    BY <2>2 DEF Working
<1> QED
  BY <1>1, <1>2

\* At first there is no order.
LEMMA RaceInvInit == Init => RaceInv
BY DEF Init, Idle, RaceInv, PlacedInv, RefundKnows, RefundSteps, NotRefundedAndFulfilled, HasRow

\* Two things let an order be fulfilled whose money was returned: a forward edit
\* that staff make while Cancel or AdminRefund is returning it, and such a refund
\* cut short between MarkRefunded and the transaction that flips the status.
\* While neither happens, and staff revive no dead order, an order being fulfilled
\* has not had its money returned (the compare-and-set of AdminUpdateStatus).
THEOREM OnlyTheRace ==
  Spec /\ []NoneRevived /\ [][~(ShippedUnderRefund \/ RefundCutShort)]_vars
    => []NotRefundedAndFulfilled
<1>1. TypeInv /\ (ShippedUnderRefund \/ RefundCutShort) => ~UNCHANGED vars
  <2>1. TypeInv /\ RefundCutShort => ~UNCHANGED vars
    BY DEF TypeInv, TypeOK, RefundCutShort, Crash, Fault, vars
  <2>2. ASSUME TypeInv, NEW w \in Workers, StaffSet(w) PROVE ~UNCHANGED vars
    <3>1. req[w].pc = "staff_set" /\ req'[w] = Idle
      BY <2>2 DEF StaffSet, At, Done, TypeInv, WorkersOK
    <3> QED
      BY <3>1 DEF Idle, vars
  <2> QED
    BY <2>1, <2>2 DEF ShippedUnderRefund
<1>2. TypeInv /\ TypeInv' /\ RaceInv /\ NoneRevived /\ [Next]_vars
        /\ [~(ShippedUnderRefund \/ RefundCutShort)]_vars => RaceInv'
  <2> SUFFICES ASSUME TypeInv, TypeInv', RaceInv, NoneRevived, [Next]_vars,
                      ~ShippedUnderRefund, ~RefundCutShort
               PROVE  RaceInv'
    BY <1>1
  <2>1. PlacedInv'
    BY PlacedNext DEF RaceInv
  <2>2. \A w \in Workers : RefundKnows(req[w])'
    BY KnowledgeStands DEF RaceInv
  <2>3. \A i \in Intents : row'[i] = "refunded" => status'[OrderOf(i)] \in Resolved
    BY RefundedIsResolved
  <2>4. NotRefundedAndFulfilled'
    BY RaceStands DEF NotRefundedAndFulfilled
  <2> QED
    BY <2>1, <2>2, <2>3, <2>4 DEF RaceInv
<1>3. RaceInv => NotRefundedAndFulfilled
  BY DEF RaceInv
<1> QED
  BY <1>2, <1>3, RaceInvInit, TypeInvAlways, PTL DEF Spec
===============================================================================
