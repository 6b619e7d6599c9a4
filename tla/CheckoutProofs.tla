----------------------------- MODULE CheckoutProofs -----------------------------
(***************************************************************************)
(* The checkout transaction and the transactions that put stock back, with   *)
(* their row locks, implement StockLedger, place an order only at the prices  *)
(* its customer was shown, and keep every type, for any number of orders,     *)
(* products and carts.                                                       *)
(***************************************************************************)
EXTENDS Checkout, TLAPS

USE DEF StatusPendingPayment, StatusPaid, StatusPaymentFailed, StatusProcessing,
        StatusShipped, StatusDelivered, StatusCancelled, StatusRefunded, NoOrder

-----------------------------------------------------------------------------
(* The inductive invariant                                                 *)

\* What has been committed for o when its request is at a given step.
StatusFits(o) ==
    /\ tx[o].pc \in {"idle", "locking", "failed"} => status[o] = NoOrder
    /\ tx[o].pc \in {"placed", "restocking"} => status[o] = StatusPendingPayment

\* A line whose row o has locked and found as the cart showed it.
Secured(o, line) == lock[line.product] = o /\ AsShown(line)

\* Every line of a checkout is secured or has still to be locked: nobody else can
\* change what a lock was taken for.
LinesSecured(o) ==
    tx[o].pc = "locking" =>
        \A k \in DOMAIN tx[o].view :
            \/ Secured(o, tx[o].view[k])
            \/ \E j \in DOMAIN tx[o].todo : tx[o].todo[j] = tx[o].view[k]

CheckoutInv ==
    /\ TypeOK
    /\ \A o \in Orders : StatusFits(o) /\ LinesSecured(o)

-----------------------------------------------------------------------------
(* Types                                                                   *)

\* What a cart shows is a list of views.
LEMMA ShownOK ==
    ASSUME TypeOK, NEW c \in Carts
    PROVE  Shown(c) \in Seq(Views)
<1>1. cart[c] \in Seq(Lines) /\ price \in [Products -> Prices]
  BY DEF TypeOK
<1>2. DOMAIN cart[c] = 1..Len(cart[c]) /\ Len(cart[c]) \in Nat
  BY <1>1
<1>3. ASSUME NEW k \in DOMAIN cart[c]
      PROVE  [product |-> cart[c][k].product, qty |-> cart[c][k].qty,
              price |-> price[cart[c][k].product]] \in Views
  <2>1. cart[c][k] \in Lines
    BY <1>1
  <2> QED
    BY <1>1, <2>1 DEF Lines, Views
<1> QED
  BY <1>2, <1>3 DEF Shown

\* An order's items are a basket.
LEMMA OrderedOK ==
    ASSUME NEW view \in Seq(Views)
    PROVE  Ordered(view) \in Ledger!Baskets
<1>1. ASSUME NEW p \in Products, \E k \in DOMAIN view : view[k].product = p
      PROVE  view[CHOOSE k \in DOMAIN view : view[k].product = p].qty \in 1..MaxQty
  <2> DEFINE k == CHOOSE j \in DOMAIN view : view[j].product = p
  <2>1. k \in DOMAIN view
    BY <1>1
  <2>2. view[k] \in Views
    BY <2>1
  <2> QED
    BY <2>2 DEF Views
<1> QED
  BY <1>1, CheckoutAssumption DEF Ordered, Ledger!Baskets

\* An item of an order is a line of its view.
LEMMA OrderedIsShown ==
    ASSUME NEW view \in Seq(Views), NEW p \in Products
    PROVE  \/ Ordered(view)[p] = 0 /\ \A k \in DOMAIN view : view[k].product # p
           \/ \E k \in DOMAIN view : view[k].product = p /\ Ordered(view)[p] = view[k].qty
<1>1. CASE \E k \in DOMAIN view : view[k].product = p
  <2> DEFINE k == CHOOSE j \in DOMAIN view : view[j].product = p
  <2>1. k \in DOMAIN view /\ view[k].product = p
    BY <1>1
  <2>2. Ordered(view)[p] = view[k].qty
    BY <1>1 DEF Ordered
  <2> QED
    BY <2>1, <2>2
<1>2. CASE ~\E k \in DOMAIN view : view[k].product = p
  BY <1>2 DEF Ordered
<1> QED
  BY <1>1, <1>2

\* Unlocking takes o's locks away and nobody else's.
LEMMA Unlocked ==
    ASSUME TypeOK, NEW o \in Orders, Unlock(o)
    PROVE  /\ lock' \in [Products -> Orders \cup {Nobody}]
           /\ \A p \in Products : lock[p] # o => lock'[p] = lock[p]
BY DEF TypeOK, Unlock

\* The request's record after each of the ways it may end.
LEMMA RequestOK ==
    ASSUME TypeOK, NEW o \in Orders
    PROVE  /\ tx[o] \in Requests
           /\ [NoRequest EXCEPT !.pc = "failed"] \in Requests
           /\ \A pc \in {"placed", "restocking", "released"} : [tx[o] EXCEPT !.pc = pc] \in Requests
           /\ [tx[o] EXCEPT !.pc = "placed", !.todo = <<>>] \in Requests
           /\ tx[o].todo # <<>> => /\ [tx[o] EXCEPT !.todo = Tail(tx[o].todo)] \in Requests
                                   /\ Head(tx[o].todo) \in Views
           /\ \A todo \in Seq(Views) : [tx[o] EXCEPT !.pc = "restocking", !.todo = todo] \in Requests
<1>1. tx[o] \in Requests /\ tx[o].todo \in Seq(Views) /\ <<>> \in Seq(Views)
  BY DEF TypeOK, Requests
<1>2. [NoRequest EXCEPT !.pc = "failed"] \in Requests
  BY <1>1 DEF NoRequest, Requests
<1>3. tx[o].todo # <<>> => Tail(tx[o].todo) \in Seq(Views) /\ Head(tx[o].todo) \in Views
  BY <1>1
<1>4. ASSUME NEW todo \in Seq(Views), NEW pc \in {"placed", "restocking", "released"}
      PROVE  /\ [tx[o] EXCEPT !.pc = pc] \in Requests
             /\ [tx[o] EXCEPT !.todo = todo] \in Requests
             /\ [tx[o] EXCEPT !.pc = pc, !.todo = todo] \in Requests
  BY <1>1 DEF Requests
<1> QED
  BY <1>1, <1>2, <1>3, <1>4

-----------------------------------------------------------------------------
(* Every step keeps the invariant                                          *)

\* Customers and staff: no transaction is touched, and a row that is locked keeps
\* its price.
LEMMA ShopSteps ==
    ASSUME CheckoutInv, UNCHANGED <<ledgerVars, lock, tx>>,
           price' \in [Products -> Prices], cart' \in [Carts -> Seq(Lines)],
           \A p \in Products : ~Free(p) => price'[p] = price[p]
    PROVE  CheckoutInv'
<1>1. TypeOK'
  BY DEF CheckoutInv, TypeOK, Ledger!LedgerTypeOK, ledgerVars
<1>2. ASSUME NEW o \in Orders PROVE StatusFits(o)'
  BY DEF CheckoutInv, StatusFits, ledgerVars
<1>3. ASSUME NEW o \in Orders PROVE LinesSecured(o)'
  <2>1. ASSUME NEW line \in Views, Secured(o, line) PROVE Secured(o, line)'
    BY <2>1, CheckoutAssumption DEF Secured, AsShown, Free, Views, ledgerVars
  <2>2. tx[o].view \in Seq(Views)
    BY DEF CheckoutInv, TypeOK, Requests
  <2>3. \A k \in DOMAIN tx[o].view : tx[o].view[k] \in Views
    BY <2>2
  <2> QED
    BY <2>1, <2>3 DEF CheckoutInv, LinesSecured
<1> QED
  BY <1>1, <1>2, <1>3 DEF CheckoutInv

LEMMA AddItemStep ==
    ASSUME CheckoutInv, NEW c \in Carts, NEW p \in Products, NEW n \in 1..MaxQty, AddItem(c, p, n)
    PROVE  CheckoutInv'
<1>1. cart[c] \in Seq(Lines) /\ cart \in [Carts -> Seq(Lines)] /\ price \in [Products -> Prices]
  BY DEF CheckoutInv, TypeOK
<1>2. cart' \in [Carts -> Seq(Lines)]
  <2>1. CASE InCart(c, p)
    <3>1. PICK k \in DOMAIN cart[c] :
              /\ cart[c][k].product = p /\ cart[c][k].qty + n <= MaxQty
              /\ cart' = [cart EXCEPT ![c][k].qty = cart[c][k].qty + n]
      BY <2>1 DEF AddItem
    <3>2. cart[c][k] \in Lines
      BY <1>1
    <3>. cart[c][k].qty + n \in 1..MaxQty
      BY <3>1, <3>2, CheckoutAssumption DEF Lines
    <3>3. [cart[c][k] EXCEPT !.qty = cart[c][k].qty + n] \in Lines
      BY <3>2 DEF Lines
    <3>4. [cart[c] EXCEPT ![k] = [cart[c][k] EXCEPT !.qty = cart[c][k].qty + n]] \in Seq(Lines)
      BY <1>1, <3>3
    <3> QED
      BY <1>1, <3>1, <3>4
  <2>2. CASE ~InCart(c, p)
    <3> DEFINE line == [product |-> p, qty |-> n]
    <3>1. cart' = [cart EXCEPT ![c] = Append(cart[c], line)]
      BY <2>2 DEF AddItem
    <3>2. line \in Lines
      BY DEF Lines
    <3> HIDE DEF line
    <3>3. Append(cart[c], line) \in Seq(Lines)
      BY <1>1, <3>2
    <3> QED
      BY <1>1, <3>1, <3>3
  <2> QED
    BY <2>1, <2>2
<1> QED
  BY <1>1, <1>2, ShopSteps DEF AddItem

LEMMA EditLineSteps ==
    ASSUME CheckoutInv, NEW c \in Carts, NEW k \in 1..Cardinality(Products)
    PROVE  /\ RemoveItem(c, k) => CheckoutInv'
           /\ \A n \in 1..MaxQty : UpdateItemQuantity(c, k, n) => CheckoutInv'
<1>1. cart[c] \in Seq(Lines) /\ cart \in [Carts -> Seq(Lines)] /\ price \in [Products -> Prices]
  BY DEF CheckoutInv, TypeOK
<1>2. ASSUME RemoveItem(c, k) PROVE CheckoutInv'
  <2>1. k \in 1..Len(cart[c]) /\ Len(cart[c]) \in Nat
    BY <1>1, <1>2 DEF RemoveItem
  <2>2. SubSeq(cart[c], 1, k - 1) \in Seq(Lines) /\ SubSeq(cart[c], k + 1, Len(cart[c])) \in Seq(Lines)
    BY <1>1, <2>1
  <2>3. SubSeq(cart[c], 1, k - 1) \o SubSeq(cart[c], k + 1, Len(cart[c])) \in Seq(Lines)
    BY <2>2
  <2> QED
    BY <1>1, <1>2, <2>3, ShopSteps DEF RemoveItem
<1>3. ASSUME NEW n \in 1..MaxQty, UpdateItemQuantity(c, k, n) PROVE CheckoutInv'
  <2>1. k \in DOMAIN cart[c] /\ cart' = [cart EXCEPT ![c][k].qty = n]
    BY <1>3 DEF UpdateItemQuantity
  <2>. cart[c][k] \in Lines
    BY <1>1, <2>1
  <2>2. [cart[c][k] EXCEPT !.qty = n] \in Lines
    BY DEF Lines
  <2>3. [cart[c] EXCEPT ![k] = [cart[c][k] EXCEPT !.qty = n]] \in Seq(Lines)
    BY <1>1, <2>1, <2>2
  <2>4. cart' \in [Carts -> Seq(Lines)]
    BY <1>1, <2>1, <2>3
  <2> QED
    BY <1>1, <1>3, <2>4, ShopSteps DEF UpdateItemQuantity
<1> QED
  BY <1>2, <1>3

LEMMA EditPriceStep ==
    ASSUME CheckoutInv, NEW p \in Products, NEW x \in Prices, EditPrice(p, x)
    PROVE  CheckoutInv'
<1>1. cart \in [Carts -> Seq(Lines)] /\ price \in [Products -> Prices]
  BY DEF CheckoutInv, TypeOK
<1> QED
  BY <1>1, ShopSteps DEF EditPrice, Free

\* Of the transactions, the step of one leaves the others' rows as they are.
LEMMA OthersStand ==
    ASSUME CheckoutInv, TypeOK', NEW o \in Orders,
           price' = price,
           \A q \in Orders \ {o} : tx'[q] = tx[q] /\ status'[q] = status[q],
           \A p \in Products : lock[p] \in Orders \ {o} => lock'[p] = lock[p] /\ stock'[p] >= stock[p],
           StatusFits(o)', LinesSecured(o)'
    PROVE  CheckoutInv'
<1>1. ASSUME NEW q \in Orders \ {o} PROVE StatusFits(q)' /\ LinesSecured(q)'
  <2>1. StatusFits(q)'
    BY DEF CheckoutInv, StatusFits
  <2>2. \A k \in DOMAIN tx[q].view : tx[q].view[k] \in Views
    <3>1. tx[q].view \in Seq(Views)
      BY DEF CheckoutInv, TypeOK, Requests
    <3> QED
      BY <3>1
  <2>3. ASSUME NEW line \in Views, Secured(q, line) PROVE Secured(q, line)'
    <3>1. line.product \in Products /\ line.qty \in 1..MaxQty /\ lock[line.product] = q
      BY <2>3 DEF Views, Secured
    <3>2. stock[line.product] \in Nat /\ stock'[line.product] \in Nat
      BY <3>1 DEF CheckoutInv, TypeOK, Ledger!LedgerTypeOK
    <3>3. lock'[line.product] = q /\ stock'[line.product] >= stock[line.product]
      BY <3>1
    <3> QED
      BY <2>3, <3>1, <3>2, <3>3, CheckoutAssumption DEF Secured, AsShown
  <2> QED
    BY <2>1, <2>2, <2>3 DEF CheckoutInv, LinesSecured
<1> QED
  BY <1>1 DEF CheckoutInv

LEMMA ReadCartStep ==
    ASSUME CheckoutInv, NEW o \in Orders, NEW c \in Carts, ReadCart(o, c)
    PROVE  CheckoutInv'
<1>1. TypeOK /\ Shown(c) \in Seq(Views)
  BY ShownOK DEF CheckoutInv
<1> DEFINE r == [pc |-> "locking", cart |-> c, view |-> Shown(c), todo |-> Shown(c)]
<1>2. r \in Requests
  BY <1>1 DEF Requests
<1>3. /\ tx' = [tx EXCEPT ![o] = r]
      /\ UNCHANGED <<status, items, stock, price, cart, lock>> /\ tx[o].pc = "idle"
  BY DEF ReadCart, ledgerVars
<1>4. r.pc = "locking" /\ r.view = r.todo
  OBVIOUS
<1> HIDE DEF r
<1>5. TypeOK'
  BY <1>1, <1>2, <1>3 DEF TypeOK, Ledger!LedgerTypeOK
<1>6. tx'[o] = r /\ \A q \in Orders \ {o} : tx'[q] = tx[q]
  BY <1>1, <1>3 DEF TypeOK
<1>7. StatusFits(o)' /\ LinesSecured(o)'
  BY <1>3, <1>4, <1>6 DEF StatusFits, LinesSecured, CheckoutInv
<1>8. \A p \in Products : stock[p] \in Nat
  BY <1>1 DEF TypeOK, Ledger!LedgerTypeOK
<1> QED
  BY <1>3, <1>5, <1>6, <1>7, <1>8, OthersStand

\* A rolled back checkout has nothing placed and holds nothing.
LEMMA RollbackStep ==
    ASSUME CheckoutInv, NEW o \in Orders, tx[o].pc = "locking", Rollback(o),
           UNCHANGED <<ledgerVars, price, cart>>
    PROVE  CheckoutInv'
<1> DEFINE r == [NoRequest EXCEPT !.pc = "failed"]
<1>1. TypeOK /\ r \in Requests /\ r.pc = "failed"
  BY RequestOK DEF CheckoutInv, NoRequest
<1>2. tx' = [tx EXCEPT ![o] = r] /\ Unlock(o) /\ UNCHANGED <<status, items, stock, price, cart>>
  BY DEF Rollback, ledgerVars
<1> HIDE DEF r
<1>3. /\ lock' \in [Products -> Orders \cup {Nobody}]
      /\ \A p \in Products : lock[p] # o => lock'[p] = lock[p]
  BY <1>1, <1>2, Unlocked
<1>4. TypeOK'
  BY <1>1, <1>2, <1>3 DEF TypeOK, Ledger!LedgerTypeOK
<1>5. tx'[o] = r /\ \A q \in Orders \ {o} : tx'[q] = tx[q]
  BY <1>1, <1>2 DEF TypeOK
<1>6. StatusFits(o)' /\ LinesSecured(o)'
  BY <1>1, <1>2, <1>5 DEF StatusFits, LinesSecured, CheckoutInv
<1>7. \A p \in Products : stock[p] \in Nat
  BY <1>1 DEF TypeOK, Ledger!LedgerTypeOK
<1> QED
  BY <1>2, <1>3, <1>4, <1>5, <1>6, <1>7, OthersStand

LEMMA LockStep ==
    ASSUME CheckoutInv, NEW o \in Orders, LockProductForUpdate(o)
    PROVE  CheckoutInv'
<1> DEFINE line == Head(tx[o].todo)
           r == [tx[o] EXCEPT !.todo = Tail(tx[o].todo)]
<1>1. CASE ~AsShown(line)
  BY <1>1, RollbackStep DEF LockProductForUpdate
<1>2. CASE AsShown(line)
  <2>1. /\ TypeOK /\ tx[o].pc = "locking" /\ tx[o].todo # <<>>
        /\ tx[o] \in Requests /\ r \in Requests /\ line \in Views
    BY RequestOK DEF CheckoutInv, LockProductForUpdate
  <2>2. /\ tx' = [tx EXCEPT ![o] = r]
        /\ lock' = [lock EXCEPT ![line.product] = o] /\ Free(line.product)
        /\ UNCHANGED <<status, items, stock, price, cart>>
    BY <1>2 DEF LockProductForUpdate, ledgerVars
  <2>3. line.product \in Products
    BY <2>1 DEF Views
  <2>4. /\ lock' \in [Products -> Orders \cup {Nobody}] /\ lock'[line.product] = o
        /\ \A p \in Products : ~Free(p) => lock'[p] = lock[p]
    BY <2>1, <2>2, <2>3 DEF TypeOK
  <2>5. TypeOK'
    BY <2>1, <2>2, <2>4 DEF TypeOK, Ledger!LedgerTypeOK
  <2>6. tx'[o] = r /\ \A q \in Orders \ {o} : tx'[q] = tx[q]
    BY <2>1, <2>2 DEF TypeOK
  <2>7. r.pc = "locking" /\ r.view = tx[o].view /\ r.todo = Tail(tx[o].todo)
    BY <2>1 DEF Requests
  <2>8. StatusFits(o)'
    BY <2>1, <2>2, <2>6, <2>7 DEF StatusFits, CheckoutInv
  <2>9. ASSUME NEW v \in Views,
               Secured(o, v) \/ \E j \in DOMAIN tx[o].todo : tx[o].todo[j] = v
        PROVE  Secured(o, v)' \/ \E j \in DOMAIN r.todo : r.todo[j] = v
    <3>1. CASE Secured(o, v)
      BY <2>2, <2>4, <3>1, CheckoutAssumption DEF Secured, AsShown, Free, Views
    <3>2. CASE v = line
      BY <1>2, <2>2, <2>4, <3>2 DEF Secured, AsShown
    <3>3. ASSUME NEW j \in DOMAIN tx[o].todo, tx[o].todo[j] = v, v # line
          PROVE  \E i \in DOMAIN r.todo : r.todo[i] = v
      <4>1. tx[o].todo \in Seq(Views) /\ j # 1
        BY <2>1, <3>3 DEF Requests
      <4>2. j - 1 \in DOMAIN Tail(tx[o].todo) /\ Tail(tx[o].todo)[j - 1] = tx[o].todo[j]
        BY <2>1, <4>1
      <4> QED
        BY <2>7, <3>3, <4>2
    <3> QED
      BY <2>9, <3>1, <3>2, <3>3
  <2> HIDE DEF line, r
  <2>10. LinesSecured(o)'
    <3>1. \A k \in DOMAIN tx[o].view : tx[o].view[k] \in Views
      <4>1. tx[o].view \in Seq(Views)
        BY <2>1 DEF Requests
      <4> QED
        BY <4>1
    <3>2. ASSUME NEW k \in DOMAIN r.view
          PROVE  \/ Secured(o, tx[o].view[k])'
                 \/ \E j \in DOMAIN r.todo : r.todo[j] = tx[o].view[k]
      <4> DEFINE v == tx[o].view[k]
      <4>1. v \in Views /\ (Secured(o, v) \/ \E j \in DOMAIN tx[o].todo : tx[o].todo[j] = v)
        BY <2>1, <2>7, <3>1 DEF CheckoutInv, LinesSecured
      <4>2. PICK w \in Views : w = v
        BY <4>1
      <4>3. Secured(o, w)' \/ \E j \in DOMAIN r.todo : r.todo[j] = w
        BY <2>9, <4>1, <4>2
      <4>4. tx'[o].view = tx[o].view
        BY <2>6, <2>7
      <4> QED
        BY <4>2, <4>3, <4>4
    <3> QED
      BY <2>6, <2>7, <3>2 DEF LinesSecured
  <2>11. \A p \in Products : stock[p] \in Nat
    BY <2>1 DEF TypeOK, Ledger!LedgerTypeOK
  <2>12. \A p \in Products : lock[p] \in Orders \ {o} => lock'[p] = lock[p]
    BY <2>4, CheckoutAssumption DEF Free
  <2> QED
    BY <2>2, <2>5, <2>6, <2>8, <2>10, <2>11, <2>12, OthersStand
<1> QED
  BY <1>1, <1>2

\* A checkout about to commit has every row of its lines locked as shown: it takes
\* no more than there is, and nothing from a row it has not locked.
LEMMA ReadyToCommit ==
    ASSUME CheckoutInv, NEW o \in Orders, tx[o].pc = "locking", tx[o].todo = <<>>
    PROVE  /\ tx[o].view \in Seq(Views) /\ Ordered(tx[o].view) \in Ledger!Baskets
           /\ \A k \in DOMAIN tx[o].view :
                 tx[o].view[k] \in Views /\ Secured(o, tx[o].view[k])
           /\ \A p \in Products :
                 /\ Ordered(tx[o].view)[p] \in Nat /\ Ordered(tx[o].view)[p] <= stock[p]
                 /\ lock[p] # o => Ordered(tx[o].view)[p] = 0
<1>1. TypeOK /\ tx[o].view \in Seq(Views)
  BY DEF CheckoutInv, TypeOK, Requests
<1>2. \A k \in DOMAIN tx[o].view : tx[o].view[k] \in Views
  BY <1>1
<1>3. \A k \in DOMAIN tx[o].view : Secured(o, tx[o].view[k])
  BY DEF CheckoutInv, LinesSecured
<1>4. Ordered(tx[o].view) \in Ledger!Baskets
  BY <1>1, OrderedOK
<1>5. ASSUME NEW p \in Products
      PROVE  /\ Ordered(tx[o].view)[p] \in Nat /\ Ordered(tx[o].view)[p] <= stock[p]
             /\ lock[p] # o => Ordered(tx[o].view)[p] = 0
  <2>1. stock[p] \in Nat /\ Ordered(tx[o].view)[p] \in Nat
    BY <1>1, <1>4, CheckoutAssumption DEF TypeOK, Ledger!LedgerTypeOK, Ledger!Baskets
  <2>2. CASE Ordered(tx[o].view)[p] = 0
    BY <2>1, <2>2
  <2>3. ASSUME NEW k \in DOMAIN tx[o].view, tx[o].view[k].product = p,
               Ordered(tx[o].view)[p] = tx[o].view[k].qty
        PROVE  lock[p] = o /\ Ordered(tx[o].view)[p] <= stock[p]
    BY <1>3, <2>3 DEF Secured, AsShown
  <2> QED
    BY <1>1, <2>1, <2>2, <2>3, OrderedIsShown
<1> QED
  BY <1>1, <1>2, <1>3, <1>4, <1>5

LEMMA CommitStep ==
    ASSUME CheckoutInv, NEW o \in Orders, Commit(o)
    PROVE  CheckoutInv'
<1> DEFINE want == Ordered(tx[o].view)
           r == [tx[o] EXCEPT !.pc = "placed"]
<1>1. TypeOK /\ tx[o].pc = "locking" /\ tx[o].todo = <<>>
  BY DEF CheckoutInv, Commit
<1>2. /\ status' = [status EXCEPT ![o] = StatusPendingPayment]
      /\ items' = [items EXCEPT ![o] = want]
      /\ stock' = [p \in Products |-> stock[p] - want[p]]
      /\ cart' = [cart EXCEPT ![tx[o].cart] = <<>>]
      /\ tx' = [tx EXCEPT ![o] = r] /\ Unlock(o) /\ UNCHANGED price
  BY DEF Commit
<1>3. /\ want \in Ledger!Baskets
      /\ \A p \in Products : /\ want[p] \in Nat /\ want[p] <= stock[p]
                             /\ lock[p] # o => want[p] = 0
  BY <1>1, ReadyToCommit
<1>4. r \in Requests /\ r.pc = "placed"
  <2>1. tx[o] \in Requests /\ r \in Requests
    BY <1>1, RequestOK
  <2> QED
    BY <2>1 DEF Requests
<1> HIDE DEF want, r
<1>5. /\ lock' \in [Products -> Orders \cup {Nobody}]
      /\ \A p \in Products : lock[p] # o => lock'[p] = lock[p]
  BY <1>1, <1>2, Unlocked
<1>6. \A p \in Products : stock[p] \in Nat
  BY <1>1 DEF TypeOK, Ledger!LedgerTypeOK
<1>7. TypeOK'
  <2>1. status' \in [Orders -> Ledger!Statuses]
    BY <1>1, <1>2 DEF TypeOK, Ledger!LedgerTypeOK, Ledger!Statuses, Ledger!Holding,
       Ledger!StatusPendingPayment
  <2>2. items' \in [Orders -> Ledger!Baskets]
    BY <1>1, <1>2, <1>3 DEF TypeOK, Ledger!LedgerTypeOK
  <2>3. stock' \in [Products -> Nat]
    BY <1>2, <1>3, <1>6
  <2>4. cart' \in [Carts -> Seq(Lines)] /\ price' \in [Products -> Prices]
    <3>1. <<>> \in Seq(Lines)
      OBVIOUS
    <3> QED
      BY <1>1, <1>2, <3>1 DEF TypeOK
  <2>5. tx' \in [Orders -> Requests]
    BY <1>1, <1>2, <1>4 DEF TypeOK
  <2> QED
    BY <1>5, <2>1, <2>2, <2>3, <2>4, <2>5 DEF TypeOK, Ledger!LedgerTypeOK
<1>8. /\ tx'[o] = r /\ \A q \in Orders \ {o} : tx'[q] = tx[q] /\ status'[q] = status[q]
      /\ status'[o] = StatusPendingPayment
  BY <1>1, <1>2 DEF TypeOK, Ledger!LedgerTypeOK
<1>9. StatusFits(o)' /\ LinesSecured(o)'
  BY <1>4, <1>8 DEF StatusFits, LinesSecured
<1>10. \A p \in Products : lock[p] \in Orders \ {o} => lock'[p] = lock[p] /\ stock'[p] >= stock[p]
  BY <1>2, <1>3, <1>5, <1>6
<1> QED
  BY <1>2, <1>7, <1>8, <1>9, <1>10, OthersStand

\* A transaction that puts stock back takes nobody's stock away.
LEMMA ReleaseSteps ==
    ASSUME CheckoutInv, NEW o \in Orders,
           BeginRelease(o) \/ IncrementStock(o) \/ CommitRelease(o)
    PROVE  CheckoutInv'
<1>1. /\ TypeOK /\ tx[o] \in Requests /\ tx[o].view \in Seq(Views)
      /\ \A p \in Products : stock[p] \in Nat /\ items[o][p] \in Nat
  BY CheckoutAssumption
     DEF CheckoutInv, TypeOK, Requests, Ledger!LedgerTypeOK, Ledger!Baskets
<1>2. CASE BeginRelease(o)
  <2> DEFINE lines == tx[o].view
             reverse == [k \in DOMAIN lines |-> lines[Len(lines) + 1 - k]]
  <2>1. PICK todo \in {lines, reverse} :
            tx' = [tx EXCEPT ![o] = [tx[o] EXCEPT !.pc = "restocking", !.todo = todo]]
    BY <1>2 DEF BeginRelease
  <2>2. reverse \in Seq(Views)
    <3>1. DOMAIN lines = 1..Len(lines) /\ Len(lines) \in Nat
      BY <1>1
    <3>2. ASSUME NEW k \in DOMAIN lines PROVE lines[Len(lines) + 1 - k] \in Views
      <4>1. Len(lines) + 1 - k \in DOMAIN lines
        BY <3>1
      <4> QED
        BY <1>1, <4>1
    <3> QED
      BY <3>1, <3>2
  <2> DEFINE r == [tx[o] EXCEPT !.pc = "restocking", !.todo = todo]
  <2>3. r \in Requests
    BY <1>1, <2>2, RequestOK
  <2>4. r.pc = "restocking"
    BY <1>1 DEF Requests
  <2>5. tx[o].pc = "placed" /\ UNCHANGED <<status, items, stock, price, cart, lock>>
    BY <1>2 DEF BeginRelease, ledgerVars
  <2>6. tx' = [tx EXCEPT ![o] = r]
    BY <2>1
  <2> HIDE DEF r, reverse, lines
  <2>7. tx'[o] = r /\ \A q \in Orders \ {o} : tx'[q] = tx[q]
    BY <1>1, <2>6 DEF TypeOK
  <2>8. TypeOK'
    BY <1>1, <2>3, <2>5, <2>6 DEF TypeOK, Ledger!LedgerTypeOK
  <2>9. StatusFits(o)' /\ LinesSecured(o)'
    BY <2>4, <2>5, <2>7 DEF CheckoutInv, StatusFits, LinesSecured
  <2> QED
    BY <1>1, <2>5, <2>7, <2>8, <2>9, OthersStand
<1>3. CASE IncrementStock(o)
  <2> DEFINE line == Head(tx[o].todo)
             r == [tx[o] EXCEPT !.todo = Tail(tx[o].todo)]
  <2>1. /\ tx[o].pc = "restocking" /\ tx[o].todo # <<>> /\ Free(line.product)
        /\ lock' = [lock EXCEPT ![line.product] = o] /\ tx' = [tx EXCEPT ![o] = r]
        /\ UNCHANGED <<status, items, stock, price, cart>>
    BY <1>3 DEF IncrementStock, ledgerVars
  <2>2. r \in Requests /\ line \in Views
    BY <1>1, <2>1, RequestOK
  <2>3. r.pc = "restocking" /\ line.product \in Products
    BY <1>1, <2>1, <2>2 DEF Requests, Views
  <2> HIDE DEF line, r
  <2>4. TypeOK'
    BY <1>1, <2>1, <2>2, <2>3 DEF TypeOK, Ledger!LedgerTypeOK
  <2>5. tx'[o] = r /\ \A q \in Orders \ {o} : tx'[q] = tx[q]
    BY <1>1, <2>1 DEF TypeOK
  <2>6. StatusFits(o)' /\ LinesSecured(o)'
    BY <2>1, <2>3, <2>5 DEF CheckoutInv, StatusFits, LinesSecured
  <2>7. \A p \in Products : lock[p] \in Orders \ {o} => lock'[p] = lock[p]
    BY <1>1, <2>1, <2>3, CheckoutAssumption DEF TypeOK, Free
  <2> QED
    BY <1>1, <2>1, <2>4, <2>5, <2>6, <2>7, OthersStand
<1>4. CASE CommitRelease(o)
  <2> DEFINE r == [tx[o] EXCEPT !.pc = "released"]
  <2>1. /\ status' = [status EXCEPT ![o] = StatusCancelled]
        /\ stock' = [p \in Products |-> stock[p] + items[o][p]]
        /\ tx' = [tx EXCEPT ![o] = r] /\ Unlock(o) /\ UNCHANGED <<items, price, cart>>
    BY <1>4 DEF CommitRelease
  <2>2. r \in Requests /\ r.pc = "released"
    BY ZenonT(60), <1>1, RequestOK DEF Requests
  <2> HIDE DEF r
  <2>3. /\ lock' \in [Products -> Orders \cup {Nobody}]
        /\ \A p \in Products : lock[p] # o => lock'[p] = lock[p]
    BY <1>1, <2>1, Unlocked
  <2>4. TypeOK'
    <3>1. status' \in [Orders -> Ledger!Statuses]
      BY <1>1, <2>1 DEF TypeOK, Ledger!LedgerTypeOK, Ledger!Statuses, Ledger!Released,
         Ledger!StatusCancelled
    <3>2. stock' \in [Products -> Nat]
      BY <1>1, <2>1
    <3> QED
      BY <1>1, <2>1, <2>2, <2>3, <3>1, <3>2 DEF TypeOK, Ledger!LedgerTypeOK
  <2>5. tx'[o] = r /\ \A q \in Orders \ {o} : tx'[q] = tx[q] /\ status'[q] = status[q]
    BY <1>1, <2>1 DEF TypeOK, Ledger!LedgerTypeOK
  <2>6. StatusFits(o)' /\ LinesSecured(o)'
    BY <2>2, <2>5 DEF StatusFits, LinesSecured
  <2>7. \A p \in Products : lock[p] \in Orders \ {o} => lock'[p] = lock[p] /\ stock'[p] >= stock[p]
    BY <1>1, <2>1, <2>3
  <2> QED
    BY <2>1, <2>4, <2>5, <2>6, <2>7, OthersStand
<1> QED
  BY <1>2, <1>3, <1>4

\* Postgres ends a transaction: deadlock, a failed statement, a dead process.
LEMMA GiveUpStep ==
    ASSUME CheckoutInv, NEW o \in Orders, InTransaction(o), GiveUp(o)
    PROVE  CheckoutInv'
<1>1. CASE tx[o].pc = "locking"
  BY <1>1, RollbackStep DEF GiveUp
<1>2. CASE tx[o].pc = "restocking"
  <2> DEFINE r == [tx[o] EXCEPT !.pc = "placed", !.todo = <<>>]
  <2>1. /\ tx' = [tx EXCEPT ![o] = r] /\ Unlock(o)
        /\ UNCHANGED <<status, items, stock, price, cart>>
    BY <1>2 DEF GiveUp, ledgerVars
  <2>2. TypeOK /\ r \in Requests /\ r.pc = "placed"
    <3>1. TypeOK
      BY DEF CheckoutInv
    <3>2. tx[o] \in Requests /\ r \in Requests
      BY <3>1, RequestOK
    <3> QED
      BY <3>1, <3>2 DEF Requests
  <2> HIDE DEF r
  <2>3. /\ lock' \in [Products -> Orders \cup {Nobody}]
        /\ \A p \in Products : lock[p] # o => lock'[p] = lock[p]
    BY <2>1, <2>2, Unlocked
  <2>4. TypeOK' /\ \A p \in Products : stock[p] \in Nat
    BY <2>1, <2>2, <2>3 DEF TypeOK, Ledger!LedgerTypeOK
  <2>5. tx'[o] = r /\ \A q \in Orders \ {o} : tx'[q] = tx[q]
    BY <2>1, <2>2 DEF TypeOK
  <2>6. StatusFits(o)' /\ LinesSecured(o)'
    BY <1>2, <2>1, <2>2, <2>5 DEF CheckoutInv, StatusFits, LinesSecured
  <2> QED
    BY <2>1, <2>3, <2>4, <2>5, <2>6, OthersStand
<1> QED
  BY <1>1, <1>2 DEF InTransaction

LEMMA CheckoutStands == ASSUME CheckoutInv, [Next]_vars PROVE CheckoutInv'
<1>1. CASE UNCHANGED vars
  BY <1>1 DEF vars, ledgerVars, CheckoutInv, TypeOK, Ledger!LedgerTypeOK, StatusFits,
     LinesSecured, Secured, AsShown
<1>2. ASSUME NEW o \in Orders, Step(o) PROVE CheckoutInv'
  <2>1. DeadlockDetected(o) => InTransaction(o) /\ GiveUp(o)
    BY DEF DeadlockDetected, Deadlocked, WaitsFor
  <2> QED
    BY <1>2, <2>1, LockStep, CommitStep, ReleaseSteps, GiveUpStep DEF Step
<1>3. ASSUME NEW o \in Orders, BeginRelease(o) \/ Abort(o) PROVE CheckoutInv'
  BY <1>3, ReleaseSteps, GiveUpStep DEF Abort
<1> QED
  BY <1>1, <1>2, <1>3, AddItemStep, EditLineSteps, EditPriceStep, ReadCartStep DEF Next

LEMMA CheckoutAtStart == Init => CheckoutInv
<1> SUFFICES ASSUME Init PROVE CheckoutInv
  OBVIOUS
<1>1. status = [o \in Orders |-> NoOrder] /\ stock \in [Products -> Nat]
  BY CheckoutAssumption DEF Init, Ledger!Init, Ledger!NoOrder
<1>2. Ledger!LedgerTypeOK
  BY CheckoutAssumption DEF Init, Ledger!Init, Ledger!LedgerTypeOK, Ledger!Statuses,
     Ledger!NoOrder, Ledger!Baskets
<1>3. <<>> \in Seq(Views) /\ <<>> \in Seq(Lines)
  OBVIOUS
<1>4. NoRequest \in Requests /\ NoRequest.pc = "idle"
  BY <1>3 DEF NoRequest, Requests
<1>5. price \in [Products -> Prices]
  BY DEF Init
<1>6. TypeOK
  BY <1>2, <1>3, <1>4, <1>5 DEF Init, TypeOK
<1>7. \A o \in Orders : tx[o] = NoRequest /\ status[o] = NoOrder
  BY <1>1 DEF Init
<1> QED
  BY <1>4, <1>6, <1>7 DEF CheckoutInv, StatusFits, LinesSecured

-----------------------------------------------------------------------------
(* The theorems                                                            *)

LEMMA CheckoutInvariant == Spec => []CheckoutInv
BY CheckoutAtStart, CheckoutStands, PTL DEF Spec

\* No cart edit, lock, commit, rollback or deadlock takes a variable of checkout
\* out of its type; in particular no commit takes stock below zero.
THEOREM CheckoutTypeCorrect == Spec => []TypeOK
<1>1. CheckoutInv => TypeOK
  BY DEF CheckoutInv
<1> QED
  BY <1>1, CheckoutInvariant, PTL

\* An order is placed at the prices that its customer was shown, and they are still
\* the catalogue's when it commits (ErrStockChanged).
THEOREM ShownPrices == Spec => PlacedAsShown
<1>1. ASSUME CheckoutInv, [Next]_vars
      PROVE  [\A o \in Orders : status[o] = NoOrder /\ status'[o] # NoOrder =>
                 \A k \in DOMAIN tx[o].view :
                     tx[o].view[k].price = price[tx[o].view[k].product]]_vars
  <2> SUFFICES ASSUME NEW o \in Orders, status[o] = NoOrder, status'[o] # NoOrder
               PROVE  \A k \in DOMAIN tx[o].view :
                          tx[o].view[k].price = price[tx[o].view[k].product]
    BY <1>1
  <2>1. status \in [Orders -> Ledger!Statuses]
    BY <1>1 DEF CheckoutInv, TypeOK, Ledger!LedgerTypeOK
  <2>2. ASSUME NEW q \in Orders, CommitRelease(q) PROVE FALSE
    <3>1. status[q] # NoOrder /\ status' = [status EXCEPT ![q] = StatusCancelled]
      BY <1>1, <2>2 DEF CommitRelease, CheckoutInv, StatusFits
    <3> QED
      BY <2>1, <3>1
  <2>3. ASSUME NEW q \in Orders, Commit(q), q # o PROVE FALSE
    BY <2>1, <2>3 DEF Commit
  <2>4. Commit(o)
    <3>1. \E q \in Orders : Commit(q) \/ CommitRelease(q)
      <4>1. status' # status
        BY <2>1
      <4> QED
        BY <1>1, <4>1 DEF Next, vars, AddItem, UpdateItemQuantity, RemoveItem, EditPrice, ReadCart, BeginRelease,
           Step, LockProductForUpdate, IncrementStock, DeadlockDetected, Abort, GiveUp,
           ledgerVars
    <3> QED
      BY SMTT(60), <2>2, <2>3, <3>1
  <2> QED
    BY <1>1, <2>4, ReadyToCommit DEF Commit, Secured, AsShown
<1> QED
  BY <1>1, CheckoutInvariant, PTL DEF Spec, PlacedAsShown

\* Interleaved as they are, the transactions are as good as serial ones: each commit
\* is one Reserve or one Release of the ledger, every other step a stutter, so two
\* buyers cannot take the last unit.
THEOREM LocksSuffice == Spec => ImplementsLedger
<1> USE DEF Ledger!PostPayment, Ledger!NoOrder, Ledger!StatusPendingPayment,
            Ledger!StatusPaymentFailed, Ledger!StatusCancelled
<1>1. Init => Ledger!Init
  BY DEF Init
<1>2. ASSUME CheckoutInv, [Next]_vars PROVE [Ledger!Next]_(Ledger!ledgerVars)
  <2>1. ASSUME NEW o \in Orders, Commit(o) PROVE Ledger!Next
    <3> DEFINE want == Ordered(tx[o].view)
    <3>1. tx[o].pc = "locking" /\ tx[o].todo = <<>> /\ status[o] = NoOrder
      BY <1>2, <2>1 DEF Commit, CheckoutInv, StatusFits
    <3>2. want \in Ledger!Baskets /\ \A p \in Products : want[p] <= stock[p]
      BY <1>2, <2>1, <3>1, ReadyToCommit
    <3>3. Ledger!Reserve(o, want)
      BY <2>1, <3>1, <3>2 DEF Commit, Ledger!Reserve
    <3> QED
      BY <3>2, <3>3 DEF Ledger!Next
  <2>2. ASSUME NEW o \in Orders, CommitRelease(o) PROVE Ledger!Next
    <3>1. status[o] = StatusPendingPayment
      BY <1>2, <2>2 DEF CommitRelease, CheckoutInv, StatusFits
    <3>2. Ledger!Release(o, StatusCancelled)
      BY <2>2, <3>1 DEF CommitRelease, Ledger!Release
    <3> QED
      BY <3>2 DEF Ledger!Next, Ledger!Released
  <2>3. ASSUME \A o \in Orders : ~Commit(o) /\ ~CommitRelease(o)
        PROVE  UNCHANGED Ledger!ledgerVars
    BY <1>2, <2>3 DEF Next, vars, AddItem, UpdateItemQuantity, RemoveItem, EditPrice, ReadCart, BeginRelease,
       Step, LockProductForUpdate, IncrementStock, DeadlockDetected, Abort, GiveUp,
       ledgerVars, Ledger!ledgerVars
  <2> QED
    BY <2>1, <2>2, <2>3
<1> QED
  BY <1>1, <1>2, CheckoutInvariant, PTL DEF Spec, ImplementsLedger, Ledger!Spec
===============================================================================
