------------------------------- MODULE Checkout -------------------------------
(***************************************************************************)
(* The checkout transaction of orders/service.go at the grain of Postgres   *)
(* row locks: the cart is read before the transaction begins, each product  *)
(* is locked with SELECT ... FOR UPDATE in cart order and checked against   *)
(* what the cart showed, and the order, the stock and the emptied cart      *)
(* become visible together at COMMIT.  The transactions that put stock back *)
(* (the tail of Cancel and its siblings) lock the same rows.                *)
(*                                                                         *)
(* One request places at most one order, so a request is named by the order *)
(* it may place.  Two requests may come from one cart.                      *)
(***************************************************************************)
EXTENDS Integers, Sequences, FiniteSets, OrderStatus

CONSTANTS Orders, Products, InitialStock,
          Carts,   \* carts of the customers
          Prices,  \* unit prices staff give a product
          MaxQty   \* bound: units of one product in one cart

Nobody == "nobody"

ASSUME CheckoutAssumption ==
    /\ IsFiniteSet(Orders) /\ IsFiniteSet(Products) /\ Nobody \notin Orders
    /\ MaxQty \in Nat \ {0}
    /\ InitialStock \in [Products -> Nat]
    /\ Prices # {}

VARIABLES
    status, items, stock,  \* the committed rows (see StockLedger)
    price,   \* price[p]: COALESCE(sale_price, price)
    cart,    \* cart[c]: the cart's lines by created_at
    lock,    \* lock[p]: the transaction that holds product p's row
    tx       \* tx[o]: the request that places or cancels o

ledgerVars == <<status, items, stock>>
vars == <<status, items, stock, price, cart, lock, tx>>

Ledger == INSTANCE StockLedger

Lines == [product : Products, qty : 1..MaxQty]
Views == [product : Products, qty : 1..MaxQty, price : Prices]

\* todo: the rows still to be locked, in order; view: all the lines.
Requests == [pc   : {"idle", "locking", "failed", "placed", "restocking", "released"},
             cart : Carts \cup {Nobody},
             view : Seq(Views),
             todo : Seq(Views)]

NoRequest == [pc |-> "idle", cart |-> Nobody, view |-> <<>>, todo |-> <<>>]

TypeOK ==
    /\ Ledger!LedgerTypeOK
    /\ price \in [Products -> Prices]
    /\ cart \in [Carts -> Seq(Lines)]
    /\ lock \in [Products -> Orders \cup {Nobody}]
    /\ tx \in [Orders -> Requests]

Init ==
    /\ Ledger!Init
    /\ price \in {[p \in Products |-> x] : x \in Prices}
    /\ cart = [c \in Carts |-> <<>>]
    /\ lock = [p \in Products |-> Nobody]
    /\ tx = [o \in Orders |-> NoRequest]

Free(p) == lock[p] = Nobody

\* Every lock of transaction o, at its COMMIT or ROLLBACK.
Unlock(o) == lock' = [p \in Products |-> IF lock[p] = o THEN Nobody ELSE lock[p]]

InCart(c, p) == \E k \in DOMAIN cart[c] : cart[c][k].product = p

-----------------------------------------------------------------------------
(* Customers in their cart, staff in the catalogue                         *)

\* A checkout holds p's row FOR UPDATE; a restocking UPDATE holds it more weakly.
ForUpdate(p) == ~Free(p) /\ tx[lock[p]].pc = "locking"

\* A product that is in the cart is counted up.  A new line's foreign key takes
\* a key-share lock on the product row, which waits for FOR UPDATE.  The stock
\* check before either may be stale by now.
AddItem(c, p, n) ==
    /\ IF InCart(c, p)
       THEN \E k \in DOMAIN cart[c] :
                /\ cart[c][k].product = p /\ cart[c][k].qty + n <= MaxQty
                /\ cart' = [cart EXCEPT ![c][k].qty = @ + n]
       ELSE /\ ~ForUpdate(p)
            /\ cart' = [cart EXCEPT ![c] = Append(@, [product |-> p, qty |-> n])]
    /\ UNCHANGED <<ledgerVars, price, lock, tx>>

UpdateItemQuantity(c, k, n) ==
    /\ k \in DOMAIN cart[c] /\ Free(cart[c][k].product)
    /\ n <= stock[cart[c][k].product]
    /\ cart' = [cart EXCEPT ![c][k].qty = n]
    /\ UNCHANGED <<ledgerVars, price, lock, tx>>

RemoveItem(c, k) ==
    /\ k \in DOMAIN cart[c]
    /\ cart' = [cart EXCEPT ![c] = SubSeq(@, 1, k - 1) \o SubSeq(@, k + 1, Len(@))]
    /\ UNCHANGED <<ledgerVars, price, lock, tx>>

EditPrice(p, x) ==
    /\ Free(p) /\ price[p] # x
    /\ price' = [price EXCEPT ![p] = x]
    /\ UNCHANGED <<ledgerVars, cart, lock, tx>>

-----------------------------------------------------------------------------
(* Checkout                                                                *)

Shown(c) == [k \in DOMAIN cart[c] |-> [product |-> cart[c][k].product,
                                       qty     |-> cart[c][k].qty,
                                       price   |-> price[cart[c][k].product]]]

\* GetCart, before the transaction: what is read here is used after the locks.
ReadCart(o, c) ==
    /\ tx[o].pc = "idle" /\ cart[c] # <<>>
    /\ tx' = [tx EXCEPT ![o] = [pc |-> "locking", cart |-> c,
                                view |-> Shown(c), todo |-> Shown(c)]]
    /\ UNCHANGED <<ledgerVars, price, cart, lock>>

\* Mutant: compares the stock and not the price.
AsShown_StockOnly(line) == line.qty <= stock[line.product]

AsShown(line) == line.qty <= stock[line.product] /\ line.price = price[line.product]

\* Mutant: returns the error without ending the transaction.
Rollback_KeepsLocks(o) ==
    /\ UNCHANGED lock
    /\ tx' = [tx EXCEPT ![o] = [NoRequest EXCEPT !.pc = "failed"]]

Rollback(o) ==
    /\ Unlock(o)
    /\ tx' = [tx EXCEPT ![o] = [NoRequest EXCEPT !.pc = "failed"]]

\* Mutant: reads the product without FOR UPDATE.
LockProductForUpdate_NoLock(o) ==
    LET line == Head(tx[o].todo) IN
    /\ tx[o].pc = "locking" /\ tx[o].todo # <<>>
    /\ IF AsShown(line)
       THEN /\ tx' = [tx EXCEPT ![o].todo = Tail(@)]
            /\ UNCHANGED lock
       ELSE Rollback(o)
    /\ UNCHANGED <<ledgerVars, price, cart>>

LockProductForUpdate(o) ==
    LET line == Head(tx[o].todo) IN
    /\ tx[o].pc = "locking" /\ tx[o].todo # <<>> /\ Free(line.product)
    /\ IF AsShown(line)
       THEN /\ lock' = [lock EXCEPT ![line.product] = o]
            /\ tx' = [tx EXCEPT ![o].todo = Tail(@)]
       ELSE Rollback(o)
    /\ UNCHANGED <<ledgerVars, price, cart>>

Ordered(view) == [p \in Products |->
    IF \E k \in DOMAIN view : view[k].product = p
    THEN view[CHOOSE k \in DOMAIN view : view[k].product = p].qty
    ELSE 0]

\* CreateOrder, CreateOrderItem, DecrementStock and DeleteCartItems, seen by
\* others all at once.  The cart is emptied of whatever it holds by now.
Commit(o) ==
    LET want == Ordered(tx[o].view) IN
    /\ tx[o].pc = "locking" /\ tx[o].todo = <<>>
    /\ status' = [status EXCEPT ![o] = StatusPendingPayment]
    /\ items' = [items EXCEPT ![o] = want]
    /\ stock' = [p \in Products |-> stock[p] - want[p]]
    /\ cart' = [cart EXCEPT ![tx[o].cart] = <<>>]
    /\ tx' = [tx EXCEPT ![o].pc = "placed"]
    /\ Unlock(o)
    /\ UNCHANGED price

-----------------------------------------------------------------------------
(* Putting stock back                                                      *)

\* The order that is cancelled was placed by tx[o], whose view holds its items.
\* ItemsForRestock has no ORDER BY: the items may come in either direction.
BeginRelease(o) ==
    LET lines == tx[o].view IN
    /\ tx[o].pc = "placed"
    /\ \E todo \in {lines, [k \in DOMAIN lines |-> lines[Len(lines) + 1 - k]]} :
           tx' = [tx EXCEPT ![o].pc = "restocking", ![o].todo = todo]
    /\ UNCHANGED <<ledgerVars, price, cart, lock>>

IncrementStock(o) ==
    /\ tx[o].pc = "restocking" /\ tx[o].todo # <<>> /\ Free(Head(tx[o].todo).product)
    /\ lock' = [lock EXCEPT ![Head(tx[o].todo).product] = o]
    /\ tx' = [tx EXCEPT ![o].todo = Tail(@)]
    /\ UNCHANGED <<ledgerVars, price, cart>>

CommitRelease(o) ==
    /\ tx[o].pc = "restocking" /\ tx[o].todo = <<>>
    /\ status' = [status EXCEPT ![o] = StatusCancelled]
    /\ stock' = [p \in Products |-> stock[p] + items[o][p]]
    /\ tx' = [tx EXCEPT ![o].pc = "released"]
    /\ Unlock(o)
    /\ UNCHANGED <<items, price, cart>>

-----------------------------------------------------------------------------
(* Postgres (external): waiting for locks, and the deadlock detector        *)

InTransaction(o) == tx[o].pc \in {"locking", "restocking"}

WaitsFor(o, q) ==
    /\ InTransaction(o) /\ tx[o].todo # <<>>
    /\ lock[Head(tx[o].todo).product] = q /\ q # Nobody

\* A set of transactions each of which waits for another of the set.
Deadlocked(S) == S # {} /\ \A o \in S : \E q \in S : WaitsFor(o, q)

\* ROLLBACK: a checkout fails and leaves nothing behind, a cancellation leaves
\* the order as it was, to be asked for again.
GiveUp(o) ==
    /\ IF tx[o].pc = "locking"
       THEN Rollback(o)
       ELSE Unlock(o) /\ tx' = [tx EXCEPT ![o].pc = "placed", ![o].todo = <<>>]
    /\ UNCHANGED <<ledgerVars, price, cart>>

DeadlockDetected(o) ==
    /\ \E S \in SUBSET Orders : o \in S /\ Deadlocked(S)
    /\ GiveUp(o)

\* Any statement of the transaction fails, the request is cancelled, or the
\* process dies with the transaction open.
Abort(o) == InTransaction(o) /\ GiveUp(o)

-----------------------------------------------------------------------------

Step(o) == \/ LockProductForUpdate(o) \/ Commit(o)
           \/ IncrementStock(o) \/ CommitRelease(o)
           \/ DeadlockDetected(o)

Next ==
    \/ \E c \in Carts, p \in Products, n \in 1..MaxQty : AddItem(c, p, n)
    \/ \E c \in Carts, k \in 1..Cardinality(Products), n \in 1..MaxQty :
           UpdateItemQuantity(c, k, n)
    \/ \E c \in Carts, k \in 1..Cardinality(Products) : RemoveItem(c, k)
    \/ \E p \in Products, x \in Prices : EditPrice(p, x)
    \/ \E o \in Orders, c \in Carts : ReadCart(o, c)
    \/ \E o \in Orders : BeginRelease(o) \/ Step(o) \/ Abort(o)

Spec == Init /\ [][Next]_vars

\* A transaction that can run runs, a waiting one is served in turn (Postgres
\* queues lock waiters), and the detector wakes after deadlock_timeout.
Fairness == \A o \in Orders : SF_vars(Step(o))

FairSpec == Spec /\ Fairness

-----------------------------------------------------------------------------

\* Row locks make the interleaved transactions as good as serial ones: every
\* commit is one Reserve or Release of the ledger, so two buyers cannot take the
\* last unit (docs/security.md:47) whatever the carts said before.
ImplementsLedger == Ledger!Spec

\* ErrStockChanged: an order is placed only at the prices its customer was
\* shown, and those are still the catalogue's when it commits.
PlacedAsShown ==
    [][\A o \in Orders : status[o] = NoOrder /\ status'[o] # NoOrder =>
          \A k \in DOMAIN tx[o].view :
              tx[o].view[k].price = price[tx[o].view[k].product]]_vars

\* A checkout that began ends, placed or refused, whatever locks others hold
\* and even when Postgres has to break a circle of waiters.
CheckoutEnds ==
    \A o \in Orders : (tx[o].pc = "locking") ~> (tx[o].pc # "locking")
===============================================================================
