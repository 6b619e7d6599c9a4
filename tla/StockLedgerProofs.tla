-------------------------- MODULE StockLedgerProofs --------------------------
(***************************************************************************)
(* The ledger's type invariant and the conservation of stock, for every     *)
(* finite set of orders, every set of products and every initial stock.     *)
(***************************************************************************)
EXTENDS StockLedger, FiniteSetTheorems, TLAPS

USE DEF StatusPendingPayment, StatusPaid, StatusPaymentFailed, StatusProcessing,
        StatusShipped, StatusDelivered, StatusCancelled, StatusRefunded, NoOrder,
        PostPayment, Holding, Released, Statuses

\* Every step keeps the three variables in their types; a reservation is the
\* only one that takes from stock, and it takes no more than is there.
LEMMA LedgerTypeCorrect == Spec => []LedgerTypeOK
<1>1. Init => LedgerTypeOK
  BY LedgerAssumption DEF Init, LedgerTypeOK, Baskets
<1>2. LedgerTypeOK /\ [Next]_ledgerVars => LedgerTypeOK'
  <2> SUFFICES ASSUME LedgerTypeOK, [Next]_ledgerVars PROVE LedgerTypeOK'
    OBVIOUS
  <2>1. ASSUME NEW o \in Orders, NEW want \in Baskets, Reserve(o, want) PROVE LedgerTypeOK'
    <3>1. \A p \in Products : stock[p] - want[p] \in Nat
      BY <2>1, LedgerAssumption DEF Reserve, LedgerTypeOK, Baskets
    <3> QED
      BY <2>1, <3>1 DEF Reserve, LedgerTypeOK
  <2>2. ASSUME NEW o \in Orders, NEW s \in PostPayment, Advance(o, s) PROVE LedgerTypeOK'
    BY <2>2 DEF Advance, LedgerTypeOK
  <2>3. ASSUME NEW o \in Orders, NEW s \in Released, Release(o, s) PROVE LedgerTypeOK'
    <3>1. \A p \in Products : stock[p] + items[o][p] \in Nat
      BY LedgerAssumption DEF LedgerTypeOK, Baskets
    <3> QED
      BY <2>3, <3>1 DEF Release, LedgerTypeOK
  <2>4. CASE UNCHANGED ledgerVars
    BY <2>4 DEF ledgerVars, LedgerTypeOK
  <2> QED
    BY <2>1, <2>2, <2>3, <2>4 DEF Next
<1> QED
  BY <1>1, <1>2, PTL DEF Spec

\* The units one order holds of one product, added to units other orders hold,
\* count for as many as were ordered.
LEMMA OneOrdersUnits ==
  ASSUME NEW A, IsFiniteSet(A), NEW o, NEW n \in Nat, \A u \in A : u[1] # o
  PROVE  /\ IsFiniteSet(A \cup ({o} \X (1..n)))
         /\ Cardinality(A \cup ({o} \X (1..n))) = Cardinality(A) + n
<1> DEFINE U == {o} \X (1..n)
<1>1. IsFiniteSet({o}) /\ Cardinality({o}) = 1
  BY FS_Singleton
<1>2. IsFiniteSet(1..n) /\ Cardinality(1..n) = n
  BY FS_Interval
<1>3. IsFiniteSet(U) /\ Cardinality(U) = n
  <2>1. IsFiniteSet(U) /\ Cardinality(U) = Cardinality({o}) * Cardinality(1..n)
    BY <1>1, <1>2, FS_Product, Zenon
  <2> HIDE DEF U
  <2> QED
    BY <1>1, <1>2, <2>1
<1>4. A \cap U = {}
  OBVIOUS
<1>5. Cardinality({}) = 0
  BY FS_EmptySet
<1>6. Cardinality(A) \in Nat
  BY FS_CardinalityType
<1> HIDE DEF U
<1>7. /\ IsFiniteSet(A \cup U)
      /\ Cardinality(A \cup U) = Cardinality(A) + Cardinality(U) - Cardinality(A \cap U)
  BY <1>3, FS_Union
<1>8. Cardinality(A \cup U) = Cardinality(A) + n
  <2>1. Cardinality(A \cap U) = 0
    BY <1>4, <1>5
  <2> QED
    BY <1>3, <1>6, <1>7, <2>1
<1> QED
  BY <1>7, <1>8 DEF U

\* There are finitely many units to hold.
LEMMA HeldUnitsFinite == ASSUME NEW p PROVE IsFiniteSet(HeldUnits(p))
<1>1. IsFiniteSet(1..MaxQty)
  BY LedgerAssumption, FS_Interval
<1>2. IsFiniteSet(Orders \X (1..MaxQty))
  BY <1>1, LedgerAssumption, FS_Product
<1> QED
  BY <1>2, FS_Subset DEF HeldUnits

\* An order that comes to hold units adds them to those held.
LEMMA UnitsTaken ==
  ASSUME LedgerTypeOK, NEW o \in Orders, NEW want \in Baskets, NEW s \in Holding, status[o] \notin Holding,
         status' = [status EXCEPT ![o] = s], items' = [items EXCEPT ![o] = want], NEW p \in Products
  PROVE  Cardinality(HeldUnits(p)') = Cardinality(HeldUnits(p)) + want[p]
<1>1. want[p] \in 0..MaxQty /\ want[p] \in Nat
  BY LedgerAssumption DEF Baskets
<1>2. HeldUnits(p)' = HeldUnits(p) \cup ({o} \X (1..want[p]))
  <2>1. status'[o] \in Holding /\ items'[o] = want
    BY DEF LedgerTypeOK
  <2>2. \A q \in Orders : q # o => status'[q] = status[q] /\ items'[q] = items[q]
    BY DEF LedgerTypeOK
  <2> HIDE DEF Holding
  <2> QED
    BY <1>1, <2>1, <2>2, LedgerAssumption DEF HeldUnits
<1>3. \A u \in HeldUnits(p) : u[1] # o
  BY DEF HeldUnits
<1>4. Cardinality(HeldUnits(p) \cup ({o} \X (1..want[p]))) = Cardinality(HeldUnits(p)) + want[p]
  BY <1>1, <1>3, HeldUnitsFinite, OneOrdersUnits, Zenon
<1> QED
  BY <1>2, <1>4, Zenon

\* An order that stops holding units takes them from those held.
LEMMA UnitsReturned ==
  ASSUME LedgerTypeOK, NEW o \in Orders, NEW s, s \notin Holding, status[o] \in Holding,
         status' = [status EXCEPT ![o] = s], items' = items, NEW p \in Products
  PROVE  /\ Cardinality(HeldUnits(p)') \in Nat
         /\ Cardinality(HeldUnits(p)) = Cardinality(HeldUnits(p)') + items[o][p]
<1>1. items[o][p] \in 0..MaxQty /\ items[o][p] \in Nat
  BY LedgerAssumption DEF LedgerTypeOK, Baskets
<1>2. HeldUnits(p) = HeldUnits(p)' \cup ({o} \X (1..items[o][p]))
  <2>1. status'[o] \notin Holding /\ \A q \in Orders : q # o => status'[q] = status[q]
    BY DEF LedgerTypeOK
  <2> HIDE DEF Holding
  <2> QED
    BY <1>1, <2>1, LedgerAssumption DEF HeldUnits
<1>3. \A u \in HeldUnits(p)' : u[1] # o
  BY DEF HeldUnits, LedgerTypeOK
<1>4. IsFiniteSet(HeldUnits(p)')
  <2>1. HeldUnits(p)' \in SUBSET HeldUnits(p)
    BY <1>2
  <2> QED
    BY <2>1, HeldUnitsFinite, FS_Subset
<1>5. Cardinality(HeldUnits(p)' \cup ({o} \X (1..items[o][p]))) = Cardinality(HeldUnits(p)') + items[o][p]
  BY <1>1, <1>3, <1>4, OneOrdersUnits, Zenon
<1>6. Cardinality(HeldUnits(p)') \in Nat
  BY <1>4, FS_CardinalityType
<1> QED
  BY <1>2, <1>5, <1>6, Zenon

\* Orders that hold what they held leave the units held alone.
LEMMA UnitsKept ==
  ASSUME items' = items, \A q \in Orders : (status'[q] \in Holding <=> status[q] \in Holding), NEW p
  PROVE  HeldUnits(p)' = HeldUnits(p)
<1> HIDE DEF Holding
<1> QED
  BY DEF HeldUnits

\* Every step of the ledger keeps the sum of what is on the shelf and what is
\* held.
LEMMA ConservedByLedger ==
  LedgerTypeOK /\ LedgerTypeOK' /\ StockConserved /\ [Next]_ledgerVars => StockConserved'
<1> SUFFICES ASSUME LedgerTypeOK, LedgerTypeOK', StockConserved, [Next]_ledgerVars,
                    NEW p \in Products
             PROVE  (stock[p] + Cardinality(HeldUnits(p)) = InitialStock[p])'
  BY DEF StockConserved
<1>0. /\ stock[p] + Cardinality(HeldUnits(p)) = InitialStock[p]
      /\ stock[p] \in Nat
      /\ IsFiniteSet(HeldUnits(p)) /\ Cardinality(HeldUnits(p)) \in Nat
  BY HeldUnitsFinite, FS_CardinalityType DEF StockConserved, LedgerTypeOK
<1>1. ASSUME NEW o \in Orders, NEW want \in Baskets, Reserve(o, want)
      PROVE  (stock[p] + Cardinality(HeldUnits(p)) = InitialStock[p])'
  <2>1. want[p] \in 0..MaxQty
    BY DEF Baskets
  <2>4. Cardinality(HeldUnits(p)') = Cardinality(HeldUnits(p)) + want[p]
    <3>1. status[o] \notin Holding /\ StatusPendingPayment \in Holding
      BY <1>1 DEF Reserve
    <3> QED
      BY <1>1, <3>1, UnitsTaken DEF Reserve
  <2>5. stock'[p] = stock[p] - want[p]
    BY <1>1 DEF Reserve
  <2> QED
    BY <1>0, <2>1, <2>4, <2>5, LedgerAssumption
<1>2. ASSUME NEW o \in Orders, NEW s \in PostPayment, Advance(o, s)
      PROVE  (stock[p] + Cardinality(HeldUnits(p)) = InitialStock[p])'
  <2>1. HeldUnits(p)' = HeldUnits(p)
    <3>1. \A q \in Orders : (status'[q] \in Holding <=> status[q] \in Holding)
      BY <1>2 DEF Advance, LedgerTypeOK
    <3> QED
      BY <1>2, <3>1, UnitsKept DEF Advance
  <2> QED
    BY <1>0, <1>2, <2>1 DEF Advance
<1>3. ASSUME NEW o \in Orders, NEW s \in Released, Release(o, s)
      PROVE  (stock[p] + Cardinality(HeldUnits(p)) = InitialStock[p])'
  <2>1. items[o][p] \in 0..MaxQty
    BY DEF LedgerTypeOK, Baskets
  <2>5. /\ Cardinality(HeldUnits(p)') \in Nat
        /\ Cardinality(HeldUnits(p)) = Cardinality(HeldUnits(p)') + items[o][p]
    <3>1. status[o] \in Holding /\ s \notin Holding
      BY <1>3 DEF Release
    <3> QED
      BY <1>3, <3>1, UnitsReturned DEF Release
  <2>6. stock'[p] = stock[p] + items[o][p]
    BY <1>3 DEF Release
  <2> QED
    BY <1>0, <2>1, <2>5, <2>6, LedgerAssumption
<1>4. CASE UNCHANGED ledgerVars
  BY <1>0, <1>4 DEF ledgerVars, HeldUnits
<1> QED
  BY <1>1, <1>2, <1>3, <1>4 DEF Next

\* So does anything that moves orders among the statuses that hold units and
\* touches neither their lines nor the shelf.
LEMMA ConservedByMoving ==
  ASSUME StockConserved, UNCHANGED <<items, stock>>,
         \A q \in Orders : (status'[q] \in Holding <=> status[q] \in Holding)
  PROVE  StockConserved'
<1> SUFFICES ASSUME NEW p \in Products
             PROVE  stock'[p] + Cardinality(HeldUnits(p)') = InitialStock[p]
  BY DEF StockConserved
<1>1. HeldUnits(p)' = HeldUnits(p)
  BY UnitsKept
<1> QED
  BY <1>1 DEF StockConserved

\* Before the first checkout everything is on the shelf.
LEMMA ConservedAtFirst == Init => StockConserved
<1> SUFFICES ASSUME Init, NEW p \in Products
             PROVE  stock[p] + Cardinality(HeldUnits(p)) = InitialStock[p]
  BY DEF StockConserved
<1>1. HeldUnits(p) = {}
  BY DEF Init, HeldUnits
<1> QED
  BY <1>1, FS_EmptySet, LedgerAssumption DEF Init

\* Conservation: whatever the interleaving of checkouts, payments, cancellations
\* and refunds, stock plus held units is the initial stock.
THEOREM Conservation == Spec => []StockConserved
BY ConservedAtFirst, ConservedByLedger, LedgerTypeCorrect, PTL DEF Spec
==============================================================================
