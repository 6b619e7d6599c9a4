------------------------------ MODULE ShopProofs ------------------------------
(***************************************************************************)
(* The storefront's tables: carts that lose and invent no unit, a category    *)
(* tree and a cache that tell what is there, ratings that follow the reviews, *)
(* a seeder that can be interrupted and run again, fees that were in force,   *)
(* stock that edits account for and images that are the ones asked for.  For  *)
(* any goods, categories, people, options and images, any number of requests  *)
(* in flight and any faults.                                                  *)
(***************************************************************************)
EXTENDS Shop, StockLedgerProofs

-----------------------------------------------------------------------------
(* Cart                                                                    *)

\* The steps of a merge that read or write the guest's lines.
MergeSteps == {"load", "status", "existing", "move", "delete", "discard"}
CopySteps == {"existing", "move", "delete"}

\* What a request has read stays within what there can be.
Fits(r) ==
    /\ r.pc \in {"resolve", "check", "add", "update", "remove"} => r.item \in Goods
    /\ r.pc = "add" => r.have[r.item] + r.qty <= Shelf
    /\ r.pc \in MergeSteps => r.by = "guest"
    /\ r.pc = "status" \/ r.pc \in CopySteps => r.snap # Nothing
    /\ \A p \in Goods : r.limit[p] <= Shelf

\* One merge at a time, and from its reading of the user's lines to its DELETE the
\* guest's are the ones it read.
MergesFit ==
    /\ \A c, d \in CartCalls : ccall[c].pc \in MergeSteps /\ ccall[d].pc \in MergeSteps => c = d
    /\ \A c \in CartCalls : ccall[c].pc \in CopySteps => Current(c) /\ ccall[c].snap = lines["guest"]

\* A merge has copied, or dropped, guest line p, which is still there.
Copied(p) == \E c \in CartCalls : \/ ccall[c].pc = "move" /\ p \notin ccall[c].todo
                                  \/ ccall[c].pc = "delete"

\* The two carts hold what was asked for; a line that a merge has copied counts once.
Balanced ==
    \A p \in Goods : /\ Copied(p) => lines["user"][p] = wanted[p]
                     /\ ~Copied(p) => lines["user"][p] + lines["guest"][p] = wanted[p]

CartInv ==
    /\ CartTypeOK
    /\ \A c \in CartCalls : Fits(ccall[c])
    /\ raced = FALSE => MergesFit /\ Balanced
    /\ LinesFitStock

LEMMA EmptyCarts ==
    /\ Nothing \in Counts /\ (\A p \in Goods : Nothing[p] = 0)
    /\ NoCartCall \in CartRequests /\ NoCartCall.pc = "idle" /\ Fits(NoCartCall)
<1>1. Nothing \in Counts /\ \A p \in Goods : Nothing[p] = 0
  BY DEF Nothing, Counts
<1>2. NoCartCall \in CartRequests
  BY <1>1, CartAssumption DEF NoCartCall, CartRequests, CartSteps, Owners
<1>3. Fits(NoCartCall)
  BY <1>1, CartAssumption DEF NoCartCall, Fits, MergeSteps, CopySteps
<1> QED
  BY <1>1, <1>2, <1>3 DEF NoCartCall

\* The fields of a request's record.
LEMMA CartFields ==
    ASSUME NEW r \in CartRequests
    PROVE  /\ r.pc \in CartSteps /\ r.by \in Owners /\ r.item \in Goods \cup {NoGood} /\ r.qty \in 0..Shelf
           /\ r.session \in Nat /\ r.gen \in Nat /\ r.limit \in Counts /\ r.snap \in Counts
           /\ r.have \in Counts /\ r.todo \in SUBSET Goods /\ r.ask \in BOOLEAN
BY DEF CartRequests

LEMMA RecordStep ==
    ASSUME CartTypeOK, NEW c \in CartCalls, NEW s \in CartRequests, ccall' = [ccall EXCEPT ![c] = s]
    PROVE  /\ ccall' \in [CartCalls -> CartRequests] /\ ccall'[c] = s
           /\ \A d \in CartCalls : d # c => ccall'[d] = ccall[d]
BY DEF CartTypeOK

\* A request that starts carries the session and the cart row of its moment.
LEMMA StartStep ==
    ASSUME CartTypeOK, NEW c \in CartCalls, NEW r \in CartRequests, Fits(r), Starts(c, r)
    PROVE  \E s \in CartRequests :
              /\ Fits(s) /\ s.pc = r.pc /\ ccall' = [ccall EXCEPT ![c] = s]
              /\ ccall[c].pc = "idle" /\ edits' \in 0..MaxEdits
<1>1. PICK s : s = [r EXCEPT !.session = session, !.gen = gen]
  OBVIOUS
<1>2. s = [pc |-> r.pc, by |-> r.by, item |-> r.item, qty |-> r.qty, session |-> session, gen |-> gen,
           limit |-> r.limit, snap |-> r.snap, have |-> r.have, todo |-> r.todo, ask |-> r.ask]
  BY <1>1 DEF CartRequests
<1>3. session \in Nat /\ gen \in Nat /\ edits \in 0..MaxEdits
  BY DEF CartTypeOK
<1>4. s \in CartRequests
  BY <1>2, <1>3, CartFields DEF CartRequests
<1>5. /\ s.pc = r.pc /\ s.by = r.by /\ s.item = r.item /\ s.qty = r.qty /\ s.limit = r.limit
      /\ s.snap = r.snap /\ s.have = r.have
  BY <1>2
<1>6. Fits(s)
  BY <1>5 DEF Fits
<1>7. ccall[c].pc = "idle" /\ edits < MaxEdits /\ edits' = edits + 1 /\ ccall' = [ccall EXCEPT ![c] = s]
  BY <1>1 DEF Starts, CartStep
<1>8. edits' \in 0..MaxEdits
  BY <1>3, <1>7, CartAssumption
<1> QED
  BY <1>4, <1>5, <1>6, <1>7, <1>8

\* What the variables around the lines may do.
Around ==
    /\ onShelf' \in [Goods -> 0..Shelf] /\ edits' \in 0..MaxEdits /\ cfaults' \in 0..MaxCartFaults
    /\ raced' \in BOOLEAN /\ (raced' = FALSE => raced = FALSE)
    /\ crowded' \in BOOLEAN /\ (crowded' = FALSE => crowded = FALSE)

\* A step that leaves the lines alone and no merge half-way.
LEMMA QuietKeeps ==
    ASSUME CartInv, NEW c \in CartCalls, NEW s \in CartRequests, Fits(s), s.pc \notin MergeSteps,
           ccall' = [ccall EXCEPT ![c] = s], UNCHANGED <<lines, session, gen, wanted>>, Around,
           raced' = FALSE => ccall[c].pc \notin {"move", "delete"}
    PROVE  CartInv'
<1>0. /\ CartTypeOK /\ \A d \in CartCalls : Fits(ccall[d])
      /\ LinesFitStock
  BY DEF CartInv
<1>1. /\ ccall' \in [CartCalls -> CartRequests] /\ ccall'[c] = s
      /\ \A d \in CartCalls : d # c => ccall'[d] = ccall[d]
  BY <1>0, RecordStep
<1>2. CartTypeOK' /\ \A d \in CartCalls : Fits(ccall'[d])
  BY <1>0, <1>1 DEF CartTypeOK, Around
<1>3. ASSUME raced' = FALSE PROVE MergesFit' /\ Balanced'
  <2>1. MergesFit /\ Balanced
    BY <1>3 DEF CartInv, Around
  <2>2. MergesFit'
    BY <1>1, <2>1 DEF MergesFit, Current, MergeSteps, CopySteps
  <2>3. \A p : Copied(p)' <=> Copied(p)
    BY <1>1, <1>3 DEF Copied, MergeSteps
  <2> QED
    BY <2>1, <2>2, <2>3 DEF Balanced
<1>4. LinesFitStock'
  BY <1>0 DEF LinesFitStock, Around, CartTypeOK
<1> QED
  BY <1>2, <1>3, <1>4 DEF CartInv

\* Owner o's lines become g as a request ends, and what is wanted with them.
LEMMA EditedLinesKeep ==
    ASSUME CartInv, NEW c \in CartCalls, ccall[c].pc \notin MergeSteps, ccall' = [ccall EXCEPT ![c] = NoCartCall],
           NEW o \in Owners, NEW g \in Counts, lines' = [lines EXCEPT ![o] = g],
           wanted' \in [Goods -> Int], \A p \in Goods : wanted'[p] = (wanted[p] + g[p]) - lines[o][p],
           UNCHANGED <<session, gen>>, Around,
           raced' = FALSE /\ o = "guest" => Merging = {},
           crowded' = FALSE => \A p \in Goods : g[p] <= Shelf
    PROVE  CartInv'
<1>0. /\ CartTypeOK /\ (\A d \in CartCalls : Fits(ccall[d])) /\ LinesFitStock
      /\ lines \in [Owners -> Counts] /\ wanted \in [Goods -> Int]
  BY DEF CartInv, CartTypeOK
<1>1. /\ ccall' \in [CartCalls -> CartRequests] /\ ccall'[c] = NoCartCall
      /\ \A d \in CartCalls : d # c => ccall'[d] = ccall[d]
  BY <1>0, RecordStep, EmptyCarts
<1>2. /\ lines' \in [Owners -> Counts] /\ lines'[o] = g /\ \A q \in Owners : q # o => lines'[q] = lines[q]
  BY <1>0
<1>3. CartTypeOK' /\ \A d \in CartCalls : Fits(ccall'[d])
  BY <1>0, <1>1, <1>2, EmptyCarts DEF CartTypeOK, Around
<1>4. ASSUME raced' = FALSE PROVE MergesFit' /\ Balanced'
  <2>1. MergesFit /\ Balanced
    BY <1>4 DEF CartInv, Around
  <2>2. \A p : Copied(p)' <=> Copied(p)
    BY <1>1, EmptyCarts DEF Copied, MergeSteps
  <2>3. o = "guest" => \A d \in CartCalls : ccall[d].pc \notin CopySteps
    BY <1>4 DEF Merging, CopySteps
  <2>4. \A d \in CartCalls : d # c => (Current(d)' <=> Current(d))
    BY <1>1 DEF Current
  <2>5. MergesFit'
    <3>1. \A d \in CartCalls : ccall'[d].pc \in MergeSteps => d # c /\ ccall[d].pc \in MergeSteps
      BY <1>1, EmptyCarts DEF MergeSteps
    <3>2. \A d \in CartCalls : ccall'[d].pc \in CopySteps => d # c /\ ccall[d].pc \in CopySteps
      BY <1>1, EmptyCarts DEF CopySteps
    <3>3. ASSUME NEW d \in CartCalls, ccall'[d].pc \in CopySteps
          PROVE  Current(d)' /\ ccall'[d].snap = lines'["guest"]
      <4>1. d # c /\ ccall[d].pc \in CopySteps /\ ccall'[d] = ccall[d] /\ o # "guest"
        BY <1>1, <2>3, <3>2, <3>3
      <4>2. lines'["guest"] = lines["guest"]
        BY <1>2, <4>1 DEF Owners
      <4> QED
        BY <2>1, <2>4, <4>1, <4>2 DEF MergesFit
    <3> QED
      BY <2>1, <3>1, <3>3 DEF MergesFit
  <2>6. ASSUME NEW p \in Goods
        PROVE  /\ Copied(p)' => lines'["user"][p] = wanted'[p]
               /\ ~Copied(p)' => lines'["user"][p] + lines'["guest"][p] = wanted'[p]
    <3>1. /\ lines["user"][p] \in Nat /\ lines["guest"][p] \in Nat /\ g[p] \in Nat /\ wanted[p] \in Int
          /\ wanted'[p] = (wanted[p] + g[p]) - lines[o][p]
      BY <1>0 DEF Counts, Owners
    <3>2. /\ Copied(p) => lines["user"][p] = wanted[p]
          /\ ~Copied(p) => lines["user"][p] + lines["guest"][p] = wanted[p]
      BY <2>1 DEF Balanced
    <3>3. CASE o = "user"
      <4>1. lines'["user"] = g /\ lines'["guest"] = lines["guest"]
        BY <1>2, <3>3 DEF Owners
      <4> QED
        BY <2>2, <3>1, <3>2, <3>3, <4>1
    <3>4. CASE o = "guest"
      <4>1. lines'["guest"] = g /\ lines'["user"] = lines["user"]
        BY <1>2, <3>4 DEF Owners
      <4>2. ~Copied(p)
        BY <2>3, <3>4 DEF Copied, CopySteps
      <4> QED
        BY <2>2, <3>1, <3>2, <3>4, <4>1, <4>2
    <3> QED
      BY <3>3, <3>4 DEF Owners
  <2> QED
    BY <2>5, <2>6 DEF Balanced
<1>5. LinesFitStock'
  <2>1. CASE crowded' = TRUE
    BY <2>1 DEF LinesFitStock
  <2>2. CASE crowded' = FALSE
    BY <1>0, <1>2, <2>2 DEF LinesFitStock, Around
  <2> QED
    BY <2>1, <2>2 DEF Around
<1> QED
  BY <1>3, <1>4, <1>5 DEF CartInv

\* Requests that start.
LEMMA StartsKeep ==
    ASSUME CartInv, NEW c \in CartCalls, NEW o \in Owners,
           \/ ClearCart(c, o) \/ CheckoutReads(c, o)
           \/ \E p \in Goods : \/ RemoveItem(c, o, p)
                               \/ \E q \in Quantities : AddItem(c, o, p, q) \/ UpdateItem(c, o, p, q)
    PROVE  CartInv'
<1>0. CartTypeOK /\ onShelf \in [Goods -> 0..Shelf] /\ lines \in [Owners -> Counts]
  BY DEF CartInv, CartTypeOK
<1>1. UNCHANGED <<lines, session, gen, onShelf, wanted, raced, crowded, cfaults>>
  BY DEF AddItem, UpdateItem, RemoveItem, ClearCart, CheckoutReads
<1>2. Quantities \subseteq 0..Shelf
  BY DEF Quantities
<1>3. ASSUME NEW r \in CartRequests, Fits(r), r.pc \notin MergeSteps, Starts(c, r) PROVE CartInv'
  <2>1. PICK s \in CartRequests : /\ Fits(s) /\ s.pc = r.pc /\ ccall' = [ccall EXCEPT ![c] = s]
                                  /\ ccall[c].pc = "idle" /\ edits' \in 0..MaxEdits
    BY <1>0, <1>3, StartStep
  <2>2. Around
    BY <1>0, <1>1, <2>1 DEF Around, CartTypeOK
  <2> QED
    BY <1>1, <1>3, <2>1, <2>2, QuietKeeps
<1>4. ASSUME NEW p \in Goods, NEW q \in Quantities, AddItem(c, o, p, q) PROVE CartInv'
  <2>1. PICK l : l = Just(p, onShelf[p])
    OBVIOUS
  <2>2. l \in Counts /\ \A g \in Goods : l[g] <= Shelf
    BY <1>0, <2>1, EmptyCarts, CartAssumption DEF Just, Counts
  <2>3. PICK r : r = [NoCartCall EXCEPT !.pc = "resolve", !.by = o, !.item = p, !.qty = q, !.limit = l]
    OBVIOUS
  <2>4. r = [pc |-> "resolve", by |-> o, item |-> p, qty |-> q, session |-> 0, gen |-> 0,
             limit |-> l, snap |-> Nothing, have |-> Nothing, todo |-> {}, ask |-> FALSE]
    BY <2>3 DEF NoCartCall
  <2>5. r \in CartRequests
    BY <1>2, <2>2, <2>4, EmptyCarts DEF CartRequests, CartSteps
  <2>6. Fits(r) /\ r.pc \notin MergeSteps
    BY <2>2, <2>4 DEF Fits, MergeSteps, CopySteps
  <2>7. Starts(c, r)
    BY <1>4, <2>1, <2>3 DEF AddItem
  <2> QED
    BY <1>3, <2>5, <2>6, <2>7
<1>5. ASSUME NEW p \in Goods, RemoveItem(c, o, p) \/ \E q \in Quantities : UpdateItem(c, o, p, q)
      PROVE  CartInv'
  <2>1. PICK pc \in {"update", "remove"}, n \in 0..Shelf :
           Starts(c, [NoCartCall EXCEPT !.pc = pc, !.by = o, !.item = p, !.qty = n])
    <3>1. CASE \E q \in Quantities : UpdateItem(c, o, p, q)
      BY <1>2, <3>1 DEF UpdateItem
    <3>2. CASE RemoveItem(c, o, p)
      <4>1. PICK a : a = [NoCartCall EXCEPT !.pc = "remove", !.by = o, !.item = p]
        OBVIOUS
      <4>2. PICK b : b = [NoCartCall EXCEPT !.pc = "remove", !.by = o, !.item = p, !.qty = 0]
        OBVIOUS
      <4>3. a = [pc |-> "remove", by |-> o, item |-> p, qty |-> 0, session |-> 0, gen |-> 0,
                 limit |-> Nothing, snap |-> Nothing, have |-> Nothing, todo |-> {}, ask |-> FALSE]
        BY <4>1 DEF NoCartCall
      <4>4. b = [pc |-> "remove", by |-> o, item |-> p, qty |-> 0, session |-> 0, gen |-> 0,
                 limit |-> Nothing, snap |-> Nothing, have |-> Nothing, todo |-> {}, ask |-> FALSE]
        BY <4>2 DEF NoCartCall
      <4>5. Starts(c, b)
        BY <3>2, <4>1, <4>3, <4>4 DEF RemoveItem
      <4>6. 0 \in 0..Shelf
        BY CartAssumption
      <4> QED
        BY <4>2, <4>5, <4>6
    <3> QED
      BY <1>5, <3>1, <3>2
  <2>2. PICK r : r = [NoCartCall EXCEPT !.pc = pc, !.by = o, !.item = p, !.qty = n]
    OBVIOUS
  <2>3. r = [pc |-> pc, by |-> o, item |-> p, qty |-> n, session |-> 0, gen |-> 0,
             limit |-> Nothing, snap |-> Nothing, have |-> Nothing, todo |-> {}, ask |-> FALSE]
    BY <2>2 DEF NoCartCall
  <2>4. r \in CartRequests
    BY <2>3, EmptyCarts DEF CartRequests, CartSteps
  <2>5. Fits(r) /\ r.pc \notin MergeSteps
    BY <2>3, EmptyCarts, CartAssumption DEF Fits, MergeSteps, CopySteps
  <2> QED
    BY <1>3, <2>1, <2>2, <2>4, <2>5
<1>6. CASE ClearCart(c, o) \/ CheckoutReads(c, o)
  <2>1. PICK pc \in {"clear", "order"}, g \in Counts :
           Starts(c, [NoCartCall EXCEPT !.pc = pc, !.by = o, !.snap = g])
    <3>1. CASE CheckoutReads(c, o)
      BY <1>0, <3>1 DEF CheckoutReads
    <3>2. CASE ClearCart(c, o)
      <4>1. PICK a : a = [NoCartCall EXCEPT !.pc = "clear", !.by = o]
        OBVIOUS
      <4>2. PICK b : b = [NoCartCall EXCEPT !.pc = "clear", !.by = o, !.snap = Nothing]
        OBVIOUS
      <4>3. a = [pc |-> "clear", by |-> o, item |-> NoGood, qty |-> 0, session |-> 0, gen |-> 0,
                 limit |-> Nothing, snap |-> Nothing, have |-> Nothing, todo |-> {}, ask |-> FALSE]
        BY <4>1 DEF NoCartCall
      <4>4. b = [pc |-> "clear", by |-> o, item |-> NoGood, qty |-> 0, session |-> 0, gen |-> 0,
                 limit |-> Nothing, snap |-> Nothing, have |-> Nothing, todo |-> {}, ask |-> FALSE]
        BY <4>2 DEF NoCartCall
      <4>5. Starts(c, b)
        BY <3>2, <4>1, <4>3, <4>4 DEF ClearCart
      <4> QED
        BY <4>2, <4>5, EmptyCarts
    <3> QED
      BY <1>6, <3>1, <3>2
  <2>2. PICK r : r = [NoCartCall EXCEPT !.pc = pc, !.by = o, !.snap = g]
    OBVIOUS
  <2>3. r = [pc |-> pc, by |-> o, item |-> NoGood, qty |-> 0, session |-> 0, gen |-> 0,
             limit |-> Nothing, snap |-> g, have |-> Nothing, todo |-> {}, ask |-> FALSE]
    BY <2>2 DEF NoCartCall
  <2>4. r \in CartRequests
    BY <2>3, EmptyCarts, CartAssumption DEF CartRequests, CartSteps
  <2>5. Fits(r) /\ r.pc \notin MergeSteps
    BY <2>3, EmptyCarts, CartAssumption DEF Fits, MergeSteps, CopySteps
  <2> QED
    BY <1>3, <2>1, <2>2, <2>4, <2>5
<1> QED
  BY <1>4, <1>5, <1>6

\* An add looks for its cart and then at its line.
LEMMA AddLooks ==
    ASSUME CartInv, NEW c \in CartCalls, resolveCart(c) \/ AddCheck(c) PROVE CartInv'
<1>0. /\ CartTypeOK /\ lines \in [Owners -> Counts] /\ gen \in Nat
      /\ edits \in 0..MaxEdits /\ cfaults \in 0..MaxCartFaults
  BY DEF CartInv, CartTypeOK
<1>1. UNCHANGED <<lines, session, gen, onShelf, wanted, raced, crowded, edits, cfaults>> /\ Around
  BY <1>0 DEF resolveCart, AddCheck, Around, CartTypeOK
<1>2. PICK r \in CartRequests : r = ccall[c] /\ Fits(r)
  BY <1>0 DEF CartTypeOK, CartInv
<1>3. ASSUME NEW s \in CartRequests, Fits(s), s.pc \notin MergeSteps, ccall' = [ccall EXCEPT ![c] = s],
             ccall[c].pc \in {"resolve", "check"}
      PROVE  CartInv'
  <2>1. ccall[c].pc \notin {"move", "delete"}
    BY <1>3
  <2> QED
    BY <1>1, <1>3, <2>1, QuietKeeps
<1>4. CASE resolveCart(c)
  <2>1. PICK g \in Nat : g = IF r.session = session THEN gen ELSE r.gen
    BY <1>0, <1>2, CartFields
  <2>2. PICK s : s = [r EXCEPT !.pc = "check", !.gen = g]
    OBVIOUS
  <2>3. s = [pc |-> "check", by |-> r.by, item |-> r.item, qty |-> r.qty, session |-> r.session, gen |-> g,
             limit |-> r.limit, snap |-> r.snap, have |-> r.have, todo |-> r.todo, ask |-> r.ask]
    BY <2>2 DEF CartRequests
  <2>4. s \in CartRequests
    BY <2>3, CartFields DEF CartRequests, CartSteps
  <2>5. r.pc = "resolve" /\ ccall' = [ccall EXCEPT ![c] = s]
    BY <1>2, <1>4, <2>1, <2>2 DEF resolveCart, CartStep
  <2>6. Fits(s) /\ s.pc \notin MergeSteps
    BY <1>2, <2>3, <2>5 DEF Fits, MergeSteps, CopySteps
  <2> QED
    BY <1>2, <1>3, <2>4, <2>5, <2>6
<1>5. CASE AddCheck(c)
  <2>0. r.pc = "check" /\ r.item \in Goods /\ r.by \in Owners
    BY <1>2, <1>5, CartFields DEF AddCheck, Fits
  <2>1. CASE ccall' = [ccall EXCEPT ![c] = NoCartCall]
    BY <1>2, <1>3, <2>0, <2>1, EmptyCarts DEF MergeSteps
  <2>2. CASE ccall' # [ccall EXCEPT ![c] = NoCartCall]
    <3>1. PICK h : h = IF Current(c) THEN Just(r.item, lines[r.by][r.item]) ELSE Nothing
      OBVIOUS
    <3>2. PICK s : s = [r EXCEPT !.pc = "add", !.limit = Nothing, !.have = h]
      OBVIOUS
    <3>3. /\ ccall' = [ccall EXCEPT ![c] = s]
          /\ Current(c) => ~(lines[r.by][r.item] + r.qty > r.limit[r.item])
      BY <1>2, <1>5, <2>2, <3>1, <3>2 DEF AddCheck, Ends, CartStep
    <3>4. lines[r.by][r.item] \in Nat /\ r.qty \in Nat /\ r.qty <= Shelf /\ r.limit[r.item] \in Nat
      BY <1>0, <2>0, CartFields, CartAssumption DEF Counts
    <3>5. h \in Counts /\ h[r.item] = IF Current(c) THEN lines[r.by][r.item] ELSE 0
      BY <2>0, <3>1, <3>4, EmptyCarts DEF Just, Counts
    <3>6. s = [pc |-> "add", by |-> r.by, item |-> r.item, qty |-> r.qty, session |-> r.session, gen |-> r.gen,
               limit |-> Nothing, snap |-> r.snap, have |-> h, todo |-> r.todo, ask |-> r.ask]
      BY <3>2 DEF CartRequests
    <3>7. s \in CartRequests
      BY <3>5, <3>6, CartFields, EmptyCarts DEF CartRequests, CartSteps
    <3>8. h[r.item] + r.qty <= Shelf
      <4>1. r.limit[r.item] <= Shelf
        BY <1>2, <2>0 DEF Fits
      <4> QED
        BY <3>3, <3>4, <3>5, <4>1, CartAssumption
    <3>9. Fits(s) /\ s.pc \notin MergeSteps
      BY <2>0, <3>6, <3>8, EmptyCarts, CartAssumption DEF Fits, MergeSteps, CopySteps
    <3> QED
      BY <1>2, <1>3, <2>0, <3>3, <3>7, <3>9
  <2> QED
    BY <2>1, <2>2
<1> QED
  BY <1>4, <1>5

\* A line that is written, or a race.
LEMMA WriteKeeps ==
    ASSUME CartInv, NEW c \in CartCalls, ccall[c].pc \in {"add", "update", "remove"}, Ends(c),
           NEW p \in Goods, p = ccall[c].item, NEW n \in Nat, Write(c, p, n),
           UNCHANGED <<session, gen, onShelf, edits, cfaults>>, crowded' \in BOOLEAN,
           crowded' = FALSE => crowded = FALSE /\ (Current(c) => n <= Shelf)
    PROVE  CartInv'
<1>0. /\ CartTypeOK /\ lines \in [Owners -> Counts] /\ wanted \in [Goods -> Int] /\ raced \in BOOLEAN
      /\ LinesFitStock
  BY DEF CartInv, CartTypeOK
<1>1. PICK o \in Owners : o = ccall[c].by
  BY <1>0, CartFields DEF CartTypeOK
<1>2. ccall' = [ccall EXCEPT ![c] = NoCartCall]
  BY DEF Ends, CartStep
<1>3. CASE Current(c)
  <2>1. PICK g : g = [lines[o] EXCEPT ![p] = n]
    OBVIOUS
  <2>2. g \in Counts /\ \A q \in Goods : g[q] = IF q = p THEN n ELSE lines[o][q]
    BY <1>0, <2>1 DEF Counts
  <2>3. /\ lines' = [lines EXCEPT ![o] = g] /\ wanted' = [wanted EXCEPT ![p] = (@ + n) - lines[o][p]]
        /\ raced' = (raced \/ (o = "guest" /\ Merging # {}))
    BY <1>1, <1>3, <2>1 DEF Write
  <2>4. \A q \in Goods : lines[o][q] \in Nat /\ wanted[q] \in Int
    BY <1>0 DEF Counts
  <2>5. wanted' \in [Goods -> Int] /\ \A q \in Goods : wanted'[q] = (wanted[q] + g[q]) - lines[o][q]
    BY <1>0, <2>2, <2>3, <2>4
  <2>6. Around
    BY <1>0, <2>3 DEF Around, CartTypeOK
  <2>7. crowded' = FALSE => \A q \in Goods : g[q] <= Shelf
    BY <1>0, <1>3, <2>2 DEF LinesFitStock
  <2>8. raced' = FALSE /\ o = "guest" => Merging = {}
    BY <2>3
  <2>9. ccall[c].pc \notin MergeSteps
    BY DEF MergeSteps
  <2> QED
    BY ZenonT(60), <1>2, <2>2, <2>3, <2>5, <2>6, <2>7, <2>8, <2>9, EditedLinesKeep
<1>4. CASE ~Current(c)
  <2>1. raced' = TRUE /\ UNCHANGED <<lines, wanted>>
    BY <1>4 DEF Write
  <2>2. Around
    BY <1>0, <2>1 DEF Around, CartTypeOK
  <2> QED
    BY <1>2, <2>1, <2>2, EmptyCarts, QuietKeeps DEF MergeSteps
<1> QED
  BY <1>3, <1>4

\* A request that ends without having changed anything.
LEMMA NothingDone ==
    ASSUME CartInv, NEW c \in CartCalls, Ends(c), UNCHANGED <<lines, session, gen, wanted>>, Around,
           raced' = FALSE => ccall[c].pc \notin {"move", "delete"}
    PROVE  CartInv'
<1>1. ccall' = [ccall EXCEPT ![c] = NoCartCall]
  BY DEF Ends, CartStep
<1> QED
  BY <1>1, EmptyCarts, QuietKeeps DEF MergeSteps

LEMMA EditsKeep ==
    ASSUME CartInv, NEW c \in CartCalls, AddWrite(c) \/ UpdateItemQuantity(c) \/ RemoveWrite(c)
    PROVE  CartInv'
<1>0. CartTypeOK /\ lines \in [Owners -> Counts] /\ crowded \in BOOLEAN /\ onShelf \in [Goods -> 0..Shelf]
  BY DEF CartInv, CartTypeOK
<1>1. PICK r \in CartRequests : r = ccall[c] /\ Fits(r)
  BY <1>0 DEF CartTypeOK, CartInv
<1>2. /\ r.pc \in {"add", "update", "remove"} /\ Ends(c)
      /\ UNCHANGED <<session, gen, onShelf, edits, cfaults>>
  BY <1>1 DEF AddWrite, UpdateItemQuantity, RemoveWrite
<1>3. PICK p \in Goods, o \in Owners : p = r.item /\ o = r.by
  BY <1>1, <1>2, CartFields DEF Fits
<1>4. r.qty \in Nat /\ r.qty <= Shelf /\ lines[o][p] \in Nat /\ r.have[p] \in Nat
  BY <1>0, <1>3, CartFields, CartAssumption DEF Counts
<1>5. ASSUME UNCHANGED <<lines, wanted, raced>>, crowded' \in BOOLEAN, crowded' = FALSE => crowded = FALSE
      PROVE  CartInv'
  <2>1. Around
    BY <1>0, <1>2, <1>5 DEF Around, CartTypeOK
  <2> QED
    BY <1>1, <1>2, <1>5, <2>1, NothingDone
<1>6. CASE AddWrite(c)
  <2>1. /\ crowded' = (crowded \/ (Current(c) /\ lines[o][p] # r.have[p])) /\ r.pc = "add"
        /\ IF Gone(c) THEN UNCHANGED <<lines, wanted, raced>> ELSE Write(c, p, lines[o][p] + r.qty)
    BY <1>1, <1>3, <1>6 DEF AddWrite
  <2>2. /\ crowded' \in BOOLEAN
        /\ crowded' = FALSE => crowded = FALSE /\ (Current(c) => lines[o][p] = r.have[p])
    BY <1>0, <2>1
  <2>3. r.have[p] + r.qty <= Shelf
    BY <1>1, <1>3, <2>1 DEF Fits
  <2>4. CASE Gone(c)
    BY <1>5, <2>1, <2>2, <2>4
  <2>5. CASE ~Gone(c)
    <3>1. PICK n \in Nat : n = lines[o][p] + r.qty
      BY <1>4
    <3>2. Write(c, p, n)
      BY <2>1, <2>5, <3>1
    <3>3. crowded' = FALSE => crowded = FALSE /\ (Current(c) => n <= Shelf)
      BY <2>2, <2>3, <3>1
    <3> QED
      BY <1>1, <1>2, <1>3, <2>2, <3>2, <3>3, WriteKeeps
  <2> QED
    BY <2>4, <2>5
<1>7. CASE UpdateItemQuantity(c) \/ RemoveWrite(c)
  <2>1. UNCHANGED crowded
    BY <1>7 DEF UpdateItemQuantity, RemoveWrite
  <2>2. PICK n \in Nat : n <= Shelf /\ (Write(c, p, n) \/ UNCHANGED <<lines, wanted, raced>>)
    BY <1>1, <1>3, <1>4, <1>7, CartAssumption DEF UpdateItemQuantity, RemoveWrite
  <2> QED
    BY <1>0, <1>1, <1>2, <1>3, <1>5, <2>1, <2>2, WriteKeeps
<1> QED
  BY <1>6, <1>7

\* A cart that is emptied, by its owner or by a checkout.
LEMMA EmptyingKeeps ==
    ASSUME CartInv, NEW c \in CartCalls, ClearWrite(c) \/ CheckoutCommits(c) PROVE CartInv'
<1>0. /\ CartTypeOK /\ lines \in [Owners -> Counts] /\ wanted \in [Goods -> Int] /\ raced \in BOOLEAN
      /\ onShelf \in [Goods -> 0..Shelf]
  BY DEF CartInv, CartTypeOK
<1>1. PICK r \in CartRequests : r = ccall[c]
  BY <1>0 DEF CartTypeOK
<1>2. /\ r.pc \in {"clear", "order"} /\ Ends(c) /\ ccall' = [ccall EXCEPT ![c] = NoCartCall]
      /\ UNCHANGED <<session, gen, crowded, edits, cfaults>>
  BY <1>1 DEF ClearWrite, CheckoutCommits, Ends, CartStep
<1>3. PICK o \in Owners : o = r.by
  BY CartFields
<1>4. onShelf' \in [Goods -> 0..Shelf]
  <2>1. CASE onShelf' = onShelf
    BY <1>0, <2>1
  <2>2. CASE onShelf' # onShelf
    <3>1. /\ \A p \in Goods : r.snap[p] <= onShelf[p]
          /\ onShelf' = [p \in Goods |-> onShelf[p] - r.snap[p]]
      BY <1>1, <2>2 DEF ClearWrite, CheckoutCommits
    <3>2. \A p \in Goods : r.snap[p] \in Nat
      BY CartFields DEF Counts
    <3> QED
      BY <1>0, <3>1, <3>2, CartAssumption
  <2> QED
    BY <2>1, <2>2
<1>5. ASSUME UNCHANGED <<lines, wanted>>, raced' \in BOOLEAN, raced' = FALSE => raced = FALSE
      PROVE  CartInv'
  <2>1. Around
    BY <1>0, <1>2, <1>4, <1>5 DEF Around, CartTypeOK
  <2> QED
    BY <1>1, <1>2, <1>5, <2>1, NothingDone
<1>6. ASSUME NEW seen, Empty(o, seen) PROVE CartInv'
  <2>1. /\ lines' = [lines EXCEPT ![o] = Nothing] /\ wanted' = [p \in Goods |-> wanted[p] - lines[o][p]]
        /\ raced' = (raced \/ lines[o] # seen \/ (o = "guest" /\ Merging # {}))
    BY <1>6 DEF Empty
  <2>2. \A p \in Goods : lines[o][p] \in Nat /\ wanted[p] \in Int
    BY <1>0 DEF Counts
  <2>3. /\ wanted' \in [Goods -> Int]
        /\ \A p \in Goods : wanted'[p] = (wanted[p] + Nothing[p]) - lines[o][p]
    BY <2>1, <2>2, EmptyCarts
  <2>4. Around
    BY <1>0, <1>2, <1>4, <2>1 DEF Around, CartTypeOK
  <2>5. ccall[c].pc \notin MergeSteps
    BY <1>1, <1>2 DEF MergeSteps
  <2>6. \A p \in Goods : Nothing[p] <= Shelf
    BY EmptyCarts, CartAssumption
  <2>7. raced' = FALSE /\ o = "guest" => Merging = {}
    BY <2>1
  <2> QED
    BY <1>2, <2>1, <2>3, <2>4, <2>5, <2>6, <2>7, EmptyCarts, EditedLinesKeep
<1>7. CASE ClearWrite(c)
  BY <1>0, <1>1, <1>3, <1>5, <1>6, <1>7 DEF ClearWrite
<1>8. CASE CheckoutCommits(c)
  BY <1>0, <1>1, <1>3, <1>5, <1>6, <1>8 DEF CheckoutCommits
<1> QED
  BY <1>7, <1>8

-----------------------------------------------------------------------------
(* Cart: merging                                                           *)

\* A merge that goes on, or starts, without touching a line.
LEMMA MergeGoesOn ==
    ASSUME CartInv, NEW c \in CartCalls, NEW s \in CartRequests, Fits(s), ccall' = [ccall EXCEPT ![c] = s],
           UNCHANGED <<lines, session, gen, wanted>>, Around,
           raced' = FALSE /\ s.pc \in MergeSteps => \A d \in CartCalls : d # c => ccall[d].pc \notin MergeSteps,
           raced' = FALSE /\ s.pc \in CopySteps =>
              s.session = session /\ s.gen = gen /\ s.snap = lines["guest"],
           \A p \in Goods : raced' = FALSE => (Copied(p)' <=> Copied(p)) \/ lines["guest"][p] = 0
    PROVE  CartInv'
<1>0. /\ CartTypeOK /\ (\A d \in CartCalls : Fits(ccall[d])) /\ LinesFitStock
      /\ lines \in [Owners -> Counts] /\ wanted \in [Goods -> Int]
  BY DEF CartInv, CartTypeOK
<1>1. /\ ccall' \in [CartCalls -> CartRequests] /\ ccall'[c] = s
      /\ \A d \in CartCalls : d # c => ccall'[d] = ccall[d]
  BY <1>0, RecordStep
<1>2. CartTypeOK' /\ \A d \in CartCalls : Fits(ccall'[d])
  BY <1>0, <1>1 DEF CartTypeOK, Around
<1>3. ASSUME raced' = FALSE PROVE MergesFit' /\ Balanced'
  <2>1. MergesFit /\ Balanced
    BY <1>3 DEF CartInv, Around
  <2>2. ASSUME NEW d \in CartCalls, ccall'[d].pc \in CopySteps
        PROVE  Current(d)' /\ ccall'[d].snap = lines'["guest"]
    BY <1>1, <1>3, <2>1, <2>2 DEF MergesFit, Current
  <2>3. \A a, b \in CartCalls : ccall'[a].pc \in MergeSteps /\ ccall'[b].pc \in MergeSteps => a = b
    BY <1>1, <1>3, <2>1 DEF MergesFit
  <2>4. ASSUME NEW p \in Goods
        PROVE  /\ Copied(p)' => lines["user"][p] = wanted[p]
               /\ ~Copied(p)' => lines["user"][p] + lines["guest"][p] = wanted[p]
    <3>1. lines["user"][p] \in Nat /\ lines["guest"][p] \in Nat /\ wanted[p] \in Int
      BY <1>0 DEF Counts, Owners
    <3>2. (Copied(p)' <=> Copied(p)) \/ lines["guest"][p] = 0
      BY <1>3
    <3> QED
      BY <2>1, <3>1, <3>2 DEF Balanced
  <2> QED
    BY <2>2, <2>3, <2>4 DEF MergesFit, Balanced
<1>4. LinesFitStock'
  BY <1>0 DEF LinesFitStock, Around, CartTypeOK
<1> QED
  BY <1>2, <1>3, <1>4 DEF CartInv

\* Whether anything is copied, as one merge goes from s to t and the others stand.
LEMMA CopiedByOne ==
    ASSUME CartTypeOK, NEW c \in CartCalls, NEW s \in CartRequests, ccall' = [ccall EXCEPT ![c] = s],
           ccall[c].pc \notin {"move", "delete"}, s.pc \notin {"move", "delete"}, NEW p
    PROVE  Copied(p)' <=> Copied(p)
<1>1. /\ ccall'[c] = s /\ \A d \in CartCalls : d # c => ccall'[d] = ccall[d]
  BY RecordStep
<1> QED
  BY <1>1 DEF Copied

LEMMA MergeStartKeeps ==
    ASSUME CartInv, NEW c \in CartCalls, NEW strategy \in {"ask", "guest", "user"}, Merge(c, strategy)
    PROVE  CartInv'
<1>0. CartTypeOK /\ raced \in BOOLEAN
  BY DEF CartInv, CartTypeOK
<1>1. PICK pc \in {"load", "discard"}, a \in BOOLEAN :
         pc = (IF strategy = "user" THEN "discard" ELSE "load") /\ a = (strategy = "ask")
  OBVIOUS
<1>2. PICK r : r = [NoCartCall EXCEPT !.pc = pc, !.by = "guest", !.ask = a]
  OBVIOUS
<1>3. r = [pc |-> pc, by |-> "guest", item |-> NoGood, qty |-> 0, session |-> 0, gen |-> 0,
           limit |-> Nothing, snap |-> Nothing, have |-> Nothing, todo |-> {}, ask |-> a]
  BY <1>2 DEF NoCartCall
<1>4. r \in CartRequests
  BY <1>3, EmptyCarts, CartAssumption DEF CartRequests, CartSteps, Owners
<1>5. Fits(r) /\ r.pc = pc
  BY <1>3, EmptyCarts, CartAssumption DEF Fits, MergeSteps, CopySteps
<1>6. /\ Starts(c, r) /\ UNCHANGED <<lines, session, gen, onShelf, wanted, crowded, cfaults>>
      /\ raced' = (raced \/ \E d \in CartCalls : ccall[d].pc \in {"load", "status"} \/ d \in Merging)
  BY <1>1, <1>2 DEF Merge
<1>7. PICK s \in CartRequests : /\ Fits(s) /\ s.pc = pc /\ ccall' = [ccall EXCEPT ![c] = s]
                                /\ ccall[c].pc = "idle" /\ edits' \in 0..MaxEdits
  BY <1>0, <1>4, <1>5, <1>6, StartStep
<1>8. Around
  BY <1>0, <1>6, <1>7 DEF Around, CartTypeOK
<1>9. raced' = FALSE => \A d \in CartCalls : ccall[d].pc \notin MergeSteps
  BY <1>6 DEF MergeSteps, Merging
<1>10. \A p \in Goods : Copied(p)' <=> Copied(p)
  BY <1>0, <1>7, CopiedByOne
<1>11. s.pc \notin CopySteps
  BY <1>7 DEF CopySteps
<1> QED
  BY <1>6, <1>7, <1>8, <1>9, <1>10, <1>11, MergeGoesOn

\* The steps that read.
LEMMA MergeReadsKeep ==
    ASSUME CartInv, NEW c \in CartCalls, MergeLoad(c) \/ MergeStatus(c) \/ MergeExisting(c) \/ MergeCopied(c)
    PROVE  CartInv'
<1>0. /\ CartTypeOK /\ lines \in [Owners -> Counts] /\ onShelf \in [Goods -> 0..Shelf] /\ raced \in BOOLEAN
  BY DEF CartInv, CartTypeOK
<1>1. PICK r \in CartRequests : r = ccall[c] /\ Fits(r)
  BY <1>0 DEF CartTypeOK, CartInv
<1>2. /\ r.pc \in MergeSteps /\ r.by = "guest"
      /\ UNCHANGED <<lines, session, gen, onShelf, wanted, crowded, edits, cfaults>>
      /\ raced' \in BOOLEAN /\ (raced' = FALSE => raced = FALSE) /\ Around
  <2>1. r.pc \in MergeSteps
    BY <1>1 DEF MergeLoad, MergeStatus, MergeExisting, MergeCopied, MergeSteps
  <2>2. /\ UNCHANGED <<lines, session, gen, onShelf, wanted, crowded, edits, cfaults>>
        /\ raced' \in BOOLEAN /\ (raced' = FALSE => raced = FALSE)
    BY <1>0 DEF MergeLoad, MergeStatus, MergeExisting, MergeCopied
  <2> QED
    BY <1>0, <1>1, <2>1, <2>2 DEF Around, CartTypeOK, Fits
<1>3. lines["guest"] \in Counts /\ lines["user"] \in Counts
  BY <1>0 DEF Owners
<1>4. raced' = FALSE =>
         /\ \A d \in CartCalls : d # c => ccall[d].pc \notin MergeSteps
         /\ r.pc \in CopySteps => r.session = session /\ r.gen = gen /\ r.snap = lines["guest"]
  <2> SUFFICES ASSUME raced' = FALSE
               PROVE  /\ \A d \in CartCalls : d # c => ccall[d].pc \notin MergeSteps
                      /\ r.pc \in CopySteps => r.session = session /\ r.gen = gen /\ r.snap = lines["guest"]
    OBVIOUS
  <2>1. MergesFit
    BY <1>2 DEF CartInv
  <2> QED
    BY <1>1, <1>2, <2>1 DEF MergesFit, Current
<1>5. CASE MergeLoad(c)
  <2>1. PICK found \in Counts : found = IF Current(c) THEN lines["guest"] ELSE Nothing
    BY <1>3, EmptyCarts
  <2>2. PICK pc : pc = IF found # Nothing THEN IF r.ask THEN "status" ELSE "existing"
                       ELSE IF r.ask THEN "answer" ELSE "discard"
    OBVIOUS
  <2>3. pc \in {"status", "existing", "answer", "discard"} /\ (pc \in {"status", "existing"} => found # Nothing)
    BY <2>2
  <2>4. PICK s : s = [r EXCEPT !.snap = found, !.limit = onShelf, !.pc = pc]
    OBVIOUS
  <2>5. s = [pc |-> pc, by |-> r.by, item |-> r.item, qty |-> r.qty, session |-> r.session, gen |-> r.gen,
             limit |-> onShelf, snap |-> found, have |-> r.have, todo |-> r.todo, ask |-> r.ask]
    BY <2>4 DEF CartRequests
  <2>6. onShelf \in Counts /\ \A p \in Goods : onShelf[p] <= Shelf
    BY <1>0, CartAssumption DEF Counts
  <2>7. s \in CartRequests
    BY <2>3, <2>5, <2>6, CartFields DEF CartRequests, CartSteps
  <2>8. Fits(s)
    BY <1>2, <2>3, <2>5, <2>6 DEF Fits, MergeSteps, CopySteps
  <2>9. r.pc = "load" /\ ccall' = [ccall EXCEPT ![c] = s]
    BY <1>1, <1>5, <2>1, <2>2, <2>4 DEF MergeLoad, CartStep
  <2>10. \A p \in Goods : Copied(p)' <=> Copied(p)
    BY <1>0, <1>1, <2>3, <2>5, <2>7, <2>9, CopiedByOne
  <2>11. s.pc \in CopySteps => s.session = session /\ s.gen = gen /\ s.snap = lines["guest"]
    <3>1. s.pc \in CopySteps => Current(c)
      BY <2>1, <2>3, <2>5 DEF CopySteps
    <3>2. Current(c) => r.session = session /\ r.gen = gen
      BY <1>1, <1>2 DEF Current
    <3> QED
      BY <2>1, <2>5, <3>1, <3>2
  <2> QED
    BY <1>2, <1>4, <2>7, <2>8, <2>9, <2>10, <2>11, MergeGoesOn
<1>6. CASE MergeStatus(c)
  <2>1. r.pc = "status"
    BY <1>1, <1>6 DEF MergeStatus
  <2>2. CASE lines["user"] # Nothing
    <3>1. Ends(c)
      BY <1>6, <2>2 DEF MergeStatus
    <3> QED
      BY <1>1, <1>2, <2>1, <3>1, NothingDone
  <2>3. CASE lines["user"] = Nothing
    <3>1. PICK s : s = [r EXCEPT !.pc = "existing"]
      OBVIOUS
    <3>2. s = [pc |-> "existing", by |-> r.by, item |-> r.item, qty |-> r.qty, session |-> r.session, gen |-> r.gen,
               limit |-> r.limit, snap |-> r.snap, have |-> r.have, todo |-> r.todo, ask |-> r.ask]
      BY <3>1 DEF CartRequests
    <3>3. s \in CartRequests
      BY <3>2, CartFields DEF CartRequests, CartSteps
    <3>4. Fits(s)
      BY <1>1, <1>2, <2>1, <3>2 DEF Fits, MergeSteps, CopySteps
    <3>5. ccall' = [ccall EXCEPT ![c] = s]
      BY <1>1, <1>6, <2>3, <3>1 DEF MergeStatus, CartStep
    <3>6. \A p \in Goods : Copied(p)' <=> Copied(p)
      BY <1>0, <1>1, <2>1, <3>2, <3>3, <3>5, CopiedByOne
    <3>7. raced' = FALSE => s.session = session /\ s.gen = gen /\ s.snap = lines["guest"]
      <4>1. raced' = FALSE => lines["guest"] = r.snap /\ Current(c)
        BY <1>1, <1>6, <2>3 DEF MergeStatus
      <4>2. Current(c) => r.session = session /\ r.gen = gen
        BY <1>1, <1>2 DEF Current
      <4> QED
        BY <3>2, <4>1, <4>2
    <3> QED
      BY <1>2, <1>4, <3>3, <3>4, <3>5, <3>6, <3>7, MergeGoesOn
  <2> QED
    BY <2>2, <2>3
<1>7. CASE MergeExisting(c)
  <2>1. PICK t \in SUBSET Goods : t = {p \in Goods : r.snap[p] > 0}
    OBVIOUS
  <2>2. PICK s : s = [r EXCEPT !.pc = "move", !.have = lines["user"], !.todo = t]
    OBVIOUS
  <2>3. s = [pc |-> "move", by |-> r.by, item |-> r.item, qty |-> r.qty, session |-> r.session, gen |-> r.gen,
             limit |-> r.limit, snap |-> r.snap, have |-> lines["user"], todo |-> t, ask |-> r.ask]
    BY <2>2 DEF CartRequests
  <2>4. s \in CartRequests
    BY <1>3, <2>3, CartFields DEF CartRequests, CartSteps
  <2>5. r.pc = "existing" /\ ccall' = [ccall EXCEPT ![c] = s]
    BY <1>1, <1>7, <2>1, <2>2 DEF MergeExisting, CartStep
  <2>6. Fits(s)
    BY <1>1, <1>2, <2>3, <2>5 DEF Fits, MergeSteps, CopySteps
  <2>7. /\ ccall'[c] = s /\ \A d \in CartCalls : d # c => ccall'[d] = ccall[d]
    BY <1>0, <2>4, <2>5, RecordStep
  <2>8. ASSUME NEW p \in Goods, raced' = FALSE PROVE (Copied(p)' <=> Copied(p)) \/ lines["guest"][p] = 0
    <3>1. ~Copied(p) /\ r.snap = lines["guest"]
      <4>1. \A d \in CartCalls : ccall[d].pc \in MergeSteps => d = c
        BY <1>4, <2>8
      <4>2. \A d \in CartCalls : ccall[d].pc \notin {"move", "delete"}
        BY <1>1, <2>5, <4>1 DEF MergeSteps
      <4> QED
        BY <1>4, <2>5, <2>8, <4>2 DEF Copied, CopySteps
    <3>2. Copied(p)' => p \notin t
      <4>1. \A d \in CartCalls : d # c => ccall'[d].pc \notin {"move", "delete"}
        BY <1>4, <2>7, <2>8 DEF MergeSteps
      <4>2. ccall'[c].pc = "move" /\ ccall'[c].todo = t
        BY <2>3, <2>7
      <4> QED
        BY <4>1, <4>2 DEF Copied
    <3>3. lines["guest"][p] \in Nat
      BY <1>3 DEF Counts
    <3> QED
      BY <2>1, <3>1, <3>2, <3>3
  <2>9. raced' = FALSE => s.session = session /\ s.gen = gen /\ s.snap = lines["guest"]
    BY <1>4, <2>3, <2>5 DEF CopySteps
  <2> QED
    BY <1>2, <1>4, <2>4, <2>5, <2>6, <2>8, <2>9, MergeGoesOn
<1>8. CASE MergeCopied(c)
  <2>1. PICK s : s = [r EXCEPT !.pc = "delete"]
    OBVIOUS
  <2>2. s = [pc |-> "delete", by |-> r.by, item |-> r.item, qty |-> r.qty, session |-> r.session, gen |-> r.gen,
             limit |-> r.limit, snap |-> r.snap, have |-> r.have, todo |-> r.todo, ask |-> r.ask]
    BY <2>1 DEF CartRequests
  <2>3. s \in CartRequests
    BY <2>2, CartFields DEF CartRequests, CartSteps
  <2>4. r.pc = "move" /\ r.todo = {} /\ ccall' = [ccall EXCEPT ![c] = s]
    BY <1>1, <1>8, <2>1 DEF MergeCopied, CartStep
  <2>5. Fits(s)
    BY <1>1, <1>2, <2>2, <2>4 DEF Fits, MergeSteps, CopySteps
  <2>6. ccall'[c] = s
    BY <1>0, <2>3, <2>4, RecordStep
  <2>7. \A p \in Goods : Copied(p)' /\ Copied(p)
    BY <1>1, <2>2, <2>4, <2>6 DEF Copied
  <2>8. raced' = FALSE => s.session = session /\ s.gen = gen /\ s.snap = lines["guest"]
    BY <1>4, <2>2, <2>4 DEF CopySteps
  <2> QED
    BY <1>2, <1>4, <2>3, <2>4, <2>5, <2>7, <2>8, MergeGoesOn
<1> QED
  BY <1>5, <1>6, <1>7, <1>8

\* A line that is copied counts in the user's cart from then on, and not in the guest's.
LEMMA MergeMoveKeeps ==
    ASSUME CartInv, NEW c \in CartCalls, NEW p \in Goods, MergeMove(c, p) PROVE CartInv'
<1>0. /\ CartTypeOK /\ (\A d \in CartCalls : Fits(ccall[d])) /\ LinesFitStock
      /\ lines \in [Owners -> Counts] /\ wanted \in [Goods -> Int] /\ crowded \in BOOLEAN
  BY DEF CartInv, CartTypeOK
<1>1. PICK r \in CartRequests : r = ccall[c] /\ Fits(r)
  BY <1>0 DEF CartTypeOK
<1>2. /\ r.pc = "move" /\ p \in r.todo /\ UNCHANGED <<session, gen, onShelf, raced, edits, cfaults>>
      /\ crowded' = (crowded \/ lines["user"][p] # r.have[p])
  BY <1>1 DEF MergeMove
<1>3. PICK s : s = [r EXCEPT !.todo = r.todo \ {p}]
  OBVIOUS
<1>4. s = [pc |-> r.pc, by |-> r.by, item |-> r.item, qty |-> r.qty, session |-> r.session, gen |-> r.gen,
           limit |-> r.limit, snap |-> r.snap, have |-> r.have, todo |-> r.todo \ {p}, ask |-> r.ask]
  BY <1>3 DEF CartRequests
<1>5. s \in CartRequests
  BY <1>4, CartFields DEF CartRequests
<1>6. ccall' = [ccall EXCEPT ![c] = s]
  BY <1>1, <1>3 DEF MergeMove, CartStep
<1>7. Fits(s) /\ s.pc = "move" /\ s.todo = r.todo \ {p}
  BY <1>1, <1>2, <1>4 DEF Fits
<1>8. /\ ccall' \in [CartCalls -> CartRequests] /\ ccall'[c] = s
      /\ \A d \in CartCalls : d # c => ccall'[d] = ccall[d]
  BY <1>0, <1>5, <1>6, RecordStep
<1>9. /\ lines["user"] \in Counts /\ lines["user"][p] \in Nat /\ lines["guest"][p] \in Nat /\ wanted[p] \in Int
      /\ r.snap[p] \in Nat /\ r.have[p] \in Nat /\ r.limit[p] \in Nat /\ r.limit[p] <= Shelf
  BY <1>0, <1>1, CartFields DEF Counts, Owners, Fits
<1>10. PICK n : n = Room(c, p)
  OBVIOUS
<1>11. n \in Nat /\ (n = 0 \/ r.have[p] + n <= r.limit[p])
  BY <1>1, <1>9, <1>10 DEF Room, Minimum
<1>12. PICK g : g = [lines["user"] EXCEPT ![p] = @ + n]
  OBVIOUS
<1>13. g \in Counts /\ g[p] = lines["user"][p] + n /\ \A q \in Goods : q # p => g[q] = lines["user"][q]
  BY <1>9, <1>11, <1>12 DEF Counts
<1>14. /\ lines' = [lines EXCEPT !["user"] = g] /\ wanted' = [wanted EXCEPT ![p] = (@ + n) - r.snap[p]]
  BY <1>1, <1>10, <1>12 DEF MergeMove
<1>15. lines' \in [Owners -> Counts] /\ lines'["user"] = g /\ lines'["guest"] = lines["guest"]
  BY <1>0, <1>13, <1>14 DEF Owners
<1>16. /\ wanted' \in [Goods -> Int] /\ wanted'[p] = (wanted[p] + n) - r.snap[p]
       /\ \A q \in Goods : q # p => wanted'[q] = wanted[q]
  BY <1>0, <1>9, <1>11, <1>14
<1>17. CartTypeOK' /\ \A d \in CartCalls : Fits(ccall'[d])
  BY <1>0, <1>2, <1>7, <1>8, <1>15, <1>16 DEF CartTypeOK
<1>18. ASSUME raced' = FALSE PROVE MergesFit' /\ Balanced'
  <2>1. MergesFit /\ Balanced
    BY <1>2, <1>18 DEF CartInv
  <2>2. \A d \in CartCalls : ccall'[d].pc = ccall[d].pc /\ ccall'[d].snap = ccall[d].snap
                             /\ (Current(d)' <=> Current(d))
    BY <1>1, <1>2, <1>4, <1>8 DEF Current
  <2>3. MergesFit'
    BY <1>15, <2>1, <2>2 DEF MergesFit
  <2>4. \A d \in CartCalls : d # c => ccall[d].pc \notin {"move", "delete"}
    BY <1>1, <1>2, <2>1 DEF MergesFit, MergeSteps
  <2>5. \A q : /\ Copied(q) <=> q \notin r.todo
               /\ Copied(q)' <=> q \notin r.todo \ {p}
    BY <1>1, <1>2, <1>7, <1>8, <2>4 DEF Copied
  <2>6. lines["guest"] = r.snap
    BY <1>1, <1>2, <2>1 DEF MergesFit, CopySteps
  <2>7. lines["user"][p] + lines["guest"][p] = wanted[p]
    BY <1>2, <2>1, <2>5 DEF Balanced
  <2>8. ASSUME NEW q \in Goods
        PROVE  /\ Copied(q)' => lines'["user"][q] = wanted'[q]
               /\ ~Copied(q)' => lines'["user"][q] + lines'["guest"][q] = wanted'[q]
    <3>1. CASE q = p
      <4>1. lines'["user"][p] = wanted'[p]
        BY <1>9, <1>11, <1>13, <1>15, <1>16, <2>6, <2>7
      <4> QED
        BY <2>5, <3>1, <4>1
    <3>2. CASE q # p
      <4>1. lines'["user"][q] = lines["user"][q] /\ lines'["guest"][q] = lines["guest"][q] /\ wanted'[q] = wanted[q]
        BY <1>13, <1>15, <1>16, <3>2
      <4> QED
        BY <2>1, <2>5, <3>2, <4>1 DEF Balanced
    <3> QED
      BY <3>1, <3>2
  <2> QED
    BY <2>3, <2>8 DEF Balanced
<1>19. LinesFitStock'
  <2>1. CASE crowded' = TRUE
    BY <2>1 DEF LinesFitStock
  <2>2. CASE crowded' = FALSE
    <3>1. crowded = FALSE /\ lines["user"][p] = r.have[p]
      BY <1>0, <1>2, <2>2
    <3>2. \A o \in Owners, q \in Goods : lines[o][q] <= Shelf
      BY <1>0, <3>1 DEF LinesFitStock
    <3>3. "user" \in Owners
      BY DEF Owners
    <3>4. lines["user"][p] <= Shelf
      BY <3>2, <3>3
    <3>5. g[p] <= Shelf
      BY <1>9, <1>11, <1>13, <3>1, <3>4, CartAssumption
    <3>6. \A q \in Goods : g[q] <= Shelf /\ lines["guest"][q] <= Shelf
      BY <1>13, <3>2, <3>5 DEF Owners
    <3> QED
      BY <1>15, <3>6 DEF LinesFitStock, Owners
  <2> QED
    BY <1>2, <2>1, <2>2
<1> QED
  BY <1>17, <1>18, <1>19 DEF CartInv

\* The record a merge leaves when only its answer is missing.
LEMMA AnswerNext ==
    ASSUME NEW r \in CartRequests, Fits(r), r.pc \in MergeSteps
    PROVE  /\ [r EXCEPT !.pc = "answer"] \in CartRequests /\ [r EXCEPT !.pc = "answer"].pc = "answer"
           /\ Fits([r EXCEPT !.pc = "answer"])
<1>1. PICK s : s = [r EXCEPT !.pc = "answer"]
  OBVIOUS
<1>2. s = [pc |-> "answer", by |-> r.by, item |-> r.item, qty |-> r.qty, session |-> r.session, gen |-> r.gen,
           limit |-> r.limit, snap |-> r.snap, have |-> r.have, todo |-> r.todo, ask |-> r.ask]
  BY <1>1 DEF CartRequests
<1>3. s \in CartRequests
  BY <1>2, CartFields DEF CartRequests, CartSteps
<1>4. Fits(s) /\ s.pc = "answer"
  BY <1>2 DEF Fits, MergeSteps, CopySteps
<1> QED
  BY <1>1, <1>3, <1>4

\* The guest's cart goes as a merge ends; its lines are in the user's, or discarded.
LEMMA MergeEndsKeep ==
    ASSUME CartInv, NEW c \in CartCalls, MergeDelete(c) \/ MergeDiscard(c) PROVE CartInv'
<1>0. /\ CartTypeOK /\ (\A d \in CartCalls : Fits(ccall[d])) /\ LinesFitStock
      /\ lines \in [Owners -> Counts] /\ wanted \in [Goods -> Int] /\ gen \in Nat
  BY DEF CartInv, CartTypeOK
<1>1. PICK r \in CartRequests : r = ccall[c] /\ Fits(r)
  BY <1>0 DEF CartTypeOK
<1>2. /\ r.pc \in {"delete", "discard"} /\ DeleteCart(c)
      /\ UNCHANGED <<session, onShelf, raced, crowded, edits, cfaults>>
      /\ ccall' = [ccall EXCEPT ![c] = [r EXCEPT !.pc = "answer"]]
  BY <1>1 DEF MergeDelete, MergeDiscard, CartStep
<1>3. r.pc \in MergeSteps
  BY <1>2 DEF MergeSteps
<1>4. PICK s \in CartRequests : s = [r EXCEPT !.pc = "answer"] /\ s.pc = "answer" /\ Fits(s)
  BY <1>1, <1>3, AnswerNext
<1>5. /\ ccall' \in [CartCalls -> CartRequests] /\ ccall'[c] = s
      /\ \A d \in CartCalls : d # c => ccall'[d] = ccall[d]
  BY <1>0, <1>2, <1>4, RecordStep
<1>6. /\ lines' \in [Owners -> Counts] /\ gen' \in Nat /\ lines'["user"] = lines["user"]
      /\ lines'["guest"] = IF Current(c) THEN Nothing ELSE lines["guest"]
  BY <1>0, <1>2, EmptyCarts DEF DeleteCart, Owners
<1>7. \A p \in Goods : lines["guest"][p] \in Nat /\ lines["user"][p] \in Nat /\ wanted[p] \in Int
  BY <1>0 DEF Counts, Owners
<1>8. /\ wanted' \in [Goods -> Int]
      /\ \A p \in Goods : wanted'[p] = IF r.pc = "discard" /\ Current(c) THEN wanted[p] - lines["guest"][p]
                                       ELSE wanted[p]
  <2>1. CASE MergeDelete(c)
    <3>1. r.pc = "delete" /\ UNCHANGED wanted
      BY <1>1, <2>1 DEF MergeDelete
    <3> QED
      BY <1>0, <3>1
  <2>2. CASE MergeDiscard(c)
    <3>1. /\ r.pc = "discard"
          /\ wanted' = IF Current(c) THEN [p \in Goods |-> wanted[p] - lines["guest"][p]] ELSE wanted
      BY <1>1, <2>2 DEF MergeDiscard
    <3> QED
      BY <1>0, <1>7, <3>1
  <2> QED
    BY <2>1, <2>2
<1>9. CartTypeOK' /\ \A d \in CartCalls : Fits(ccall'[d])
  BY <1>0, <1>2, <1>4, <1>5, <1>6, <1>8 DEF CartTypeOK
<1>10. ASSUME raced' = FALSE PROVE MergesFit' /\ Balanced'
  <2>1. MergesFit /\ Balanced
    BY <1>2, <1>10 DEF CartInv
  <2>2. \A d \in CartCalls : d # c => ccall[d].pc \notin MergeSteps
    BY <1>1, <1>3, <2>1 DEF MergesFit
  <2>3. \A d \in CartCalls : ccall'[d].pc \notin MergeSteps
    BY <1>4, <1>5, <2>2 DEF MergeSteps
  <2>4. MergesFit' /\ \A p : ~Copied(p)'
    BY <2>3 DEF MergesFit, Copied, MergeSteps, CopySteps
  <2>5. r.pc = "delete" => Current(c)
    BY <1>1, <2>1 DEF MergesFit, CopySteps
  <2>6. \A p : Copied(p) <=> r.pc = "delete"
    BY <1>1, <1>2, <2>2 DEF Copied, MergeSteps
  <2>7. ASSUME NEW p \in Goods PROVE lines'["user"][p] + lines'["guest"][p] = wanted'[p]
    <3>1. /\ r.pc = "delete" => lines["user"][p] = wanted[p]
          /\ r.pc # "delete" => lines["user"][p] + lines["guest"][p] = wanted[p]
      BY <2>1, <2>6 DEF Balanced
    <3>2. lines'["guest"][p] = IF Current(c) THEN 0 ELSE lines["guest"][p]
      BY <1>6, EmptyCarts
    <3> QED
      BY <1>2, <1>6, <1>7, <1>8, <2>5, <3>1, <3>2
  <2> QED
    BY <2>4, <2>7 DEF Balanced
<1>11. LinesFitStock'
  BY <1>0, <1>2, <1>6, EmptyCarts, CartAssumption DEF LinesFitStock, Owners
<1> QED
  BY <1>9, <1>10, <1>11 DEF CartInv

\* The cookie goes with the answer: if that takes lines out of reach it is a race, so a
\* merge half-way, whose guest cart has lines, never sees it otherwise.
LEMMA MergeAnswerKeeps ==
    ASSUME CartInv, NEW c \in CartCalls, MergeAnswer(c) PROVE CartInv'
<1>0. /\ CartTypeOK /\ (\A d \in CartCalls : Fits(ccall[d])) /\ LinesFitStock
      /\ lines \in [Owners -> Counts] /\ session \in Nat /\ raced \in BOOLEAN
  BY DEF CartInv, CartTypeOK
<1>1. /\ ccall[c].pc = "answer" /\ ccall' = [ccall EXCEPT ![c] = NoCartCall] /\ Ends(c)
      /\ UNCHANGED <<onShelf, wanted, crowded, edits, cfaults>>
  BY DEF MergeAnswer, Ends, CartStep
<1>2. CASE ccall[c].session # session
  <2>1. UNCHANGED <<session, gen, lines, raced>>
    BY <1>2 DEF MergeAnswer
  <2>2. Around
    BY <1>0, <1>1, <2>1 DEF Around, CartTypeOK
  <2> QED
    BY <1>1, <2>1, <2>2, NothingDone
<1>3. CASE ccall[c].session = session
  <2>1. /\ session' = session + 1 /\ gen' = 0 /\ lines' = [lines EXCEPT !["guest"] = Nothing]
        /\ raced' = (raced \/ lines["guest"] # Nothing)
    BY <1>3 DEF MergeAnswer
  <2>2. /\ ccall' \in [CartCalls -> CartRequests] /\ ccall'[c] = NoCartCall
        /\ \A d \in CartCalls : d # c => ccall'[d] = ccall[d]
    BY <1>0, <1>1, RecordStep, EmptyCarts
  <2>3. lines' \in [Owners -> Counts] /\ lines'["guest"] = Nothing /\ lines'["user"] = lines["user"]
    BY <1>0, <2>1, EmptyCarts DEF Owners
  <2>4. session' \in Nat /\ gen' \in Nat /\ raced' \in BOOLEAN
    BY <1>0, <2>1
  <2>5. CartTypeOK' /\ \A d \in CartCalls : Fits(ccall'[d])
    BY <1>0, <1>1, <2>2, <2>3, <2>4, EmptyCarts DEF CartTypeOK
  <2>6. ASSUME raced' = FALSE PROVE MergesFit' /\ Balanced'
    <3>0. raced = FALSE /\ lines["guest"] = Nothing
      BY <1>0, <2>1, <2>6
    <3>1. MergesFit /\ Balanced /\ lines["guest"] = Nothing
      BY <3>0 DEF CartInv
    <3>2. \A d \in CartCalls : ccall[d].pc \notin CopySteps
      BY <1>0, <3>1 DEF MergesFit, Fits
    <3>3. \A d \in CartCalls : ccall'[d].pc \in MergeSteps => ccall[d].pc \in MergeSteps
      BY <2>2, EmptyCarts DEF MergeSteps
    <3>4. \A d \in CartCalls : ccall'[d].pc \notin CopySteps
      BY <2>2, <3>2, EmptyCarts DEF CopySteps
    <3>5. \A p : ~Copied(p)' /\ ~Copied(p)
      BY <3>2, <3>4 DEF Copied, CopySteps
    <3> QED
      BY <1>1, <2>3, <3>1, <3>3, <3>4, <3>5 DEF MergesFit, Balanced
  <2>7. LinesFitStock'
    BY <1>0, <1>1, <2>3, EmptyCarts, CartAssumption DEF LinesFitStock, Owners
  <2> QED
    BY <2>5, <2>6, <2>7 DEF CartInv
<1> QED
  BY <1>2, <1>3

LEMMA CartRestKeeps ==
    ASSUME CartInv,
           \/ \E c \in CartCalls : CartFails(c)
           \/ \E p \in Goods, n \in 0..Shelf : StockMoves(p, n)
           \/ UNCHANGED cartVars
    PROVE  CartInv'
<1>0. /\ CartTypeOK /\ onShelf \in [Goods -> 0..Shelf] /\ edits \in 0..MaxEdits /\ cfaults \in 0..MaxCartFaults
      /\ raced \in BOOLEAN
  BY DEF CartInv, CartTypeOK
<1>1. ASSUME NEW c \in CartCalls, CartFails(c) PROVE CartInv'
  <2>1. /\ cfaults < MaxCartFaults /\ cfaults' = cfaults + 1 /\ Ends(c)
        /\ raced' = (raced \/ ccall[c].pc \in {"move", "delete"})
        /\ UNCHANGED <<lines, session, gen, onShelf, wanted, crowded, edits>>
    BY <1>1 DEF CartFails
  <2>2. cfaults' \in 0..MaxCartFaults
    BY <1>0, <2>1, CartAssumption
  <2>3. Around
    BY <1>0, <2>1, <2>2 DEF Around, CartTypeOK
  <2> QED
    BY <2>1, <2>3, NothingDone
<1>2. ASSUME UNCHANGED <<lines, session, gen, ccall, wanted, raced, crowded>>, CartTypeOK'
      PROVE  CartInv'
  <2>1. \A c \in CartCalls : Current(c)' <=> Current(c)
    BY <1>2 DEF Current
  <2> QED
    BY <1>2, <2>1 DEF CartInv, MergesFit, Balanced, Copied, LinesFitStock
<1>3. ASSUME NEW p \in Goods, NEW n \in 0..Shelf, StockMoves(p, n) PROVE CartInv'
  <2>1. /\ edits < MaxEdits /\ edits' = edits + 1 /\ onShelf' = [onShelf EXCEPT ![p] = n]
        /\ UNCHANGED <<lines, session, gen, ccall, wanted, raced, crowded, cfaults>>
    BY <1>3 DEF StockMoves
  <2>2. edits' \in 0..MaxEdits /\ onShelf' \in [Goods -> 0..Shelf]
    BY <1>0, <2>1, CartAssumption
  <2> QED
    BY <1>0, <1>2, <2>1, <2>2 DEF CartTypeOK
<1>4. CASE UNCHANGED cartVars
  BY <1>0, <1>2, <1>4 DEF cartVars, CartTypeOK
<1> QED
  BY <1>1, <1>3, <1>4

LEMMA CartInvariant == CartSpec => []CartInv
<1>1. CartInit => CartInv
  <2> SUFFICES ASSUME CartInit PROVE CartInv
    OBVIOUS
  <2>1. /\ lines = [o \in Owners |-> Nothing] /\ session = 0 /\ gen = 0 /\ onShelf = [p \in Goods |-> Shelf]
        /\ ccall = [c \in CartCalls |-> NoCartCall] /\ wanted = Nothing /\ raced = FALSE /\ crowded = FALSE
        /\ edits = 0 /\ cfaults = 0
    BY DEF CartInit
  <2>2. lines["user"] = Nothing /\ lines["guest"] = Nothing /\ \A c \in CartCalls : ccall[c].pc = "idle"
    BY <2>1, EmptyCarts DEF Owners
  <2>3. CartTypeOK
    <3>1. edits \in 0..MaxEdits /\ cfaults \in 0..MaxCartFaults /\ onShelf \in [Goods -> 0..Shelf]
      BY <2>1, CartAssumption
    <3>2. lines \in [Owners -> Counts] /\ ccall \in [CartCalls -> CartRequests]
      BY <2>1, EmptyCarts
    <3>3. wanted \in [Goods -> Int]
      BY <2>1, EmptyCarts DEF Counts
    <3> QED
      BY <2>1, <3>1, <3>2, <3>3 DEF CartTypeOK
  <2>4. \A c \in CartCalls : Fits(ccall[c])
    BY <2>1, EmptyCarts
  <2>5. MergesFit /\ Balanced
    BY <2>1, <2>2, EmptyCarts DEF MergesFit, Balanced, Copied, MergeSteps, CopySteps
  <2>6. LinesFitStock
    BY <2>1, EmptyCarts, CartAssumption DEF LinesFitStock
  <2> QED
    BY <2>3, <2>4, <2>5, <2>6 DEF CartInv
<1>2. CartInv /\ [CartNext]_cartVars => CartInv'
  <2> SUFFICES ASSUME CartInv, [CartNext]_cartVars PROVE CartInv'
    OBVIOUS
  <2>1. ASSUME NEW c \in CartCalls, NEW o \in Owners,
               \/ ClearCart(c, o) \/ CheckoutReads(c, o)
               \/ \E p \in Goods : \/ RemoveItem(c, o, p)
                                   \/ \E q \in Quantities : AddItem(c, o, p, q) \/ UpdateItem(c, o, p, q)
        PROVE  CartInv'
    BY <2>1, StartsKeep, Zenon
  <2>2. CASE CartNext
    BY <2>1, <2>2, AddLooks, EditsKeep, EmptyingKeeps, MergeReadsKeep, MergeEndsKeep, MergeAnswerKeeps,
       MergeMoveKeeps, MergeStartKeeps, CartRestKeeps DEF CartNext
  <2>3. CASE UNCHANGED cartVars
    BY <2>3, CartRestKeeps
  <2> QED
    BY <2>2, <2>3
<1> QED
  BY <1>1, <1>2, PTL DEF CartSpec

\* However the customer's edits, merges and checkouts overlap, for any goods and any
\* stock: with no merge half-way the two carts hold what was asked for, and no line
\* outgrows the stock, but for the races named at UnitsAccounted and LinesFitStock
\* (transferItems, AddItem and UpdateItem of cart/service.go, DeleteCartItems).
THEOREM CartsAlwaysAccounted == CartSpec => []CartsAccounted
<1>1. CartInv => CartsAccounted
  <2> SUFFICES ASSUME CartInv PROVE CartsAccounted
    OBVIOUS
  <2>1. UnitsAccounted
    <3> SUFFICES ASSUME ~raced, Merging = {}, NEW p \in Goods
                 PROVE  lines["user"][p] + lines["guest"][p] = wanted[p]
      BY DEF UnitsAccounted
    <3>1. Balanced
      BY DEF CartInv, CartTypeOK
    <3>2. ~Copied(p)
      BY DEF Copied, Merging
    <3> QED
      BY <3>1, <3>2 DEF Balanced
  <2> QED
    BY <2>1 DEF CartInv, CartsAccounted
<1> QED
  BY <1>1, CartInvariant, PTL

-----------------------------------------------------------------------------
(* Categories                                                              *)

Places == Cats \cup {Top, NoCat}
\* S has the parent of each of its categories.
Closed(rows, S) == \A d \in S \cap Cats : rows[d] \in S

\* Going up from c one arrives at the top.
Rooted(rows, c) == \A S \in SUBSET Places : c \in S /\ Closed(rows, S) => Top \in S

NoneOrphaned == \A c \in Cats : Exists(c) => parent[c] = Top \/ (parent[c] \in Cats /\ Exists(parent[c]))

\* The table is a forest unless a category was moved under its own descendant; the cache
\* tells what is in it, save for keys some request has still to drop.
CategoryInv ==
    /\ CategoryTypeOK
    /\ \A r \in CategoryCalls : catCall[r].pc = "delete" => catCall[r].cat \in Cats
    /\ NoneOrphaned
    /\ looped = FALSE => \A c \in Cats : Exists(c) => Rooted(parent, c)
    /\ CacheTellsTheTable

LEMMA AboveClosed ==
    ASSUME NEW rows \in Forest, NEW c \in Places
    PROVE  /\ Above(rows, c) \in SUBSET Places /\ c \in Above(rows, c) /\ Closed(rows, Above(rows, c))
           /\ \A S \in SUBSET Places : c \in S /\ Closed(rows, S) => Above(rows, c) \subseteq S
<1>1. Above(rows, c) = {a \in Places : \A S \in SUBSET Places : c \in S /\ Closed(rows, S) => a \in S}
  BY DEF Above, Places, Closed
<1>2. \A d \in Cats : rows[d] \in Places
  BY DEF Forest, Places
<1>3. Closed(rows, Above(rows, c))
  <2> SUFFICES ASSUME NEW d \in Above(rows, c) \cap Cats PROVE rows[d] \in Above(rows, c)
    BY DEF Closed
  <2>1. ASSUME NEW S \in SUBSET Places, c \in S, Closed(rows, S) PROVE rows[d] \in S
    <3>1. d \in S
      BY <1>1, <2>1
    <3> QED
      BY <2>1, <3>1 DEF Closed
  <2> QED
    BY <1>1, <1>2, <2>1
<1> QED
  BY <1>1, <1>3

\* A category with a way up is in the tree.
LEMMA RootedIsPlaced ==
    ASSUME parent \in Forest, NEW c \in Cats, Exists(c), Rooted(parent, c) PROVE c \in Placed(parent)
<1>1. \E a \in Above(parent, c) : a \in Cats /\ parent[a] = Top
  <2> SUFFICES ASSUME \A a \in Above(parent, c) : a \in Cats => parent[a] # Top PROVE FALSE
    OBVIOUS
  <2>1. PICK A : A = Above(parent, c)
    OBVIOUS
  <2>2. A \in SUBSET Places /\ c \in A /\ Closed(parent, A)
    BY <2>1, AboveClosed DEF Places
  <2>3. PICK S : S = A \ {Top}
    OBVIOUS
  <2>4. S \in SUBSET Places /\ c \in S /\ Closed(parent, S)
    BY <2>1, <2>2, <2>3, CategoryAssumption DEF Closed
  <2> QED
    BY <2>3, <2>4 DEF Rooted
<1> QED
  BY <1>1 DEF Placed, Exists

\* A new category, under the top or under one that has a way up.
LEMMA CreateKeepsRoots ==
    ASSUME parent \in Forest, NoneOrphaned, \A d \in Cats : Exists(d) => Rooted(parent, d),
           NEW c \in Cats, ~Exists(c), NEW up, up = Top \/ (up \in Cats /\ Exists(up)),
           parent' = [parent EXCEPT ![c] = up]
    PROVE  \A d \in Cats : Exists(d)' => Rooted(parent', d)
<1>0. parent'[c] = up /\ \A x \in Cats : x # c => parent'[x] = parent[x]
  BY DEF Forest
<1>1. ASSUME NEW d \in Cats, Exists(d), NEW S \in SUBSET Places, d \in S, Closed(parent', S) PROVE Top \in S
  <2>1. PICK T : T = S \cup {NoCat}
    OBVIOUS
  <2>2. T \in SUBSET Places /\ d \in T
    BY <1>1, <2>1 DEF Places
  <2>3. Closed(parent, T)
    BY <1>0, <1>1, <2>1, CategoryAssumption DEF Closed, Exists
  <2> QED
    BY <1>1, <2>1, <2>2, <2>3, CategoryAssumption DEF Rooted
<1>2. ASSUME NEW S \in SUBSET Places, c \in S, Closed(parent', S) PROVE Top \in S
  <2>1. up \in S
    BY <1>0, <1>2 DEF Closed
  <2> QED
    BY <1>1, <1>2, <2>1
<1>3. ASSUME NEW d \in Cats, Exists(d)' PROVE Rooted(parent', d)
  <2>1. d = c \/ Exists(d)
    BY <1>0, <1>3 DEF Exists
  <2> QED
    BY <1>1, <1>2, <2>1 DEF Rooted
<1> QED
  BY <1>3

\* A category moved, but not under one of its own descendants.
LEMMA MoveKeepsRoots ==
    ASSUME parent \in Forest, \A d \in Cats : Exists(d) => Rooted(parent, d),
           NEW c \in Cats, Exists(c), NEW up, up = Top \/ (up \in Cats /\ Exists(up)),
           c \notin Above(parent, up), parent' = [parent EXCEPT ![c] = up]
    PROVE  \A d \in Cats : Exists(d)' => Rooted(parent', d)
<1>0. parent'[c] = up /\ \A x \in Cats : x # c => parent'[x] = parent[x]
  BY DEF Forest
<1>1. ASSUME NEW S \in SUBSET Places, up \in S, Closed(parent', S) PROVE Top \in S
  <2>1. CASE up = Top
    BY <1>1, <2>1
  <2>2. CASE up \in Cats /\ Exists(up)
    <3>1. PICK A : A = Above(parent, up)
      OBVIOUS
    <3>2. A \in SUBSET Places /\ up \in A /\ Closed(parent, A) /\ c \notin A
      BY <2>2, <3>1, AboveClosed DEF Places
    <3>3. PICK T : T = S \cap A
      OBVIOUS
    <3>4. T \in SUBSET Places /\ up \in T
      BY <1>1, <3>2, <3>3
    <3>5. Closed(parent, T)
      BY <1>0, <1>1, <3>2, <3>3 DEF Closed
    <3>6. Top \in T
      BY <2>2, <3>4, <3>5 DEF Rooted
    <3> QED
      BY <3>3, <3>6
  <2> QED
    BY <2>1, <2>2
<1>2. ASSUME NEW d \in Cats, Exists(d), NEW S \in SUBSET Places, d \in S, Closed(parent', S) PROVE Top \in S
  <2>1. CASE c \in S
    <3>1. up \in S
      BY <1>0, <1>2, <2>1 DEF Closed
    <3> QED
      BY <1>1, <1>2, <3>1
  <2>2. CASE c \notin S
    <3>1. Closed(parent, S)
      BY <1>0, <1>2, <2>2 DEF Closed
    <3> QED
      BY <1>2, <3>1 DEF Rooted
  <2> QED
    BY <2>1, <2>2
<1>3. ASSUME NEW d \in Cats, Exists(d)' PROVE Exists(d)
  BY <1>0, <1>3 DEF Exists
<1> QED
  BY <1>2, <1>3 DEF Rooted

\* A category without children goes.
LEMMA DeleteKeepsRoots ==
    ASSUME parent \in Forest, \A d \in Cats : Exists(d) => Rooted(parent, d),
           NEW c \in Cats, \A d \in Cats : parent[d] # c, parent' = [parent EXCEPT ![c] = NoCat]
    PROVE  \A d \in Cats : Exists(d)' => Rooted(parent', d)
<1>0. parent'[c] = NoCat /\ \A x \in Cats : x # c => parent'[x] = parent[x]
  BY DEF Forest
<1>1. ASSUME NEW d \in Cats, Exists(d)' PROVE d # c /\ Exists(d)
  BY <1>0, <1>1 DEF Exists
<1>2. ASSUME NEW d \in Cats, Exists(d), d # c, NEW S \in SUBSET Places, d \in S, Closed(parent', S) PROVE Top \in S
  <2>1. PICK T : T = S \ {c}
    OBVIOUS
  <2>2. T \in SUBSET Places /\ d \in T
    BY <1>2, <2>1
  <2>3. Closed(parent, T)
    BY <1>0, <1>2, <2>1 DEF Closed
  <2>4. Top \in T
    BY <1>2, <2>2, <2>3 DEF Rooted
  <2> QED
    BY <2>1, <2>4
<1> QED
  BY <1>1, <1>2 DEF Rooted

\* The steps of a request, as far as its record goes.
LEMMA CategoryStepTyped ==
    ASSUME CategoryTypeOK, NEW r \in CategoryCalls, NEW s \in CategoryRequests, CategoryStep(r, s)
    PROVE  /\ catCall' \in [CategoryCalls -> CategoryRequests] /\ catCall'[r] = s
           /\ \A q \in CategoryCalls : q # r => catCall'[q] = catCall[q]
BY DEF CategoryTypeOK, CategoryStep

LEMMA CategoryRecords ==
    /\ CategoryIdle \in CategoryRequests /\ CategoryIdle.pc = "idle" /\ NoEntry \in Entries /\ NoEntry.hit = FALSE
    /\ NoRows \in Forest
    /\ \A pc \in {"dropList", "dropTree"} :
          [CategoryIdle EXCEPT !.pc = pc] \in CategoryRequests /\ [CategoryIdle EXCEPT !.pc = pc].pc = pc
<1>1. NoRows \in Forest
  BY DEF NoRows, Forest
<1>2. \A pc \in {"dropList", "dropTree"} :
         [CategoryIdle EXCEPT !.pc = pc] = [pc |-> pc, key |-> "list", cat |-> NoCat, rows |-> NoRows]
  BY DEF CategoryIdle
<1> QED
  BY <1>1, <1>2 DEF CategoryIdle, CategoryRequests, NoEntry, Entries, Keys

\* An edit of the table: the cached forms are told to be dropped.
LEMMA EditDrops ==
    ASSUME CategoryTypeOK, NEW r \in CategoryCalls,
           CategoryStep(r, [CategoryIdle EXCEPT !.pc = "dropList"])
    PROVE  \A k \in Keys : Dropping(k)' # {}
<1>1. catCall'[r].pc = "dropList"
  BY CategoryRecords DEF CategoryTypeOK, CategoryStep
<1> QED
  BY <1>1 DEF Dropping

\* A step that leaves table and cache alone and drops nothing.
LEMMA CacheStays ==
    ASSUME CacheTellsTheTable, UNCHANGED <<parent, cached, outdated>>,
           \A k \in Keys : Dropping(k) \subseteq Dropping(k)'
    PROVE  CacheTellsTheTable'
BY DEF CacheTellsTheTable

LEMMA ReadersKeep ==
    ASSUME CategoryInv, NEW r \in CategoryCalls, QueryList(r) \/ \E k \in Keys : ReadMisses(r, k)
    PROVE  CategoryInv'
<1>0. /\ CategoryTypeOK /\ parent \in Forest /\ catCall \in [CategoryCalls -> CategoryRequests]
      /\ \A q \in CategoryCalls : catCall[q].pc = "delete" => catCall[q].cat \in Cats
  BY DEF CategoryInv, CategoryTypeOK
<1>1. /\ UNCHANGED <<parent, cached, outdated, looped, catEdits, cacheFaults>>
      /\ catCall[r].pc \in {"query", "idle"}
  BY DEF QueryList, ReadMisses
<1>2. PICK s \in CategoryRequests : s.pc \in {"query", "fill"} /\ CategoryStep(r, s)
  <2>1. CASE QueryList(r)
    <3>1. PICK t \in CategoryRequests : t = catCall[r]
      BY <1>0
    <3>2. PICK s : s = [t EXCEPT !.pc = "fill", !.rows = parent]
      OBVIOUS
    <3>3. s = [pc |-> "fill", key |-> t.key, cat |-> t.cat, rows |-> parent]
      BY <3>2 DEF CategoryRequests
    <3>4. s \in CategoryRequests /\ s.pc = "fill"
      BY <1>0, <3>3 DEF CategoryRequests
    <3> QED
      BY <2>1, <3>1, <3>2, <3>4 DEF QueryList
  <2>2. ASSUME NEW k \in Keys, ReadMisses(r, k)
        PROVE  \E s \in CategoryRequests : s.pc \in {"query", "fill"} /\ CategoryStep(r, s)
    <3>1. PICK s : s = [CategoryIdle EXCEPT !.pc = "query", !.key = k]
      OBVIOUS
    <3>2. s = [pc |-> "query", key |-> k, cat |-> NoCat, rows |-> NoRows]
      BY <3>1 DEF CategoryIdle
    <3>3. s \in CategoryRequests /\ s.pc = "query"
      BY <3>2, CategoryRecords DEF CategoryRequests
    <3> QED
      BY <2>2, <3>1, <3>3 DEF ReadMisses
  <2> QED
    BY <2>1, <2>2
<1>3. /\ catCall' \in [CategoryCalls -> CategoryRequests] /\ catCall'[r] = s
      /\ \A q \in CategoryCalls : q # r => catCall'[q] = catCall[q]
  BY <1>0, <1>2, CategoryStepTyped
<1>4. \A k \in Keys : Dropping(k) \subseteq Dropping(k)'
  BY <1>1, <1>3 DEF Dropping
<1>5. CategoryTypeOK' /\ \A q \in CategoryCalls : catCall'[q].pc = "delete" => catCall'[q].cat \in Cats
  BY <1>0, <1>1, <1>2, <1>3 DEF CategoryTypeOK
<1>6. CacheTellsTheTable'
  BY <1>1, <1>4, CacheStays DEF CategoryInv
<1> QED
  BY <1>1, <1>5, <1>6 DEF CategoryInv, NoneOrphaned, Exists

LEMMA CacheCallsKeep ==
    ASSUME CategoryInv,
           \/ \E r \in CategoryCalls : Fill(r) \/ DropList(r) \/ DropTree(r)
           \/ \E k \in Keys : Expire(k)
    PROVE  CategoryInv'
<1>0. /\ CategoryTypeOK /\ parent \in Forest /\ catCall \in [CategoryCalls -> CategoryRequests]
      /\ cached \in [Keys -> Entries] /\ outdated \subseteq Keys /\ CacheTellsTheTable
      /\ catEdits \in 0..MaxCategoryEdits /\ cacheFaults \in 0..MaxCacheFaults
      /\ \A q \in CategoryCalls : catCall[q].pc = "delete" => catCall[q].cat \in Cats
  BY DEF CategoryInv, CategoryTypeOK
<1>1. UNCHANGED <<parent, looped, catEdits>>
  BY DEF Fill, DropList, DropTree, Drop, Expire
<1>2. ASSUME NEW r \in CategoryCalls, Fill(r) PROVE CategoryInv'
  <2>1. PICK t \in CategoryRequests : t = catCall[r]
    BY <1>0
  <2>2. t.key \in Keys /\ t.rows \in Forest
    BY DEF CategoryRequests
  <2>3. PICK k \in Keys, e \in Entries : k = t.key /\ e = [hit |-> TRUE, rows |-> t.rows] /\ e.rows = t.rows
    <3>1. PICK e : e = [hit |-> TRUE, rows |-> t.rows]
      OBVIOUS
    <3>2. e \in Entries /\ e.rows = t.rows
      BY <2>2, <3>1 DEF Entries
    <3> QED
      BY <2>2, <3>1, <3>2
  <2>4. /\ cached' = [cached EXCEPT ![k] = e] /\ UNCHANGED cacheFaults /\ CategoryStep(r, CategoryIdle)
        /\ outdated' = IF t.rows = parent THEN outdated \ {k} ELSE outdated \cup {k}
        /\ catCall[r].pc = "fill"
    BY <1>2, <2>1, <2>3 DEF Fill, CategoryEnds
  <2>5. /\ catCall' \in [CategoryCalls -> CategoryRequests] /\ catCall'[r] = CategoryIdle
        /\ \A q \in CategoryCalls : q # r => catCall'[q] = catCall[q]
    BY <1>0, <2>4, CategoryStepTyped, CategoryRecords
  <2>6. cached' \in [Keys -> Entries] /\ cached'[k] = e /\ \A j \in Keys : j # k => cached'[j] = cached[j]
    BY <1>0, <2>4
  <2>7. CategoryTypeOK' /\ \A q \in CategoryCalls : catCall'[q].pc = "delete" => catCall'[q].cat \in Cats
    BY <1>0, <1>1, <2>4, <2>5, <2>6, CategoryRecords DEF CategoryTypeOK
  <2>8. \A j \in Keys : Dropping(j)' = Dropping(j)
    BY <2>4, <2>5, CategoryRecords DEF Dropping
  <2>9. CacheTellsTheTable'
    BY <1>0, <1>1, <2>3, <2>4, <2>6, <2>8 DEF CacheTellsTheTable
  <2> QED
    BY <1>1, <2>7, <2>9 DEF CategoryInv, NoneOrphaned, Exists
<1>3. ASSUME NEW r \in CategoryCalls, NEW pc, NEW k \in Keys, NEW s \in CategoryRequests,
             \/ pc = "dropList" /\ k = "list" /\ s.pc = "dropTree"
             \/ pc = "dropTree" /\ k = "tree" /\ s.pc = "idle",
             Drop(r, pc, k, s)
      PROVE  CategoryInv'
  <2>1. catCall[r].pc = pc /\ CategoryStep(r, s)
    BY <1>3 DEF Drop
  <2>2. /\ catCall' \in [CategoryCalls -> CategoryRequests] /\ catCall'[r] = s
        /\ \A q \in CategoryCalls : q # r => catCall'[q] = catCall[q]
    BY <1>0, <2>1, CategoryStepTyped
  <2>3. \A j \in Keys : j # k => Dropping(j) \subseteq Dropping(j)'
    BY <1>3, <2>1, <2>2 DEF Dropping, Keys
  <2>4. /\ cached' \in [Keys -> Entries] /\ outdated' \subseteq Keys /\ cacheFaults' \in 0..MaxCacheFaults
        /\ cached'[k].hit = TRUE => k \in outdated'
        /\ \A j \in Keys : j # k => cached'[j] = cached[j] /\ (j \in outdated' <=> j \in outdated)
    <3>1. CASE cached' = [cached EXCEPT ![k] = NoEntry] /\ outdated' = outdated \ {k} /\ UNCHANGED cacheFaults
      BY <1>0, <3>1, CategoryRecords
    <3>2. CASE /\ cacheFaults < MaxCacheFaults /\ cacheFaults' = cacheFaults + 1
               /\ outdated' = outdated \cup {k} /\ UNCHANGED cached
      BY <1>0, <3>2, CategoryAssumption
    <3> QED
      BY <1>3, <3>1, <3>2 DEF Drop
  <2>5. CategoryTypeOK' /\ \A q \in CategoryCalls : catCall'[q].pc = "delete" => catCall'[q].cat \in Cats
    BY <1>0, <1>1, <1>3, <2>2, <2>4 DEF CategoryTypeOK
  <2>6. CacheTellsTheTable'
    <3> SUFFICES ASSUME NEW j \in Keys, cached'[j].hit, j \notin outdated', Dropping(j)' = {}
                 PROVE  cached'[j].rows = parent'
      BY DEF CacheTellsTheTable
    <3>1. cached'[j].hit = TRUE
      BY <2>4 DEF Entries
    <3>2. j # k
      BY <2>4, <3>1
    <3>3. cached'[j] = cached[j] /\ j \notin outdated /\ Dropping(j) = {}
      BY <2>3, <2>4, <3>2
    <3> QED
      BY <1>0, <1>1, <3>3 DEF CacheTellsTheTable
  <2> QED
    BY <1>1, <2>5, <2>6 DEF CategoryInv, NoneOrphaned, Exists
<1>4. ASSUME NEW r \in CategoryCalls, DropList(r) \/ DropTree(r) PROVE CategoryInv'
  <2>1. PICK s \in CategoryRequests : s = [CategoryIdle EXCEPT !.pc = "dropTree"] /\ s.pc = "dropTree"
    BY CategoryRecords
  <2>2. "list" \in Keys /\ "tree" \in Keys /\ CategoryIdle \in CategoryRequests /\ CategoryIdle.pc = "idle"
    BY CategoryRecords DEF Keys
  <2>3. CASE DropList(r)
    <3>1. Drop(r, "dropList", "list", s)
      BY <2>1, <2>3 DEF DropList
    <3> QED
      BY <1>3, <2>1, <2>2, <3>1
  <2>4. CASE DropTree(r)
    <3>1. Drop(r, "dropTree", "tree", CategoryIdle)
      BY <2>4 DEF DropTree
    <3> QED
      BY <1>3, <2>2, <3>1
  <2> QED
    BY <1>4, <2>3, <2>4
<1>5. ASSUME NEW k \in Keys, Expire(k) PROVE CategoryInv'
  <2>1. /\ cached' = [cached EXCEPT ![k] = NoEntry] /\ outdated' = outdated \ {k}
        /\ UNCHANGED <<parent, catCall, looped, catEdits, cacheFaults>>
    BY <1>5 DEF Expire
  <2>2. /\ cached' \in [Keys -> Entries] /\ cached'[k] = NoEntry
        /\ \A j \in Keys : j # k => cached'[j] = cached[j]
    BY <1>0, <2>1, CategoryRecords
  <2>3. CategoryTypeOK' /\ \A j \in Keys : Dropping(j)' = Dropping(j)
    BY <1>0, <2>1, <2>2 DEF CategoryTypeOK, Dropping
  <2>4. CacheTellsTheTable'
    BY <1>0, <2>1, <2>2, <2>3, CategoryRecords DEF CacheTellsTheTable
  <2> QED
    BY <1>0, <2>1, <2>3, <2>4 DEF CategoryInv, NoneOrphaned, Exists
<1> QED
  BY <1>2, <1>4, <1>5

\* An edit that has changed the table has every form of it dropped next.
LEMMA EditKeeps ==
    ASSUME CategoryInv, NEW r \in CategoryCalls, CategoryStep(r, [CategoryIdle EXCEPT !.pc = "dropList"]),
           parent' \in Forest, looped' \in BOOLEAN, catEdits' \in 0..MaxCategoryEdits,
           UNCHANGED <<cached, outdated, cacheFaults>>, NoneOrphaned',
           looped' = FALSE => \A d \in Cats : Exists(d)' => Rooted(parent', d)
    PROVE  CategoryInv'
<1>1. CategoryTypeOK /\ \A q \in CategoryCalls : catCall[q].pc = "delete" => catCall[q].cat \in Cats
  BY DEF CategoryInv
<1>2. PICK s \in CategoryRequests : s = [CategoryIdle EXCEPT !.pc = "dropList"] /\ s.pc = "dropList"
  BY CategoryRecords
<1>3. /\ catCall' \in [CategoryCalls -> CategoryRequests] /\ catCall'[r] = s
      /\ \A q \in CategoryCalls : q # r => catCall'[q] = catCall[q]
  BY <1>1, <1>2, CategoryStepTyped
<1>4. CategoryTypeOK' /\ \A q \in CategoryCalls : catCall'[q].pc = "delete" => catCall'[q].cat \in Cats
  BY <1>1, <1>2, <1>3 DEF CategoryTypeOK
<1>5. CacheTellsTheTable'
  BY <1>1, EditDrops DEF CacheTellsTheTable
<1>6. \A d \in Cats : Exists(d)' => Rooted(parent', d) <=> Rooted(parent, d)'
  BY DEF Rooted, Closed
<1> QED
  BY <1>4, <1>5, <1>6 DEF CategoryInv

LEMMA CreateKeeps ==
    ASSUME CategoryInv, NEW r \in CategoryCalls, NEW c \in Cats, NEW up \in Cats \cup {Top}, CreateCategory(r, c, up)
    PROVE  CategoryInv'
<1>0. parent \in Forest /\ NoneOrphaned /\ looped \in BOOLEAN /\ catEdits \in 0..MaxCategoryEdits
  BY DEF CategoryInv, CategoryTypeOK
<1>1. /\ ~Exists(c) /\ (up = Top \/ (up \in Cats /\ Exists(up))) /\ parent' = [parent EXCEPT ![c] = up]
      /\ UNCHANGED <<cached, outdated, looped, cacheFaults>>
      /\ CategoryStep(r, [CategoryIdle EXCEPT !.pc = "dropList"])
  BY DEF CreateCategory
<1>2. catEdits' \in 0..MaxCategoryEdits
  BY <1>0, CategoryAssumption DEF CreateCategory, EditBegins
<1>3. parent' \in Forest /\ parent'[c] = up /\ \A x \in Cats : x # c => parent'[x] = parent[x]
  BY <1>0, <1>1 DEF Forest
<1>4. NoneOrphaned'
  BY <1>0, <1>1, <1>3, CategoryAssumption DEF NoneOrphaned, Exists
<1>5. looped' = FALSE => \A d \in Cats : Exists(d)' => Rooted(parent', d)
  BY <1>0, <1>1, CreateKeepsRoots DEF CategoryInv
<1> QED
  BY <1>0, <1>1, <1>2, <1>3, <1>4, <1>5, EditKeeps

LEMMA UpdateKeeps ==
    ASSUME CategoryInv, NEW r \in CategoryCalls, NEW c \in Cats, NEW up \in Cats \cup {Top}, UpdateCategory(r, c, up)
    PROVE  CategoryInv'
<1>0. parent \in Forest /\ NoneOrphaned /\ looped \in BOOLEAN /\ catEdits \in 0..MaxCategoryEdits
  BY DEF CategoryInv, CategoryTypeOK
<1>1. /\ Exists(c) /\ (up = Top \/ (up \in Cats /\ Exists(up))) /\ parent' = [parent EXCEPT ![c] = up]
      /\ UNCHANGED <<cached, outdated, cacheFaults>> /\ looped' = (looped \/ c \in Above(parent, up))
      /\ CategoryStep(r, [CategoryIdle EXCEPT !.pc = "dropList"])
  BY DEF UpdateCategory
<1>2. catEdits' \in 0..MaxCategoryEdits
  BY <1>0, CategoryAssumption DEF UpdateCategory, EditBegins
<1>3. parent' \in Forest /\ parent'[c] = up /\ \A x \in Cats : x # c => parent'[x] = parent[x]
  BY <1>0, <1>1 DEF Forest
<1>4. NoneOrphaned'
  BY <1>0, <1>1, <1>3, CategoryAssumption DEF NoneOrphaned, Exists
<1>5. looped' \in BOOLEAN /\ (looped' = FALSE => looped = FALSE /\ c \notin Above(parent, up))
  BY <1>0, <1>1
<1>6. looped' = FALSE => \A d \in Cats : Exists(d)' => Rooted(parent', d)
  BY <1>0, <1>1, <1>5, MoveKeepsRoots DEF CategoryInv
<1> QED
  BY <1>0, <1>1, <1>2, <1>3, <1>4, <1>5, <1>6, EditKeeps

LEMMA DeletesKeep ==
    ASSUME CategoryInv, NEW r \in CategoryCalls, DeleteRow(r) \/ \E c \in Cats : DeleteCheck(r, c)
    PROVE  CategoryInv'
<1>0. /\ CategoryTypeOK /\ parent \in Forest /\ catCall \in [CategoryCalls -> CategoryRequests]
      /\ NoneOrphaned /\ looped \in BOOLEAN /\ catEdits \in 0..MaxCategoryEdits
      /\ \A q \in CategoryCalls : catCall[q].pc = "delete" => catCall[q].cat \in Cats
  BY DEF CategoryInv, CategoryTypeOK
<1>1. ASSUME NEW s \in CategoryRequests, CategoryStep(r, s), s.pc = "delete" => s.cat \in Cats,
             catCall[r].pc \in {"idle", "delete"}, catEdits' \in 0..MaxCategoryEdits,
             UNCHANGED <<parent, cached, outdated, looped, cacheFaults>>
      PROVE  CategoryInv'
  <2>1. /\ catCall' \in [CategoryCalls -> CategoryRequests] /\ catCall'[r] = s
        /\ \A q \in CategoryCalls : q # r => catCall'[q] = catCall[q]
    BY <1>0, <1>1, CategoryStepTyped
  <2>2. \A k \in Keys : Dropping(k) \subseteq Dropping(k)'
    BY <1>1, <2>1 DEF Dropping
  <2>3. CategoryTypeOK' /\ \A q \in CategoryCalls : catCall'[q].pc = "delete" => catCall'[q].cat \in Cats
    BY <1>0, <1>1, <2>1 DEF CategoryTypeOK
  <2>4. CacheTellsTheTable'
    BY <1>1, <2>2, CacheStays DEF CategoryInv
  <2> QED
    BY <1>1, <2>3, <2>4 DEF CategoryInv, NoneOrphaned, Exists
<1>2. ASSUME NEW c \in Cats, DeleteCheck(r, c) PROVE CategoryInv'
  <2>1. PICK s : s = [CategoryIdle EXCEPT !.pc = "delete", !.cat = c]
    OBVIOUS
  <2>2. s = [pc |-> "delete", key |-> "list", cat |-> c, rows |-> NoRows]
    BY <2>1 DEF CategoryIdle
  <2>3. s \in CategoryRequests /\ s.cat \in Cats
    BY <2>2, CategoryRecords DEF CategoryRequests, Keys
  <2>4. catEdits' \in 0..MaxCategoryEdits
    <3>1. catEdits < MaxCategoryEdits /\ catEdits' = catEdits + 1 /\ catEdits \in 0..MaxCategoryEdits
      BY <1>0, <1>2 DEF DeleteCheck, EditBegins
    <3> QED
      BY <3>1, CategoryAssumption
  <2> QED
    BY <1>1, <1>2, <2>1, <2>3, <2>4 DEF DeleteCheck
<1>3. ASSUME DeleteRow(r) PROVE CategoryInv'
  <2>1. PICK c \in Cats : c = catCall[r].cat
    BY <1>0, <1>3 DEF DeleteRow
  <2>2. UNCHANGED <<cached, outdated, looped, catEdits, cacheFaults>> /\ catCall[r].pc = "delete"
    BY <1>3 DEF DeleteRow
  <2>3. CASE Exists(c) /\ \A d \in Cats : parent[d] # c
    <3>1. parent' = [parent EXCEPT ![c] = NoCat] /\ CategoryStep(r, [CategoryIdle EXCEPT !.pc = "dropList"])
      BY <1>3, <2>1, <2>3 DEF DeleteRow
    <3>2. parent' \in Forest /\ parent'[c] = NoCat /\ \A x \in Cats : x # c => parent'[x] = parent[x]
      BY <1>0, <3>1 DEF Forest
    <3>3. NoneOrphaned'
      BY <1>0, <2>3, <3>2, CategoryAssumption DEF NoneOrphaned, Exists
    <3>4. looped' = FALSE => \A d \in Cats : Exists(d)' => Rooted(parent', d)
      BY <1>0, <2>2, <2>3, <3>1, DeleteKeepsRoots DEF CategoryInv
    <3> QED
      BY <1>0, <2>2, <3>1, <3>2, <3>3, <3>4, EditKeeps
  <2>4. CASE ~(Exists(c) /\ \A d \in Cats : parent[d] # c)
    <3>1. CategoryStep(r, CategoryIdle) /\ UNCHANGED parent
      BY <1>3, <2>1, <2>4 DEF DeleteRow, CategoryEnds
    <3> QED
      BY <1>0, <1>1, <2>2, <3>1, CategoryRecords
  <2> QED
    BY <2>3, <2>4
<1> QED
  BY <1>2, <1>3

LEMMA CategoryInvariant == CategorySpec => []CategoryInv
<1>1. CategoryInit => CategoryInv
  <2> SUFFICES ASSUME CategoryInit PROVE CategoryInv
    OBVIOUS
  <2>1. PICK c \in Cats : parent = [d \in Cats |-> IF d = c THEN Top ELSE NoCat]
    BY DEF CategoryInit
  <2>2. parent \in Forest /\ \A d \in Cats : parent[d] = IF d = c THEN Top ELSE NoCat
    BY <2>1 DEF Forest
  <2>3. CategoryTypeOK
    <3>1. /\ cached = [k \in Keys |-> NoEntry] /\ catCall = [r \in CategoryCalls |-> CategoryIdle]
          /\ outdated = {} /\ looped = FALSE /\ catEdits = 0 /\ cacheFaults = 0
      BY DEF CategoryInit
    <3>2. cached \in [Keys -> Entries] /\ catCall \in [CategoryCalls -> CategoryRequests]
      BY <3>1, CategoryRecords
    <3>3. catEdits \in 0..MaxCategoryEdits /\ cacheFaults \in 0..MaxCacheFaults
      BY <3>1, CategoryAssumption
    <3> QED
      BY <2>2, <3>1, <3>2, <3>3 DEF CategoryTypeOK
  <2>4. \A d \in Cats : Exists(d) => Rooted(parent, d)
    <3>1. \A d \in Cats : Exists(d) => parent[d] = Top
      BY <2>2 DEF Exists
    <3> QED
      BY <3>1 DEF Rooted, Closed
  <2>5. NoneOrphaned
    BY <2>2 DEF NoneOrphaned, Exists
  <2>6. CacheTellsTheTable
    BY CategoryRecords DEF CategoryInit, CacheTellsTheTable
  <2>7. \A r \in CategoryCalls : catCall[r].pc = "idle"
    BY CategoryRecords DEF CategoryInit
  <2> QED
    BY <2>3, <2>4, <2>5, <2>6, <2>7 DEF CategoryInv
<1>2. CategoryInv /\ [CategoryNext]_categoryVars => CategoryInv'
  <2> SUFFICES ASSUME CategoryInv, [CategoryNext]_categoryVars PROVE CategoryInv'
    OBVIOUS
  <2>1. CASE UNCHANGED categoryVars
    <3>1. UNCHANGED <<parent, cached, catCall, outdated, looped, catEdits, cacheFaults>>
      BY <2>1 DEF categoryVars
    <3>2. \A k \in Keys : Dropping(k) \subseteq Dropping(k)'
      BY <3>1 DEF Dropping
    <3>3. CacheTellsTheTable'
      BY <3>1, <3>2, CacheStays DEF CategoryInv
    <3> QED
      BY <3>1, <3>3 DEF CategoryInv, CategoryTypeOK, NoneOrphaned, Exists
  <2>2. CASE CategoryNext
    BY <2>2, ReadersKeep, CacheCallsKeep, CreateKeeps, UpdateKeeps, DeletesKeep DEF CategoryNext
  <2> QED
    BY <2>1, <2>2
<1> QED
  BY <1>1, <1>2, PTL DEF CategorySpec

\* However requests that read and requests that edit overlap: an entry of the cache tells
\* what the table holds once the edits are answered, unless it was filled with rows read
\* before an edit or a drop failed (List, ListTree and invalidate of category/service.go).
THEOREM CacheAlwaysTells == CategorySpec => []CacheTellsTheTable
<1>1. CategoryInv => CacheTellsTheTable
  BY DEF CategoryInv
<1> QED
  BY <1>1, CategoryInvariant, PTL

\* For any number of categories and any depth: every category is in the tree that
\* buildTree makes until one is moved under its own descendant, and none has a parent
\* that is gone (Create, Update, Delete of category/service.go).
THEOREM TreeAlwaysWhole == CategorySpec => []TreeShowsAll
<1>1. CategoryInv => TreeShowsAll
  <2> SUFFICES ASSUME CategoryInv PROVE TreeShowsAll
    OBVIOUS
  <2>1. \A c \in Cats : Exists(c) => parent[c] = Top \/ Exists(parent[c])
    BY DEF CategoryInv, NoneOrphaned
  <2>2. \A c \in Placed(parent) : c \in Cats /\ Exists(c)
    BY DEF Placed, Exists
  <2>3. looped \/ Placed(parent) = {c \in Cats : Exists(c)}
    <3>1. looped = TRUE \/ looped = FALSE
      BY DEF CategoryInv, CategoryTypeOK
    <3>2. looped = FALSE => \A c \in Cats : Exists(c) => c \in Placed(parent)
      BY RootedIsPlaced DEF CategoryInv, CategoryTypeOK
    <3> QED
      BY <2>2, <3>1, <3>2
  <2> QED
    BY <2>1, <2>3 DEF TreeShowsAll
<1> QED
  BY <1>1, CategoryInvariant, PTL

-----------------------------------------------------------------------------
(* Reviews: what the trigger leaves on a product                           *)

ReviewInv == ReviewTypeOK /\ RatingFollowsReviews

\* The aggregate of a product is made of its reviews alone, and they are finitely many.
LEMMA AggregateOfProduct ==
    ASSUME NEW r, NEW s, NEW p, \A u \in Authors : r[u][p] = s[u][p]
    PROVE  Aggregate(r, p) = Aggregate(s, p)
<1>1. Counted(r, p) = Counted(s, p) /\ Counted(r, p) \subseteq Authors
  BY DEF Counted
<1>2. {given \in Counted(r, p) \X (1..5) : given[2] <= r[given[1]][p].stars} =
      {given \in Counted(r, p) \X (1..5) : given[2] <= s[given[1]][p].stars}
  <2>1. \A given \in Counted(r, p) \X (1..5) : given[1] \in Authors
    BY <1>1
  <2> QED
    BY <2>1
<1> QED
  BY <1>1, <1>2 DEF Aggregate

LEMMA AggregateType ==
    ASSUME NEW r, NEW p
    PROVE  /\ Aggregate(r, p) \in Aggregates
           /\ Aggregate(r, p).count = Cardinality(Counted(r, p))
<1>1. IsFiniteSet(Counted(r, p))
  BY ReviewAssumption, FS_Subset DEF Counted
<1>2. IsFiniteSet(Counted(r, p) \X (1..5))
  <2>1. \A n \in Int : IsFiniteSet(1..n)
    BY FS_Interval
  <2>2. IsFiniteSet(1..5)
    BY <2>1, 5 \in Int
  <2>3. \A S, T : IsFiniteSet(S) /\ IsFiniteSet(T) => IsFiniteSet(S \X T)
    BY FS_Product
  <2> QED
    BY <1>1, <2>2, <2>3
<1>3. IsFiniteSet({given \in Counted(r, p) \X (1..5) : given[2] <= r[given[1]][p].stars})
  BY <1>2, FS_Subset
<1> QED
  BY <1>1, <1>3, FS_CardinalityType DEF Aggregate, Aggregates

\* A request that goes on to q, or a vote or an order, leaves reviews and ratings alone.
LEMMA RatingsUntouched ==
    ASSUME ReviewInv, NEW c \in ReviewCalls, NEW q \in ReviewRequests \cup {NoReviewCall},
           ReviewStep(c, q), UNCHANGED <<review, votes, rating, bought, behind>>,
           reviewEdits' \in 0..MaxReviewEdits, reviewFaults' \in 0..MaxReviewFaults
    PROVE  ReviewInv'
<1>1. ReviewTypeOK'
  BY DEF ReviewInv, ReviewTypeOK, ReviewStep
<1>2. \A p : Aggregate(review, p)' = Aggregate(review, p)
  BY DEF Aggregate, Counted
<1> QED
  BY <1>1, <1>2 DEF ReviewInv, RatingFollowsReviews

LEMMA ReviewSteps ==
    ASSUME ReviewInv, [ReviewNext]_reviewVars
    PROVE  ReviewInv'
<1>0. /\ ReviewTypeOK /\ RatingFollowsReviews
      /\ review \in [Authors -> [Reviewed -> ReviewRows]] /\ reviewing \in [ReviewCalls -> ReviewRequests \cup {NoReviewCall}]
  BY DEF ReviewInv, ReviewTypeOK
<1>b. ReviewBegins => reviewEdits' \in 0..MaxReviewEdits /\ reviewFaults' \in 0..MaxReviewFaults
  BY <1>0, ReviewAssumption DEF ReviewBegins, ReviewTypeOK
<1>g. ReviewGoes => reviewEdits' \in 0..MaxReviewEdits /\ reviewFaults' \in 0..MaxReviewFaults
  BY <1>0 DEF ReviewGoes, ReviewTypeOK
<1>w. ASSUME NEW c \in ReviewCalls, NEW u \in Authors, NEW p \in Reviewed, NEW row \in ReviewRows,
             WriteReview(c, u, p, row), UNCHANGED <<review, votes, rating, bought, behind>>,
             ReviewBegins \/ ReviewGoes
      PROVE  ReviewInv'
  <2>1. PICK q : q = [pc |-> "refresh", user |-> u, product |-> p, row |-> row,
                      seen |-> Aggregate([review EXCEPT ![u][p] = row], p)]
    OBVIOUS
  <2>2. q \in ReviewRequests
    BY <2>1, AggregateType DEF ReviewRequests
  <2>3. ReviewStep(c, q)
    BY <1>w, <2>1 DEF WriteReview
  <2> QED
    BY <1>b, <1>g, <1>w, <2>2, <2>3, RatingsUntouched
<1>e. ASSUME NEW c \in ReviewCalls, ReviewEnds(c), UNCHANGED <<review, votes, rating, bought, behind>>,
             reviewEdits' \in 0..MaxReviewEdits, reviewFaults' \in 0..MaxReviewFaults
      PROVE  ReviewInv'
  BY <1>e, RatingsUntouched DEF ReviewEnds
<1>1. ASSUME NEW c \in ReviewCalls, InsertReview(c)
      PROVE  ReviewInv'
  <2>1. PICK r : r = reviewing[c] /\ r.pc = "insert"
    BY <1>1 DEF InsertReview
  <2>2. r.user \in Authors /\ r.product \in Reviewed /\ r.stars \in Stars
    BY <1>0, <2>1 DEF ReviewRequests, NoReviewCall
  <2>3. PICK row : row = [status |-> StatusApproved, stars |-> r.stars]
    OBVIOUS
  <2>4. row \in ReviewRows
    BY <2>2, <2>3 DEF ReviewRows, ReviewStatuses
  <2>5. WriteReview(c, r.user, r.product, row) \/ ReviewEnds(c)
    BY <1>1, <2>1, <2>3 DEF InsertReview
  <2>6. UNCHANGED <<review, votes, rating, bought, behind>> /\ ReviewGoes
    BY <1>1 DEF InsertReview
  <2> QED
    BY <1>e, <1>g, <1>w, <2>2, <2>4, <2>5, <2>6
<1>2. ASSUME NEW c \in ReviewCalls, Refresh(c)
      PROVE  ReviewInv'
  <2>1. PICK r : r = reviewing[c] /\ r.pc = "refresh"
    BY <1>2 DEF Refresh
  <2>2. r.user \in Authors /\ r.product \in Reviewed /\ r.row \in ReviewRows /\ r.seen \in Aggregates
    BY <1>0, <2>1 DEF ReviewRequests, NoReviewCall
  <2>3. PICK rows : rows = [review EXCEPT ![r.user][r.product] = r.row]
    OBVIOUS
  <2>4. /\ review' = rows
        /\ rating' = [rating EXCEPT ![r.product] = r.seen]
        /\ behind' = IF r.seen = Aggregate(rows, r.product) THEN behind \ {r.product}
                     ELSE behind \cup {r.product}
        /\ votes' = IF r.row = NoReview
                    THEN {v \in votes : v[1] # r.user \/ v[2] # r.product} ELSE votes
        /\ ReviewEnds(c) /\ bought' = bought /\ ReviewGoes
    BY <1>2, <2>1, <2>3 DEF Refresh
  <2>5. review' \in [Authors -> [Reviewed -> ReviewRows]]
    BY <1>0, <2>2, <2>3, <2>4
  <2>6. votes' \subseteq votes
    BY <2>4
  <2>7. reviewing' \in [ReviewCalls -> ReviewRequests \cup {NoReviewCall}]
    BY <1>0, <2>4 DEF ReviewEnds, ReviewStep
  <2>8. rating' \in [Reviewed -> Aggregates] /\ behind' \subseteq Reviewed
    BY <1>0, <2>2, <2>4 DEF ReviewTypeOK
  <2>9. ReviewTypeOK'
    BY <1>0, <1>g, <2>4, <2>5, <2>6, <2>7, <2>8 DEF ReviewTypeOK
  <2>10. ASSUME NEW p \in Reviewed, p \notin behind'
         PROVE  rating'[p] = Aggregate(review, p)'
    <3>1. CASE p = r.product
      <4>1. r.seen = Aggregate(rows, p)
        BY <2>4, <2>10, <3>1
      <4>2. Aggregate(review, p)' = Aggregate(rows, p)
        BY <2>4 DEF Aggregate, Counted
      <4>3. rating'[p] = r.seen
        BY <1>0, <2>4, <3>1 DEF ReviewTypeOK
      <4> QED
        BY <4>1, <4>2, <4>3
    <3>2. CASE p # r.product
      <4>1. p \notin behind /\ rating'[p] = rating[p]
        BY <1>0, <2>4, <2>10, <3>2 DEF ReviewTypeOK
      <4>2. \A u \in Authors : rows[u][p] = review[u][p]
        BY <1>0, <2>2, <2>3, <3>2
      <4>3. Aggregate(rows, p) = Aggregate(review, p)
        BY <4>2, AggregateOfProduct
      <4>4. Aggregate(review, p)' = Aggregate(rows, p)
        BY <2>4 DEF Aggregate, Counted
      <4> QED
        BY <1>0, <4>1, <4>3, <4>4 DEF RatingFollowsReviews
    <3> QED
      BY <3>1, <3>2
  <2>11. \A p : (Aggregate(review, p).count)' = Cardinality({u \in Authors : review'[u][p].status = StatusApproved})
    BY AggregateType DEF Counted, Aggregate
  <2> QED
    BY <2>9, <2>10, <2>11 DEF ReviewInv, RatingFollowsReviews
<1>3. ASSUME NEW c \in ReviewCalls, ReviewFails(c)
      PROVE  ReviewInv'
  <2>1. reviewEdits' \in 0..MaxReviewEdits /\ reviewFaults' \in 0..MaxReviewFaults
    BY <1>0, <1>3, ReviewAssumption DEF ReviewFails, ReviewTypeOK
  <2> QED
    BY <1>3, <1>e, <2>1 DEF ReviewFails
<1>4. ASSUME NEW c \in ReviewCalls, NEW u \in Authors, NEW p \in Reviewed, NEW n \in Stars, CreateReview(c, u, p, n)
      PROVE  ReviewInv'
  <2>1. PICK q : q = [pc |-> "insert", user |-> u, product |-> p, stars |-> n]
    OBVIOUS
  <2>2. q \in ReviewRequests
    BY <2>1 DEF ReviewRequests
  <2> QED
    BY <1>4, <1>b, <2>1, <2>2, RatingsUntouched DEF CreateReview
<1>5. ASSUME NEW c \in ReviewCalls, NEW u \in Authors, NEW p \in Reviewed, NEW s \in ReviewStatuses, SetStatus(c, u, p, s)
      PROVE  ReviewInv'
  <2>1. [review[u][p] EXCEPT !.status = s] \in ReviewRows
    BY <1>0, <1>5 DEF SetStatus, ReviewRows
  <2> QED
    BY <1>5, <1>w, <2>1 DEF SetStatus
<1>6. ASSUME NEW c \in ReviewCalls, NEW u \in Authors, NEW p \in Reviewed, DeleteReview(c, u, p)
      PROVE  ReviewInv'
  <2>1. NoReview \in ReviewRows
    BY DEF ReviewRows
  <2> QED
    BY <1>6, <1>w, <2>1 DEF DeleteReview
<1>7. ASSUME UNCHANGED <<review, rating, reviewing, behind>>, votes' \subseteq Authors \X Reviewed \X Authors,
             bought' \subseteq Authors \X Reviewed, ReviewBegins
      PROVE  ReviewInv'
  <2>1. ReviewTypeOK'
    BY <1>0, <1>7, <1>b DEF ReviewTypeOK
  <2>2. \A p : Aggregate(review, p)' = Aggregate(review, p)
    BY <1>7 DEF Aggregate, Counted
  <2> QED
    BY <1>0, <1>7, <2>1, <2>2 DEF ReviewInv, RatingFollowsReviews
<1>8. ASSUME NEW u \in Authors, NEW p \in Reviewed, NEW v \in Authors, AddVote(u, p, v) \/ RemoveVote(u, p, v)
      PROVE  ReviewInv'
  BY <1>0, <1>7, <1>8 DEF AddVote, RemoveVote, ReviewTypeOK
<1>9. ASSUME NEW u \in Authors, NEW p \in Reviewed, OrderSettled(u, p)
      PROVE  ReviewInv'
  BY <1>0, <1>7, <1>9 DEF OrderSettled, ReviewTypeOK
<1>10. ASSUME UNCHANGED reviewVars PROVE ReviewInv'
  BY <1>0, <1>10 DEF reviewVars, ReviewInv, ReviewTypeOK, RatingFollowsReviews, Aggregate, Counted
<1> QED
  BY <1>1, <1>2, <1>3, <1>4, <1>5, <1>6, <1>8, <1>9, <1>10 DEF ReviewNext

LEMMA ReviewInvariant == ReviewSpec => []ReviewInv
<1>1. ReviewInit => ReviewInv
  <2> SUFFICES ASSUME ReviewInit PROVE ReviewInv
    OBVIOUS
  <2>1. NoReview \in ReviewRows /\ NoReview.status # StatusApproved /\ NoReviewCall \in {NoReviewCall}
    BY DEF ReviewRows, NoReview, StatusApproved
  <2>2. [count |-> 0, sum |-> 0] \in Aggregates
    BY DEF Aggregates
  <2>3. reviewEdits \in 0..MaxReviewEdits /\ reviewFaults \in 0..MaxReviewFaults
    BY ReviewAssumption DEF ReviewInit
  <2>4. ReviewTypeOK
    BY <2>1, <2>2, <2>3 DEF ReviewInit, ReviewTypeOK
  <2>5. ASSUME NEW p \in Reviewed PROVE Counted(review, p) = {} /\ Aggregate(review, p) = rating[p]
    <3>1. Counted(review, p) = {}
      BY <2>1 DEF ReviewInit, Counted
    <3>2. {given \in Counted(review, p) \X (1..5) : given[2] <= review[given[1]][p].stars} = {}
      BY <3>1
    <3>3. Cardinality({}) = 0
      BY FS_EmptySet
    <3>4. Aggregate(review, p) = [count |-> 0, sum |-> 0]
      BY <3>1, <3>2, <3>3 DEF Aggregate
    <3> QED
      BY <3>1, <3>4 DEF ReviewInit
  <2>6. \A p : Aggregate(review, p).count = Cardinality({u \in Authors : review[u][p].status = StatusApproved})
    BY AggregateType DEF Counted
  <2> QED
    BY <2>4, <2>5, <2>6 DEF ReviewInv, RatingFollowsReviews
<1> QED
  BY <1>1, ReviewSteps, PTL DEF ReviewSpec

\* A product's rating is made of the approved reviews a shopper can see, but for the
\* overlap the specification records, for any number of writers and moderators.
\* (products_rating_refresh of migrations/000034.)
THEOREM RatingsFollow == ReviewSpec => []RatingFollowsReviews
<1>1. ReviewInv => RatingFollowsReviews
  BY DEF ReviewInv
<1> QED
  BY <1>1, ReviewInvariant, PTL

-----------------------------------------------------------------------------
(* Seeding: what a run leaves behind at each of its statements             *)

AfterOrders == {"carts", "cart_items", "reviews", "check", "load", "commit"}
AfterCarts == {"reviews", "check", "load", "commit"}
AfterReviews == {"check", "load", "commit"}

\* The loop's index is within the loop.
RowFits(s) ==
    /\ seeder[s].pc = "users" => seeder[s].row \in 1..People
    /\ seeder[s].pc \in {"orders", "order_items"} => seeder[s].row \in 1..SeedOrders
    /\ seeder[s].pc \in {"carts", "cart_items"} => seeder[s].row \in 1..SeedCarts

\* Run s has gone through the rows before its own, and through the loops before its own.
PeopleDone(s) ==
    \A i \in 1..People : (seeder[s].pc = "users" => i < seeder[s].row) => i \in people
OrdersDone(s) ==
    \A i \in 1..SeedOrders :
        \/ seeder[s].pc \in AfterOrders
        \/ seeder[s].pc = "orders" /\ i < seeder[s].row
        \/ seeder[s].pc = "order_items" /\ i <= seeder[s].row
        => <<"order", i>> \in holder
CartsDone(s) ==
    \A i \in 1..SeedCarts :
        seeder[s].pc \in AfterCarts \/ (seeder[s].pc \in {"carts", "cart_items"} /\ i < seeder[s].row)
        => <<"cart", i>> \in holder /\ Drawn[seeder[s].stream][<<"cart", i>>] \subseteq holds[<<"cart", i>>]
ReviewsDone(s) ==
    seeder[s].pc \in AfterReviews => DrawnReviews[seeder[s].stream] \subseteq opinions

\* What is still to be inserted is what the row lacks.
LinesLeft(s) ==
    /\ seeder[s].pc = "order_items" =>
          holds[OrderOfRun(s)] \cup seeder[s].left = Drawn[seeder[s].stream][OrderOfRun(s)]
    /\ seeder[s].pc = "cart_items" =>
          /\ CartOfRun(s) \in holder
          /\ seeder[s].left \subseteq Drawn[seeder[s].stream][CartOfRun(s)]
          /\ Drawn[seeder[s].stream][CartOfRun(s)] \subseteq holds[CartOfRun(s)] \cup seeder[s].left

Progress(s) ==
    /\ RowFits(s) /\ PeopleDone(s) /\ OrdersDone(s) /\ CartsDone(s) /\ ReviewsDone(s) /\ LinesLeft(s)

Fills(s, o) == seeder[s].pc = "order_items" /\ OrderOfRun(s) = o

\* An order is without lines until its row is there, and then one run fills it, unless
\* it is whole or that run was torn from it.
OrderFilled(o) ==
    /\ o \notin holder => holds[o] = {}
    /\ o \in holder => \/ \E d \in Streams : holds[o] = Drawn[d][o]
                       \/ o \in torn
                       \/ \E s \in Seeders : Fills(s, o)
    /\ \A s, t \in Seeders : Fills(s, o) /\ Fills(t, o) => s = t

\* What the streams that came to their end have left.
Left ==
    finished # {} =>
        /\ people = 1..People /\ holder = OrderRows \cup CartRows
        /\ \A d \in finished : /\ \A k \in CartRows : Drawn[d][k] \subseteq holds[k]
                               /\ DrawnReviews[d] \subseteq opinions

\* A run by itself finds the sentinel or writes the activity of the lines there are.
Alone(s) ==
    /\ sentinels > 0 => seeder[s].pc \notin {"order_items", "load", "commit"}
    /\ seeder[s].pc = "commit" => \A o \in OrderRows : seeder[s].read[o] = holds[o]

SeedingInv ==
    /\ SeedingTypeOK
    /\ \A s \in Running : Progress(s)
    /\ \A o \in OrderRows : OrderFilled(o)
    /\ Left
    /\ finished # {} <=> sentinels > 0
    /\ together = FALSE => /\ \A s, t \in Running : s = t
                           /\ \A s \in Running : Alone(s)
    /\ FunnelMatchesOrders

LEMMA SeedingFacts ==
    /\ People \in Nat \ {0} /\ SeedOrders \in Nat \ {0} /\ SeedCarts \in Nat \ {0}
    /\ Highest \in Nat \ {0} /\ Highest >= People /\ Highest >= SeedOrders /\ Highest >= SeedCarts
    /\ \A i \in 1..SeedOrders : <<"order", i>> \in OrderRows
    /\ \A i \in 1..SeedCarts : <<"cart", i>> \in CartRows
    /\ \A o \in OrderRows : \E i \in 1..SeedOrders : o = <<"order", i>>
    /\ \A k \in CartRows : \E i \in 1..SeedCarts : k = <<"cart", i>>
    /\ \A i, j : <<"order", i>> # <<"cart", j>>
    /\ \A i, j : <<"order", i>> = <<"order", j>> => i = j
    /\ \A i, j : <<"cart", i>> = <<"cart", j>> => i = j
<1>1. People \in Nat \ {0} /\ SeedOrders \in Nat \ {0} /\ SeedCarts \in Nat \ {0}
  BY SeedingAssumption
<1>2. \E n \in {People, SeedOrders, SeedCarts} : n >= People /\ n >= SeedOrders /\ n >= SeedCarts
  BY <1>1
<1>3. Highest \in {People, SeedOrders, SeedCarts} /\ Highest >= People /\ Highest >= SeedOrders /\ Highest >= SeedCarts
  BY <1>2 DEF Highest
<1>4. Highest \in Nat \ {0}
  BY <1>1, <1>3
<1> QED
  BY <1>1, <1>3, <1>4 DEF OrderRows, CartRows, Rows

\* What is drawn are lines and pairs of users and products.
LEMMA DrawnType ==
    ASSUME NEW d \in Streams
    PROVE  /\ \A k \in OrderRows \cup CartRows : Drawn[d][k] \subseteq SeedLines
           /\ DrawnReviews[d] \subseteq (1..People) \X SeedLines
<1>1. Drawn[d] \in [OrderRows \cup CartRows -> (SUBSET SeedLines) \ {{}}]
  BY SeedingAssumption
<1>2. DrawnReviews[d] \in SUBSET ((1..People) \X SeedLines)
  BY SeedingAssumption
<1> QED
  BY <1>1, <1>2

\* Resting is not a step of a run.
LEMMA RestIs == AtRest \notin SeedRuns /\ AtRest.pc = "idle"
BY DEF AtRest, SeedRuns, SeedSteps

LEMMA NextRowIs ==
    ASSUME NEW r \in SeedRuns, NEW loop \in SeedSteps, NEW n \in 1..Highest, NEW after \in SeedSteps,
           NEW q, q = NextRow(r, loop, n, after), r.row <= n
    PROVE  /\ q \in SeedRuns /\ q.stream = r.stream /\ q.left = r.left /\ q.read = r.read
           /\ r.row < n => q.pc = loop /\ q.row = r.row + 1
           /\ ~(r.row < n) => q.pc = after /\ q.row = 1 /\ r.row = n
<1>1. /\ r = [pc |-> r.pc, stream |-> r.stream, row |-> r.row, left |-> r.left, read |-> r.read]
      /\ r.stream \in Streams /\ r.row \in 1..Highest /\ r.left \subseteq SeedLines
      /\ r.read \in [OrderRows -> SUBSET SeedLines] /\ Highest \in Nat
  BY SeedingFacts DEF SeedRuns
<1>2. CASE r.row < n
  <2>1. q = [r EXCEPT !.pc = loop, !.row = r.row + 1]
    BY <1>2 DEF NextRow
  <2>2. q = [pc |-> loop, stream |-> r.stream, row |-> r.row + 1, left |-> r.left, read |-> r.read]
    BY <1>1, <2>1
  <2>3. r.row + 1 \in 1..Highest
    BY <1>1, <1>2
  <2> QED
    BY <1>1, <1>2, <2>2, <2>3 DEF SeedRuns
<1>3. CASE ~(r.row < n)
  <2>1. q = [r EXCEPT !.pc = after, !.row = 1]
    BY <1>3 DEF NextRow
  <2>2. q = [pc |-> after, stream |-> r.stream, row |-> 1, left |-> r.left, read |-> r.read]
    BY <1>1, <2>1
  <2>3. 1 \in 1..Highest /\ r.row = n
    BY <1>1, <1>3, SeedingFacts
  <2> QED
    BY <1>1, <1>3, <2>2, <2>3 DEF SeedRuns
<1> QED
  BY <1>2, <1>3

\* Rows and lines are only ever added: the runs that do nothing keep what they have.
LEMMA OthersGoOn ==
    ASSUME SeedingTypeOK, NEW t \in Seeders, seeder'[t] = seeder[t], Progress(t),
           people \subseteq people', holder \subseteq holder', opinions \subseteq opinions',
           \A k \in OrderRows \cup CartRows : holds[k] \subseteq holds'[k],
           seeder[t].pc = "order_items" => holds'[OrderOfRun(t)] = holds[OrderOfRun(t)]
    PROVE  Progress(t)'
<1>1. OrderOfRun(t)' = OrderOfRun(t) /\ CartOfRun(t)' = CartOfRun(t)
  BY DEF OrderOfRun, CartOfRun
<1>2. RowFits(t)' /\ PeopleDone(t)' /\ OrdersDone(t)'
  BY DEF Progress, RowFits, PeopleDone, OrdersDone
<1>3. CartsDone(t)'
  BY SeedingFacts DEF Progress, CartsDone
<1>4. ReviewsDone(t)'
  BY DEF Progress, ReviewsDone
<1>5. LinesLeft(t)'
  <2>1. ASSUME seeder[t].pc = "order_items"
        PROVE  (holds[OrderOfRun(t)] \cup seeder[t].left = Drawn[seeder[t].stream][OrderOfRun(t)])'
    BY <1>1, <2>1 DEF Progress, LinesLeft
  <2>2. ASSUME seeder[t].pc = "cart_items"
        PROVE  (/\ CartOfRun(t) \in holder
                /\ seeder[t].left \subseteq Drawn[seeder[t].stream][CartOfRun(t)]
                /\ Drawn[seeder[t].stream][CartOfRun(t)] \subseteq holds[CartOfRun(t)] \cup seeder[t].left)'
    <3>1. seeder[t].row \in 1..SeedCarts
      BY <2>2 DEF Progress, RowFits
    <3>2. CartOfRun(t) \in CartRows
      BY <3>1, SeedingFacts DEF CartOfRun
    <3> QED
      BY <1>1, <2>2, <3>2 DEF Progress, LinesLeft
  <2> QED
    BY <2>1, <2>2 DEF LinesLeft
<1> QED
  BY <1>2, <1>3, <1>4, <1>5 DEF Progress

\* Run s does a step and goes on: what its step has to show.
LEMMA RunGoesOn ==
    ASSUME SeedingInv, NEW s \in Seeders, seeder[s] \in SeedRuns, NEW r \in SeedRuns,
           seeder' = [seeder EXCEPT ![s] = r],
           people \subseteq people', people' \subseteq 1..People,
           holder \subseteq holder', holder' \subseteq OrderRows \cup CartRows,
           opinions \subseteq opinions', opinions' \subseteq (1..People) \X SeedLines,
           holds' \in [OrderRows \cup CartRows -> SUBSET SeedLines],
           \A k \in OrderRows \cup CartRows : holds[k] \subseteq holds'[k],
           UNCHANGED <<journeys, sentinels, seedGhosts, seedRuns, interrupts>>,
           \A t \in Seeders \ {s} : seeder[t].pc = "order_items" => holds'[OrderOfRun(t)] = holds[OrderOfRun(t)],
           Progress(s)',
           \A o \in OrderRows : OrderFilled(o)',
           sentinels > 0 /\ together = FALSE => \A o \in OrderRows : holds'[o] = holds[o],
           together = FALSE => Alone(s)'
    PROVE  SeedingInv'
<1>0. /\ SeedingTypeOK /\ Left /\ (finished # {} <=> sentinels > 0)
      /\ \A t \in Running : Progress(t)
      /\ seeder \in [Seeders -> SeedRuns \cup {AtRest}] /\ FunnelMatchesOrders
  BY DEF SeedingInv, SeedingTypeOK
<1>1. seeder' \in [Seeders -> SeedRuns \cup {AtRest}]
  BY <1>0
<1>2. SeedingTypeOK'
  BY <1>0, <1>1 DEF SeedingTypeOK, seedGhosts
<1>3. ASSUME NEW t \in Running' PROVE Progress(t)' /\ t \in Seeders
  <2>1. t \in Seeders /\ seeder'[t] # AtRest
    BY <1>3 DEF Running
  <2>2. CASE t = s
    BY <2>1, <2>2
  <2>3. CASE t # s
    <3>1. seeder'[t] = seeder[t] /\ t \in Running
      BY <1>0, <2>1, <2>3 DEF Running
    <3> QED
      BY <1>0, <2>1, <2>3, <3>1, OthersGoOn
  <2> QED
    BY <2>2, <2>3
<1>4. Left'
  <2>1. finished' = finished
    BY DEF seedGhosts
  <2>2. finished # {} => people' = 1..People /\ holder' = OrderRows \cup CartRows
    BY <1>0 DEF Left
  <2>3. ASSUME NEW d \in finished
        PROVE  /\ \A k \in CartRows : Drawn[d][k] \subseteq holds'[k]
               /\ DrawnReviews[d] \subseteq opinions'
    <3>1. /\ \A k \in CartRows : Drawn[d][k] \subseteq holds[k]
          /\ DrawnReviews[d] \subseteq opinions
      BY <1>0, <2>3 DEF Left
    <3> QED
      BY <3>1
  <2> QED
    BY <2>1, <2>2, <2>3 DEF Left
<1>5. (finished # {} <=> sentinels > 0)'
  <2>1. finished' = finished /\ sentinels' = sentinels
    BY DEF seedGhosts
  <2> QED
    BY <1>0, <2>1
<1>6. s \in Running /\ Running' = Running
  BY <1>0, RestIs DEF Running
<1>7. ASSUME together' = FALSE
      PROVE  (/\ \A t, u \in Running : t = u
              /\ \A t \in Running : Alone(t))'
  BY <1>6, <1>7 DEF SeedingInv, seedGhosts
<1>8. FunnelMatchesOrders'
  BY <1>0 DEF FunnelMatchesOrders, seedGhosts, SeedingTypeOK
<1> QED
  BY <1>2, <1>3, <1>4, <1>5, <1>7, <1>8 DEF SeedingInv

\* An order that nobody touches stays as it is filled.
LEMMA OrdersStay ==
    ASSUME SeedingInv, NEW s \in Seeders, NEW r, seeder' = [seeder EXCEPT ![s] = r],
           NEW o \in OrderRows, holds'[o] = holds[o], o \in holder' <=> o \in holder, torn' = torn,
           seeder[s].pc # "order_items", r.pc # "order_items"
    PROVE  OrderFilled(o)'
<1>1. \A t \in Seeders : Fills(t, o)' <=> Fills(t, o)
  BY DEF Fills, OrderOfRun, SeedingInv, SeedingTypeOK
<1> QED
  BY <1>1 DEF SeedingInv, OrderFilled

LEMMA UserSeeded ==
    ASSUME SeedingInv, NEW s \in Seeders, seedUsers(s)
    PROVE  SeedingInv'
<1>1. /\ SeedingTypeOK /\ people \subseteq 1..People
      /\ seeder[s] \in SeedRuns /\ seeder[s].pc = "users" /\ Progress(s)
  BY RestIs DEF SeedingInv, SeedingTypeOK, seedUsers, Running
<1>2. PICK r \in SeedRuns : r = seeder[s]
  BY <1>1
<1>3. PICK q : q = NextRow(r, "users", People, "orders")
  OBVIOUS
<1>4. r.row \in 1..People /\ r.pc = "users"
  BY <1>1, <1>2 DEF Progress, RowFits
<1>5. /\ q \in SeedRuns /\ q.stream = r.stream
      /\ r.row < People => q.pc = "users" /\ q.row = r.row + 1
      /\ ~(r.row < People) => q.pc = "orders" /\ q.row = 1 /\ r.row = People
  <2>1. People \in 1..Highest /\ "users" \in SeedSteps /\ "orders" \in SeedSteps /\ r.row <= People
    BY <1>4, SeedingFacts DEF SeedSteps
  <2> QED
    BY <1>3, <2>1, NextRowIs
<1>6. /\ seeder' = [seeder EXCEPT ![s] = q] /\ people' = people \cup {r.row}
      /\ UNCHANGED <<holder, holds, opinions, journeys, sentinels, seedGhosts, seedRuns, interrupts>>
  BY <1>2, <1>3 DEF seedUsers, SeedStep, SeedGoes
<1>7. seeder'[s] = q /\ r.row \in Int /\ People \in Int /\ SeedOrders \in Int
  BY <1>1, <1>4, <1>6, SeedingFacts DEF SeedingTypeOK
<1>8. Progress(s)'
  <2>1. RowFits(s)'
    BY <1>4, <1>5, <1>7, SeedingFacts DEF RowFits
  <2>2. PeopleDone(s)'
    BY <1>1, <1>2, <1>4, <1>5, <1>6, <1>7 DEF PeopleDone, Progress
  <2>3. OrdersDone(s)' /\ CartsDone(s)' /\ ReviewsDone(s)' /\ LinesLeft(s)'
    BY <1>4, <1>5, <1>7 DEF OrdersDone, CartsDone, ReviewsDone, LinesLeft, AfterOrders, AfterCarts, AfterReviews
  <2> QED
    BY <2>1, <2>2, <2>3 DEF Progress
<1>9. \A o \in OrderRows : OrderFilled(o)'
  <2>1. q.pc # "order_items"
    BY <1>4, <1>5
  <2> QED
    BY <1>1, <1>6, <2>1, OrdersStay DEF seedGhosts
<1>10. Alone(s)'
  BY <1>4, <1>5, <1>7 DEF Alone
<1>11. /\ people \subseteq people' /\ people' \subseteq 1..People
       /\ \A t \in Seeders \ {s} : seeder[t].pc = "order_items" => holds'[OrderOfRun(t)] = holds[OrderOfRun(t)]
  BY <1>1, <1>4, <1>6
<1>12. /\ holds \in [OrderRows \cup CartRows -> SUBSET SeedLines] /\ holder \subseteq OrderRows \cup CartRows
       /\ opinions \subseteq (1..People) \X SeedLines
  BY <1>1 DEF SeedingTypeOK
<1> QED
  BY <1>1, <1>5, <1>6, <1>8, <1>9, <1>10, <1>11, <1>12, RunGoesOn

LEMMA OrderSeeded ==
    ASSUME SeedingInv, NEW s \in Seeders, seedOrders(s)
    PROVE  SeedingInv'
<1>1. /\ SeedingTypeOK
      /\ seeder[s] \in SeedRuns /\ seeder[s].pc = "orders" /\ Progress(s) /\ s \in Running
  BY RestIs DEF SeedingInv, SeedingTypeOK, seedOrders, Running
<1>2. PICK r \in SeedRuns : r = seeder[s]
  BY <1>1
<1>3. PICK o : o = <<"order", r.row>>
  OBVIOUS
<1>4. r.row \in 1..SeedOrders /\ r.pc = "orders" /\ o \in OrderRows /\ r.stream \in Streams
  BY <1>1, <1>2, <1>3, SeedingFacts DEF Progress, RowFits, SeedRuns
<1>5. /\ holds \in [OrderRows \cup CartRows -> SUBSET SeedLines] /\ holder \subseteq OrderRows \cup CartRows
      /\ opinions \subseteq (1..People) \X SeedLines /\ people \subseteq 1..People
  BY <1>1 DEF SeedingTypeOK
<1>6. /\ holder' = holder \cup {o}
      /\ UNCHANGED <<people, holds, opinions, journeys, sentinels, seedGhosts, seedRuns, interrupts>>
  BY <1>2, <1>3 DEF seedOrders, OrderOfRun, SeedGoes
<1>7. r.row \in Int /\ SeedOrders \in Int
  BY <1>4, SeedingFacts
<1>8. CASE o \in holder
  <2>1. PICK q : q = NextRow(r, "orders", SeedOrders, "carts")
    OBVIOUS
  <2>2. /\ q \in SeedRuns /\ q.stream = r.stream
        /\ r.row < SeedOrders => q.pc = "orders" /\ q.row = r.row + 1
        /\ ~(r.row < SeedOrders) => q.pc = "carts" /\ q.row = 1 /\ r.row = SeedOrders
    <3>1. SeedOrders \in 1..Highest /\ "orders" \in SeedSteps /\ "carts" \in SeedSteps /\ r.row <= SeedOrders
      BY <1>4, SeedingFacts DEF SeedSteps
    <3> QED
      BY <2>1, <3>1, NextRowIs
  <2>3. seeder' = [seeder EXCEPT ![s] = q]
    BY <1>2, <1>3, <1>8, <2>1 DEF seedOrders, SeedStep, OrderOfRun
  <2>4. seeder'[s] = q
    BY <1>1, <2>3 DEF SeedingTypeOK
  <2>5. Progress(s)'
    <3>1. RowFits(s)'
      BY <1>4, <1>7, <2>2, <2>4, SeedingFacts DEF RowFits
    <3>2. PeopleDone(s)'
      BY <1>1, <1>2, <1>4, <1>6, <2>2, <2>4 DEF PeopleDone, Progress
    <3>3. OrdersDone(s)'
      BY <1>1, <1>2, <1>3, <1>4, <1>6, <1>7, <2>2, <2>4 DEF OrdersDone, Progress, AfterOrders
    <3>4. CartsDone(s)' /\ ReviewsDone(s)' /\ LinesLeft(s)'
      BY <1>4, <2>2, <2>4, SeedingFacts DEF CartsDone, ReviewsDone, LinesLeft, AfterCarts, AfterReviews
    <3> QED
      BY <3>1, <3>2, <3>3, <3>4 DEF Progress
  <2>6. holder' = holder
    BY <1>6, <1>8
  <2>7. ASSUME NEW p \in OrderRows PROVE OrderFilled(p)'
    <3>1. q.pc # "order_items"
      BY <1>4, <2>2
    <3> QED
      BY <1>1, <1>6, <2>3, <2>6, <3>1, OrdersStay DEF seedGhosts
  <2>8. Alone(s)'
    BY <1>4, <2>2, <2>4 DEF Alone
  <2>9. \A t \in Seeders \ {s} : seeder[t].pc = "order_items" => holds'[OrderOfRun(t)] = holds[OrderOfRun(t)]
    BY <1>6
  <2> QED
    BY <1>1, <1>5, <1>6, <2>2, <2>3, <2>5, <2>6, <2>7, <2>8, <2>9, RunGoesOn
<1>9. CASE o \notin holder
  <2>1. PICK q : q = [r EXCEPT !.pc = "order_items", !.left = Drawn[r.stream][o]]
    OBVIOUS
  <2>2. q = [pc |-> "order_items", stream |-> r.stream, row |-> r.row, left |-> Drawn[r.stream][o], read |-> r.read]
    BY <2>1 DEF SeedRuns
  <2>3. Drawn[r.stream][o] \subseteq SeedLines
    BY <1>4, DrawnType
  <2>4. q \in SeedRuns
    BY <2>2, <2>3 DEF SeedRuns, SeedSteps
  <2>5. seeder' = [seeder EXCEPT ![s] = q]
    BY <1>2, <1>3, <1>9, <2>1 DEF seedOrders, SeedStep, OrderOfRun, Draws
  <2>6. seeder'[s] = q
    BY <1>1, <2>5 DEF SeedingTypeOK
  <2>7. holds[o] = {}
    BY <1>4, <1>9 DEF SeedingInv, OrderFilled
  <2>8. Progress(s)'
    <3>1. RowFits(s)' /\ PeopleDone(s)'
      BY <1>1, <1>2, <1>4, <1>6, <2>2, <2>6 DEF RowFits, PeopleDone, Progress
    <3>2. OrdersDone(s)'
      BY <1>1, <1>2, <1>3, <1>4, <1>6, <1>7, <2>2, <2>6 DEF OrdersDone, Progress, AfterOrders
    <3>3. CartsDone(s)' /\ ReviewsDone(s)'
      BY <2>2, <2>6 DEF CartsDone, ReviewsDone, AfterCarts, AfterReviews
    <3>4. LinesLeft(s)'
      BY <1>3, <1>6, <2>2, <2>6, <2>7 DEF LinesLeft, OrderOfRun
    <3> QED
      BY <3>1, <3>2, <3>3, <3>4 DEF Progress
  <2>9. \A t \in Seeders \ {s} : seeder'[t] = seeder[t]
    BY <1>1, <2>5 DEF SeedingTypeOK
  <2>10. ASSUME NEW t \in Seeders \ {s} PROVE ~Fills(t, o)
    <3>1. SUFFICES ASSUME Fills(t, o) PROVE FALSE
      OBVIOUS
    <3>2. t \in Running /\ seeder[t].row \in 1..SeedOrders /\ o = <<"order", seeder[t].row>>
      BY <3>1, RestIs DEF Fills, Running, OrderOfRun, SeedingInv, Progress, RowFits
    <3>3. o \in holder
      BY <3>1, <3>2 DEF SeedingInv, Progress, OrdersDone, Fills
    <3> QED
      BY <1>9, <3>3
  <2>11. ASSUME NEW p \in OrderRows PROVE OrderFilled(p)'
    <3>1. OrderFilled(p)
      BY DEF SeedingInv
    <3>2. \A t \in Seeders \ {s} : Fills(t, p)' <=> Fills(t, p)
      BY <2>9 DEF Fills, OrderOfRun
    <3>3. Fills(s, p)' <=> p = o
      BY <1>3, <2>2, <2>6 DEF Fills, OrderOfRun
    <3>4. ~Fills(s, p)
      BY <1>2, <1>4 DEF Fills
    <3>5. CASE p = o
      BY <1>6, <2>10, <3>2, <3>3, <3>5 DEF OrderFilled
    <3>6. CASE p # o
      <4>1. (p \in holder' <=> p \in holder) /\ holds'[p] = holds[p] /\ torn' = torn
        BY <1>6, <3>6 DEF seedGhosts
      <4> QED
        BY <3>1, <3>2, <3>3, <3>4, <3>6, <4>1 DEF OrderFilled
    <3> QED
      BY <3>5, <3>6
  <2>12. together = FALSE => Alone(s)'
    <3>1. sentinels > 0 => o \in holder
      BY <1>4 DEF SeedingInv, Left
    <3> QED
      BY <1>6, <1>9, <2>2, <2>6, <3>1 DEF Alone
  <2>13. \A t \in Seeders \ {s} : seeder[t].pc = "order_items" => holds'[OrderOfRun(t)] = holds[OrderOfRun(t)]
    BY <1>6
  <2>14. holder \subseteq holder' /\ holder' \subseteq OrderRows \cup CartRows
    BY <1>4, <1>5, <1>6
  <2> QED
    BY <1>1, <1>5, <1>6, <2>4, <2>5, <2>8, <2>11, <2>12, <2>13, <2>14, RunGoesOn
<1> QED
  BY <1>8, <1>9

LEMMA OrderLineSeeded ==
    ASSUME SeedingInv, NEW s \in Seeders, NEW l \in SeedLines, seedOrderItem(s, l)
    PROVE  SeedingInv'
<1>1. /\ SeedingTypeOK
      /\ seeder[s] \in SeedRuns /\ seeder[s].pc = "order_items" /\ Progress(s) /\ s \in Running
  BY RestIs DEF SeedingInv, SeedingTypeOK, seedOrderItem, Running
<1>2. PICK r \in SeedRuns : r = seeder[s]
  BY <1>1
<1>3. PICK o : o = <<"order", r.row>>
  OBVIOUS
<1>4. /\ r.row \in 1..SeedOrders /\ r.pc = "order_items" /\ o \in OrderRows /\ r.stream \in Streams
      /\ r.left \subseteq SeedLines
  BY <1>1, <1>2, <1>3, SeedingFacts DEF Progress, RowFits, SeedRuns
<1>5. /\ holds \in [OrderRows \cup CartRows -> SUBSET SeedLines] /\ holder \subseteq OrderRows \cup CartRows
      /\ opinions \subseteq (1..People) \X SeedLines /\ people \subseteq 1..People
  BY <1>1 DEF SeedingTypeOK
<1>6. r.row \in Int /\ SeedOrders \in Int
  BY <1>4, SeedingFacts
<1>7. PICK w : w = [r EXCEPT !.left = r.left \ {l}]
  OBVIOUS
<1>8. /\ w \in SeedRuns /\ w.pc = "order_items" /\ w.row = r.row /\ w.stream = r.stream
      /\ w.left = r.left \ {l}
  <2>1. w = [pc |-> r.pc, stream |-> r.stream, row |-> r.row, left |-> r.left \ {l}, read |-> r.read]
    BY <1>7 DEF SeedRuns
  <2> QED
    BY <1>4, <2>1 DEF SeedRuns
<1>9. PICK q : q = IF w.left = {} THEN NextRow(w, "orders", SeedOrders, "carts") ELSE w
  OBVIOUS
<1>10. /\ holds' = [holds EXCEPT ![o] = holds[o] \cup {l}] /\ l \in r.left
       /\ UNCHANGED <<people, holder, opinions, journeys, sentinels, seedGhosts, seedRuns, interrupts>>
       /\ seeder' = [seeder EXCEPT ![s] = q]
  <2>1. InsertLine(s, o, l, "orders", SeedOrders, "carts")
    BY <1>2, <1>3 DEF seedOrderItem, OrderOfRun
  <2>2. [seeder[s] EXCEPT !.left = @ \ {l}] = w
    BY <1>2, <1>7
  <2>3. holds' = [holds EXCEPT ![o] = holds[o] \cup {l}] /\ l \in r.left
    BY <1>2, <2>1 DEF InsertLine
  <2>4. UNCHANGED <<people, holder, opinions, journeys, sentinels, seedGhosts, seedRuns, interrupts>>
    BY <2>1 DEF InsertLine, SeedGoes
  <2>5. seeder' = [seeder EXCEPT ![s] = q]
    BY <1>9, <2>1, <2>2 DEF InsertLine, SeedStep
  <2> QED
    BY <2>3, <2>4, <2>5
<1>11. /\ q \in SeedRuns /\ q.stream = r.stream
       /\ w.left # {} => q = w
       /\ w.left = {} /\ r.row < SeedOrders => q.pc = "orders" /\ q.row = r.row + 1
       /\ w.left = {} /\ ~(r.row < SeedOrders) => q.pc = "carts" /\ q.row = 1 /\ r.row = SeedOrders
  <2>1. CASE w.left # {}
    BY <1>8, <1>9, <2>1
  <2>2. CASE w.left = {}
    <3>1. SeedOrders \in 1..Highest /\ "orders" \in SeedSteps /\ "carts" \in SeedSteps /\ w.row <= SeedOrders
      BY <1>4, <1>8, SeedingFacts DEF SeedSteps
    <3>2. q = NextRow(w, "orders", SeedOrders, "carts")
      BY <1>9, <2>2
    <3>3. /\ q \in SeedRuns /\ q.stream = w.stream
          /\ w.row < SeedOrders => q.pc = "orders" /\ q.row = w.row + 1
          /\ ~(w.row < SeedOrders) => q.pc = "carts" /\ q.row = 1 /\ w.row = SeedOrders
      BY <1>8, <3>1, <3>2, NextRowIs
    <3> QED
      BY <1>8, <2>2, <3>3
  <2> QED
    BY <2>1, <2>2
<1>12. seeder'[s] = q /\ \A t \in Seeders \ {s} : seeder'[t] = seeder[t]
  BY <1>1, <1>10 DEF SeedingTypeOK
<1>13. holds[o] \cup r.left = Drawn[r.stream][o]
  BY <1>1, <1>2, <1>3 DEF Progress, LinesLeft, OrderOfRun
<1>14. /\ holds' \in [OrderRows \cup CartRows -> SUBSET SeedLines]
       /\ \A k \in OrderRows \cup CartRows : holds[k] \subseteq holds'[k] /\ (k # o => holds'[k] = holds[k])
       /\ holds'[o] \cup w.left = Drawn[r.stream][o]
  <2>1. holds'[o] = holds[o] \cup {l}
    BY <1>4, <1>5, <1>10
  <2> QED
    BY <1>4, <1>5, <1>8, <1>10, <1>13, <2>1
<1>15. Progress(s)'
  <2>1. RowFits(s)'
    BY <1>4, <1>6, <1>8, <1>11, <1>12, SeedingFacts DEF RowFits
  <2>2. PeopleDone(s)'
    BY <1>1, <1>2, <1>4, <1>8, <1>10, <1>11, <1>12 DEF PeopleDone, Progress
  <2>3. OrdersDone(s)'
    BY <1>1, <1>2, <1>3, <1>4, <1>6, <1>8, <1>10, <1>11, <1>12 DEF OrdersDone, Progress, AfterOrders
  <2>4. CartsDone(s)' /\ ReviewsDone(s)'
    BY <1>8, <1>11, <1>12, SeedingFacts DEF CartsDone, ReviewsDone, AfterCarts, AfterReviews
  <2>5. LinesLeft(s)'
    BY <1>3, <1>8, <1>11, <1>12, <1>14 DEF LinesLeft, OrderOfRun
  <2> QED
    BY <2>1, <2>2, <2>3, <2>4, <2>5 DEF Progress
<1>16. \A t \in Seeders \ {s} : ~Fills(t, o)
  <2>1. Fills(s, o)
    BY <1>2, <1>3, <1>4 DEF Fills, OrderOfRun
  <2> QED
    BY <1>4, <2>1 DEF SeedingInv, OrderFilled
<1>17. ASSUME NEW p \in OrderRows PROVE OrderFilled(p)'
  <2>1. OrderFilled(p)
    BY DEF SeedingInv
  <2>2. \A t \in Seeders \ {s} : Fills(t, p)' <=> Fills(t, p)
    BY <1>12 DEF Fills, OrderOfRun
  <2>3. holder' = holder /\ torn' = torn
    BY <1>10 DEF seedGhosts
  <2>4. CASE p = o
    <3>1. o \in holder
      BY <1>1, <1>2, <1>3, <1>4, <1>6 DEF Progress, OrdersDone
    <3>2. CASE w.left = {}
      <4>1. holds'[o] = Drawn[r.stream][o]
        BY <1>14, <3>2
      <4>2. ~Fills(s, o)'
        BY <1>11, <1>12, <3>2 DEF Fills
      <4> QED
        BY <1>4, <1>16, <2>2, <2>3, <2>4, <3>1, <4>1, <4>2 DEF OrderFilled
    <3>3. CASE w.left # {}
      <4>1. Fills(s, o)'
        BY <1>3, <1>8, <1>11, <1>12, <3>3 DEF Fills, OrderOfRun
      <4> QED
        BY <1>16, <2>2, <2>3, <2>4, <3>1, <4>1 DEF OrderFilled
    <3> QED
      BY <3>2, <3>3
  <2>5. CASE p # o
    <3>1. ~Fills(s, p) /\ ~Fills(s, p)'
      BY <1>2, <1>3, <1>8, <1>11, <1>12, <2>5 DEF Fills, OrderOfRun
    <3>2. holds'[p] = holds[p]
      BY <1>14, <2>5
    <3> QED
      BY <2>1, <2>2, <2>3, <3>1, <3>2 DEF OrderFilled
  <2> QED
    BY <2>4, <2>5
<1>18. together = FALSE => ~(sentinels > 0) /\ Alone(s)'
  <2>1. together = FALSE => ~(sentinels > 0)
    BY <1>1 DEF SeedingInv, Alone
  <2>2. q.pc # "commit"
    BY <1>8, <1>11
  <2> QED
    BY <1>10, <1>12, <2>1, <2>2 DEF Alone
<1>19. ASSUME NEW t \in Seeders \ {s}, seeder[t].pc = "order_items"
       PROVE  holds'[OrderOfRun(t)] = holds[OrderOfRun(t)]
  <2>1. t \in Running
    BY <1>19, RestIs DEF Running
  <2>2. OrderOfRun(t) \in OrderRows
    BY <1>19, <2>1, SeedingFacts DEF SeedingInv, Progress, RowFits, OrderOfRun
  <2>3. OrderOfRun(t) # o
    BY <1>16, <1>19 DEF Fills
  <2> QED
    BY <1>14, <2>2, <2>3
<1> QED
  BY <1>1, <1>5, <1>10, <1>11, <1>14, <1>15, <1>17, <1>18, <1>19, RunGoesOn

LEMMA CartSeeded ==
    ASSUME SeedingInv, NEW s \in Seeders, seedAbandonedCarts(s)
    PROVE  SeedingInv'
<1>1. /\ SeedingTypeOK
      /\ seeder[s] \in SeedRuns /\ seeder[s].pc = "carts" /\ Progress(s) /\ s \in Running
  BY RestIs DEF SeedingInv, SeedingTypeOK, seedAbandonedCarts, Running
<1>2. PICK r \in SeedRuns : r = seeder[s]
  BY <1>1
<1>3. PICK k : k = <<"cart", r.row>>
  OBVIOUS
<1>4. r.row \in 1..SeedCarts /\ r.pc = "carts" /\ k \in CartRows /\ r.stream \in Streams
  BY <1>1, <1>2, <1>3, SeedingFacts DEF Progress, RowFits, SeedRuns
<1>5. /\ holds \in [OrderRows \cup CartRows -> SUBSET SeedLines] /\ holder \subseteq OrderRows \cup CartRows
      /\ opinions \subseteq (1..People) \X SeedLines /\ people \subseteq 1..People
  BY <1>1 DEF SeedingTypeOK
<1>6. PICK q : q = [r EXCEPT !.pc = "cart_items", !.left = Drawn[r.stream][k]]
  OBVIOUS
<1>7. q = [pc |-> "cart_items", stream |-> r.stream, row |-> r.row, left |-> Drawn[r.stream][k], read |-> r.read]
  BY <1>6 DEF SeedRuns
<1>8. q \in SeedRuns
  <2>1. Drawn[r.stream][k] \subseteq SeedLines
    BY <1>4, DrawnType
  <2> QED
    BY <1>7, <2>1 DEF SeedRuns, SeedSteps
<1>9. /\ holder' = holder \cup {k} /\ seeder' = [seeder EXCEPT ![s] = q]
      /\ UNCHANGED <<people, holds, opinions, journeys, sentinels, seedGhosts, seedRuns, interrupts>>
  BY <1>2, <1>3, <1>6 DEF seedAbandonedCarts, SeedStep, CartOfRun, Draws, SeedGoes
<1>10. seeder'[s] = q
  BY <1>1, <1>9 DEF SeedingTypeOK
<1>11. Progress(s)'
  <2>1. RowFits(s)' /\ PeopleDone(s)'
    BY <1>1, <1>2, <1>4, <1>7, <1>9, <1>10 DEF RowFits, PeopleDone, Progress
  <2>2. OrdersDone(s)'
    BY <1>1, <1>2, <1>4, <1>7, <1>9, <1>10 DEF OrdersDone, Progress, AfterOrders
  <2>3. CartsDone(s)'
    <3>1. q.pc = "cart_items" /\ q.stream = r.stream /\ q.row = r.row /\ "cart_items" \notin AfterCarts
      BY <1>7 DEF AfterCarts
    <3>2. \A i \in 1..SeedCarts : i < r.row =>
             <<"cart", i>> \in holder /\ Drawn[r.stream][<<"cart", i>>] \subseteq holds[<<"cart", i>>]
      BY <1>1, <1>2, <1>4 DEF CartsDone, Progress
    <3> QED
      BY <1>9, <1>10, <3>1, <3>2 DEF CartsDone
  <2>4. ReviewsDone(s)'
    BY <1>7, <1>10 DEF ReviewsDone, AfterReviews
  <2>5. LinesLeft(s)'
    BY <1>3, <1>7, <1>9, <1>10 DEF LinesLeft, CartOfRun
  <2> QED
    BY <2>1, <2>2, <2>3, <2>4, <2>5 DEF Progress
<1>12. ASSUME NEW p \in OrderRows PROVE OrderFilled(p)'
  <2>1. p # k
    BY <1>3, SeedingFacts
  <2>2. (p \in holder' <=> p \in holder) /\ holds'[p] = holds[p] /\ torn' = torn
    BY <1>9, <2>1 DEF seedGhosts
  <2>3. q.pc # "order_items"
    BY <1>7
  <2> QED
    BY <1>1, <1>9, <2>2, <2>3, OrdersStay
<1>13. Alone(s)'
  BY <1>7, <1>10 DEF Alone
<1>14. holder \subseteq holder' /\ holder' \subseteq OrderRows \cup CartRows
  BY <1>4, <1>5, <1>9
<1>15. \A t \in Seeders \ {s} : seeder[t].pc = "order_items" => holds'[OrderOfRun(t)] = holds[OrderOfRun(t)]
  BY <1>9
<1> QED
  BY <1>1, <1>5, <1>8, <1>9, <1>11, <1>12, <1>13, <1>14, <1>15, RunGoesOn

LEMMA CartLineSeeded ==
    ASSUME SeedingInv, NEW s \in Seeders, NEW l \in SeedLines, seedCartItem(s, l)
    PROVE  SeedingInv'
<1>1. /\ SeedingTypeOK
      /\ seeder[s] \in SeedRuns /\ seeder[s].pc = "cart_items" /\ Progress(s) /\ s \in Running
  BY RestIs DEF SeedingInv, SeedingTypeOK, seedCartItem, Running
<1>2. PICK r \in SeedRuns : r = seeder[s]
  BY <1>1
<1>3. PICK k : k = <<"cart", r.row>>
  OBVIOUS
<1>4. /\ r.row \in 1..SeedCarts /\ r.pc = "cart_items" /\ k \in CartRows /\ r.stream \in Streams
      /\ r.left \subseteq SeedLines
  BY <1>1, <1>2, <1>3, SeedingFacts DEF Progress, RowFits, SeedRuns
<1>5. /\ holds \in [OrderRows \cup CartRows -> SUBSET SeedLines] /\ holder \subseteq OrderRows \cup CartRows
      /\ opinions \subseteq (1..People) \X SeedLines /\ people \subseteq 1..People
  BY <1>1 DEF SeedingTypeOK
<1>6. r.row \in Int /\ SeedCarts \in Int
  BY <1>4, SeedingFacts
<1>7. PICK w : w = [r EXCEPT !.left = r.left \ {l}]
  OBVIOUS
<1>8. /\ w \in SeedRuns /\ w.pc = "cart_items" /\ w.row = r.row /\ w.stream = r.stream
      /\ w.left = r.left \ {l}
  <2>1. w = [pc |-> r.pc, stream |-> r.stream, row |-> r.row, left |-> r.left \ {l}, read |-> r.read]
    BY <1>7 DEF SeedRuns
  <2> QED
    BY <1>4, <2>1 DEF SeedRuns
<1>9. PICK q : q = IF w.left = {} THEN NextRow(w, "carts", SeedCarts, "reviews") ELSE w
  OBVIOUS
<1>10. /\ holds' = [holds EXCEPT ![k] = holds[k] \cup {l}] /\ l \in r.left
       /\ UNCHANGED <<people, holder, opinions, journeys, sentinels, seedGhosts, seedRuns, interrupts>>
       /\ seeder' = [seeder EXCEPT ![s] = q]
  <2>1. InsertLine(s, k, l, "carts", SeedCarts, "reviews")
    BY <1>2, <1>3 DEF seedCartItem, CartOfRun
  <2>2. [seeder[s] EXCEPT !.left = @ \ {l}] = w
    BY <1>2, <1>7
  <2>3. holds' = [holds EXCEPT ![k] = holds[k] \cup {l}] /\ l \in r.left
    BY <1>2, <2>1 DEF InsertLine
  <2>4. UNCHANGED <<people, holder, opinions, journeys, sentinels, seedGhosts, seedRuns, interrupts>>
    BY <2>1 DEF InsertLine, SeedGoes
  <2>5. seeder' = [seeder EXCEPT ![s] = q]
    BY <1>9, <2>1, <2>2 DEF InsertLine, SeedStep
  <2> QED
    BY <2>3, <2>4, <2>5
<1>11. /\ q \in SeedRuns /\ q.stream = r.stream
       /\ w.left # {} => q = w
       /\ w.left = {} /\ r.row < SeedCarts => q.pc = "carts" /\ q.row = r.row + 1
       /\ w.left = {} /\ ~(r.row < SeedCarts) => q.pc = "reviews" /\ q.row = 1 /\ r.row = SeedCarts
  <2>1. CASE w.left # {}
    BY <1>8, <1>9, <2>1
  <2>2. CASE w.left = {}
    <3>1. SeedCarts \in 1..Highest /\ "carts" \in SeedSteps /\ "reviews" \in SeedSteps /\ w.row <= SeedCarts
      BY <1>4, <1>8, SeedingFacts DEF SeedSteps
    <3>2. q = NextRow(w, "carts", SeedCarts, "reviews")
      BY <1>9, <2>2
    <3>3. /\ q \in SeedRuns /\ q.stream = w.stream
          /\ w.row < SeedCarts => q.pc = "carts" /\ q.row = w.row + 1
          /\ ~(w.row < SeedCarts) => q.pc = "reviews" /\ q.row = 1 /\ w.row = SeedCarts
      BY <1>8, <3>1, <3>2, NextRowIs
    <3> QED
      BY <1>8, <2>2, <3>3
  <2> QED
    BY <2>1, <2>2
<1>12. seeder'[s] = q
  BY <1>1, <1>10 DEF SeedingTypeOK
<1>13. /\ k \in holder
       /\ r.left \subseteq Drawn[r.stream][k]
       /\ Drawn[r.stream][k] \subseteq holds[k] \cup r.left
  BY <1>1, <1>2, <1>3 DEF Progress, LinesLeft, CartOfRun
<1>14. /\ holds' \in [OrderRows \cup CartRows -> SUBSET SeedLines]
       /\ \A m \in OrderRows \cup CartRows : holds[m] \subseteq holds'[m] /\ (m # k => holds'[m] = holds[m])
       /\ w.left \subseteq Drawn[r.stream][k]
       /\ Drawn[r.stream][k] \subseteq holds'[k] \cup w.left
  <2>1. holds'[k] = holds[k] \cup {l}
    BY <1>4, <1>5, <1>10
  <2> QED
    BY <1>4, <1>5, <1>8, <1>10, <1>13, <2>1
<1>15. Progress(s)'
  <2>1. RowFits(s)'
    BY <1>4, <1>6, <1>8, <1>11, <1>12, SeedingFacts DEF RowFits
  <2>2. PeopleDone(s)'
    BY <1>1, <1>2, <1>4, <1>8, <1>10, <1>11, <1>12 DEF PeopleDone, Progress
  <2>3. OrdersDone(s)'
    <3>1. "cart_items" \in AfterOrders
      BY DEF AfterOrders
    <3>2. \A i \in 1..SeedOrders : <<"order", i>> \in holder
      BY <1>1, <3>1 DEF Progress, OrdersDone
    <3> QED
      BY <1>10, <3>2 DEF OrdersDone
  <2>4. CartsDone(s)'
    <3>1. ASSUME NEW i \in 1..SeedCarts, i < r.row
          PROVE  <<"cart", i>> \in holder' /\ Drawn[r.stream][<<"cart", i>>] \subseteq holds'[<<"cart", i>>]
      <4>1. <<"cart", i>> \in holder /\ Drawn[r.stream][<<"cart", i>>] \subseteq holds[<<"cart", i>>]
        BY <1>1, <1>2, <3>1 DEF Progress, CartsDone
      <4>2. <<"cart", i>> \in CartRows
        BY SeedingFacts
      <4> QED
        BY <1>10, <1>14, <4>1, <4>2
    <3>2. w.left = {} => k \in holder' /\ Drawn[r.stream][k] \subseteq holds'[k]
      BY <1>10, <1>13, <1>14
    <3>3. CASE w.left # {}
      <4>1. q.pc = "cart_items" /\ q.row = r.row /\ q.stream = r.stream /\ "cart_items" \notin AfterCarts
        BY <1>8, <1>11, <3>3 DEF AfterCarts
      <4> QED
        BY <1>12, <3>1, <4>1 DEF CartsDone
    <3>4. CASE w.left = {}
      <4>1. \A i \in 1..SeedCarts : \/ q.pc \in AfterCarts
                                    \/ q.pc \in {"carts", "cart_items"} /\ i < q.row
                                    => i < r.row \/ i = r.row
        BY <1>4, <1>6, <1>11, <3>4 DEF AfterCarts
      <4> QED
        BY <1>3, <1>11, <1>12, <3>1, <3>2, <3>4, <4>1 DEF CartsDone
    <3> QED
      BY <3>3, <3>4
  <2>5. ReviewsDone(s)'
    BY <1>8, <1>11, <1>12 DEF ReviewsDone, AfterReviews
  <2>6. LinesLeft(s)'
    <3>1. CASE w.left # {}
      <4>1. q.pc = "cart_items" /\ q.row = r.row /\ q.stream = r.stream /\ q.left = w.left
        BY <1>8, <1>11, <3>1
      <4>2. CartOfRun(s)' = k
        BY <1>3, <1>12, <4>1 DEF CartOfRun
      <4> QED
        BY <1>10, <1>12, <1>13, <1>14, <4>1, <4>2 DEF LinesLeft
    <3>2. CASE w.left = {}
      BY <1>11, <1>12, <3>2 DEF LinesLeft
    <3> QED
      BY <3>1, <3>2
  <2> QED
    BY <2>1, <2>2, <2>3, <2>4, <2>5, <2>6 DEF Progress
<1>16. q.pc \notin {"order_items", "load", "commit"}
  BY <1>8, <1>11
<1>17. \A o \in OrderRows : o # k /\ holds'[o] = holds[o]
  BY <1>3, <1>14, SeedingFacts
<1>18. \A o \in OrderRows : OrderFilled(o)'
  BY <1>1, <1>10, <1>16, <1>17, OrdersStay DEF seedGhosts
<1>19. Alone(s)'
  BY <1>12, <1>16 DEF Alone
<1>20. ASSUME NEW t \in Seeders \ {s}, seeder[t].pc = "order_items"
       PROVE  holds'[OrderOfRun(t)] = holds[OrderOfRun(t)]
  <2>1. t \in Running
    BY <1>20, RestIs DEF Running
  <2>2. OrderOfRun(t) \in OrderRows
    BY <1>20, <2>1, SeedingFacts DEF SeedingInv, Progress, RowFits, OrderOfRun
  <2> QED
    BY <1>17, <2>2
<1> QED
  BY <1>1, <1>5, <1>10, <1>11, <1>14, <1>15, <1>17, <1>18, <1>19, <1>20, RunGoesOn

\* A step from one point of a run to the next that writes no rows.
LEMMA RunMovesOn ==
    ASSUME SeedingInv, NEW s \in Seeders, seeder[s] \in SeedRuns, NEW r \in SeedRuns,
           seeder' = [seeder EXCEPT ![s] = r],
           seeder[s].pc \in AfterCarts, r.pc \in AfterCarts, r.stream = seeder[s].stream,
           UNCHANGED <<people, holder, holds, journeys, sentinels, seedGhosts, seedRuns, interrupts>>,
           opinions \subseteq opinions', opinions' \subseteq (1..People) \X SeedLines,
           r.pc \in AfterReviews => DrawnReviews[r.stream] \subseteq opinions',
           r.pc \in {"load", "commit"} => sentinels = 0 \/ together = TRUE,
           r.pc = "commit" => \A o \in OrderRows : r.read[o] = holds[o]
    PROVE  SeedingInv'
<1>1. /\ SeedingTypeOK /\ seeder'[s] = r
      /\ holds \in [OrderRows \cup CartRows -> SUBSET SeedLines] /\ holder \subseteq OrderRows \cup CartRows
      /\ people \subseteq 1..People
  BY DEF SeedingInv, SeedingTypeOK
<1>2. Progress(s)
  BY RestIs DEF SeedingInv, Running
<1>3. /\ r.pc \notin {"users", "orders", "order_items", "carts", "cart_items"} /\ r.pc \in AfterOrders
      /\ seeder[s].pc \notin {"users", "orders", "order_items", "carts", "cart_items"}
      /\ seeder[s].pc \in AfterOrders
  BY DEF AfterCarts, AfterOrders
<1>4. Progress(s)'
  <2>1. RowFits(s)' /\ LinesLeft(s)'
    BY <1>1, <1>3 DEF RowFits, LinesLeft
  <2>2. PeopleDone(s)' /\ OrdersDone(s)'
    BY <1>1, <1>2, <1>3 DEF PeopleDone, OrdersDone, Progress
  <2>3. CartsDone(s)'
    <3>1. \A i \in 1..SeedCarts : /\ <<"cart", i>> \in holder
                                  /\ Drawn[r.stream][<<"cart", i>>] \subseteq holds[<<"cart", i>>]
      BY <1>2 DEF Progress, CartsDone
    <3> QED
      BY <1>1, <3>1 DEF CartsDone
  <2>4. ReviewsDone(s)'
    BY <1>1 DEF ReviewsDone
  <2> QED
    BY <2>1, <2>2, <2>3, <2>4 DEF Progress
<1>5. \A o \in OrderRows : OrderFilled(o)'
  BY <1>3, OrdersStay DEF seedGhosts
<1>6. together = FALSE => Alone(s)'
  BY <1>1, <1>3 DEF Alone, SeedingTypeOK
<1>7. \A t \in Seeders \ {s} : seeder[t].pc = "order_items" => holds'[OrderOfRun(t)] = holds[OrderOfRun(t)]
  OBVIOUS
<1> QED
  BY <1>1, <1>4, <1>5, <1>6, <1>7, RunGoesOn

LEMMA ReviewSeeded ==
    ASSUME SeedingInv, NEW s \in Seeders, seedReviews(s) \/ LoadJourneys(s) \/ (CheckSentinel(s) /\ ~(sentinels > 0))
    PROVE  SeedingInv'
<1>1. /\ SeedingTypeOK /\ seeder[s] \in SeedRuns /\ Progress(s)
      /\ opinions \subseteq (1..People) \X SeedLines /\ sentinels \in Nat
  BY RestIs DEF SeedingInv, SeedingTypeOK, seedReviews, LoadJourneys, CheckSentinel, Running
<1>2. PICK r \in SeedRuns : r = seeder[s]
  BY <1>1
<1>3. r.stream \in Streams /\ r.row \in 1..Highest /\ r.left \subseteq SeedLines
  BY DEF SeedRuns
<1>4. ASSUME NEW pc \in SeedSteps
      PROVE  \A q : q = [r EXCEPT !.pc = pc] =>
                /\ q \in SeedRuns /\ q.pc = pc /\ q.stream = r.stream /\ q.read = r.read
  BY DEF SeedRuns
<1>5. CASE seedReviews(s)
  <2>1. PICK missing : missing = DrawnReviews[r.stream] \ opinions
    OBVIOUS
  <2>2. /\ r.pc = "reviews"
        /\ UNCHANGED <<people, holder, holds, journeys, sentinels, seedGhosts, seedRuns, interrupts>>
        /\ \/ missing = {} /\ seeder' = [seeder EXCEPT ![s] = [r EXCEPT !.pc = "check"]] /\ opinions' = opinions
           \/ \E x \in missing : opinions' = opinions \cup {x} /\ seeder' = seeder
    BY <1>2, <1>5, <2>1 DEF seedReviews, SeedStep, SeedGoes
  <2>3. CASE missing = {} /\ seeder' = [seeder EXCEPT ![s] = [r EXCEPT !.pc = "check"]] /\ opinions' = opinions
    <3>1. PICK q : q = [r EXCEPT !.pc = "check"]
      OBVIOUS
    <3>2. q \in SeedRuns /\ q.pc = "check" /\ q.stream = r.stream
      BY <1>4, <3>1 DEF SeedSteps
    <3>3. "check" \in AfterCarts /\ "reviews" \in AfterCarts
      BY DEF AfterCarts
    <3>4. DrawnReviews[q.stream] \subseteq opinions'
      BY <2>1, <2>3, <3>2
    <3>5. seeder' = [seeder EXCEPT ![s] = q]
      BY <2>3, <3>1
    <3>6. /\ seeder[s].pc \in AfterCarts /\ q.pc \in AfterCarts /\ q.stream = seeder[s].stream
          /\ opinions \subseteq opinions' /\ opinions' \subseteq (1..People) \X SeedLines
          /\ q.pc \notin {"load", "commit"} /\ q.pc # "commit"
      BY <1>1, <1>2, <2>2, <2>3, <3>2, <3>3
    <3> QED
      BY <1>1, <2>2, <3>2, <3>4, <3>5, <3>6, RunMovesOn
  <2>4. ASSUME NEW x \in missing, opinions' = opinions \cup {x}, seeder' = seeder
        PROVE  SeedingInv'
    <3>1. opinions' \subseteq (1..People) \X SeedLines
      BY <1>1, <1>3, <2>1, <2>4, DrawnType
    <3>2. seeder' = [seeder EXCEPT ![s] = r]
      BY <1>1, <1>2, <2>4 DEF SeedingTypeOK
    <3>3. "reviews" \in AfterCarts /\ "reviews" \notin AfterReviews
      BY DEF AfterCarts, AfterReviews
    <3>4. /\ seeder[s].pc \in AfterCarts /\ r.pc \in AfterCarts /\ r.stream = seeder[s].stream
          /\ opinions \subseteq opinions' /\ r.pc \notin AfterReviews
          /\ r.pc \notin {"load", "commit"} /\ r.pc # "commit"
      BY <1>2, <2>2, <2>4, <3>3
    <3> QED
      BY <1>1, <2>2, <3>1, <3>2, <3>4, RunMovesOn
  <2> QED
    BY <2>2, <2>3, <2>4
<1>6. CASE CheckSentinel(s) /\ ~(sentinels > 0)
  <2>1. PICK q : q = [r EXCEPT !.pc = "load"]
    OBVIOUS
  <2>2. q \in SeedRuns /\ q.pc = "load" /\ q.stream = r.stream
    BY <1>4, <2>1 DEF SeedSteps
  <2>3. /\ r.pc = "check" /\ seeder' = [seeder EXCEPT ![s] = q]
        /\ UNCHANGED <<people, holder, holds, opinions, journeys, sentinels, seedGhosts, seedRuns, interrupts>>
    BY <1>2, <1>6, <2>1 DEF CheckSentinel, SeedStep, history, seedGhosts
  <2>4. "check" \in AfterCarts /\ "load" \in AfterCarts /\ "check" \in AfterReviews
    BY DEF AfterCarts, AfterReviews
  <2>5. DrawnReviews[q.stream] \subseteq opinions'
    BY <1>1, <1>2, <2>2, <2>3, <2>4 DEF Progress, ReviewsDone
  <2>6. sentinels = 0
    BY <1>1, <1>6
  <2> QED
    BY <1>1, <1>2, <2>2, <2>3, <2>4, <2>5, <2>6, RunMovesOn
<1>7. CASE LoadJourneys(s)
  <2>1. PICK read : read = [o \in OrderRows |-> holds[o]]
    OBVIOUS
  <2>2. PICK q : q = [r EXCEPT !.pc = "commit", !.read = read]
    OBVIOUS
  <2>3. q = [pc |-> "commit", stream |-> r.stream, row |-> r.row, left |-> r.left, read |-> read]
    BY <2>2 DEF SeedRuns
  <2>4. read \in [OrderRows -> SUBSET SeedLines]
    BY <1>1, <2>1 DEF SeedingTypeOK
  <2>5. q \in SeedRuns /\ q.pc = "commit" /\ q.stream = r.stream /\ q.read = read
    BY <1>3, <2>3, <2>4 DEF SeedRuns, SeedSteps
  <2>6. /\ r.pc = "load" /\ seeder' = [seeder EXCEPT ![s] = q]
        /\ UNCHANGED <<people, holder, holds, opinions, journeys, sentinels, seedGhosts, seedRuns, interrupts>>
    BY <1>2, <1>7, <2>1, <2>2 DEF LoadJourneys, SeedStep, history, SeedGoes
  <2>7. "commit" \in AfterCarts /\ "load" \in AfterCarts /\ "load" \in AfterReviews
    BY DEF AfterCarts, AfterReviews
  <2>8. DrawnReviews[q.stream] \subseteq opinions'
    BY <1>1, <1>2, <2>5, <2>6, <2>7 DEF Progress, ReviewsDone
  <2>9. together = FALSE => ~(sentinels > 0)
    BY <1>1, <1>2, <2>6, RestIs DEF SeedingInv, Alone, Running
  <2>10. sentinels = 0 \/ together = TRUE
    BY <1>1, <2>9 DEF SeedingTypeOK
  <2>11. \A o \in OrderRows : q.read[o] = holds[o]
    BY <2>1, <2>5
  <2> QED
    BY <1>1, <1>2, <2>5, <2>6, <2>7, <2>8, <2>10, <2>11, RunMovesOn
<1> QED
  BY <1>5, <1>6, <1>7

\* A run that rests again: the others have what they had.
LEMMA OthersStay ==
    ASSUME SeedingInv, NEW s \in Seeders, seeder' = [seeder EXCEPT ![s] = AtRest],
           UNCHANGED <<people, holder, holds, opinions>>
    PROVE  /\ seeder' \in [Seeders -> SeedRuns \cup {AtRest}]
           /\ Running' = Running \ {s}
           /\ \A t \in Running' : Progress(t)'
<1>1. seeder \in [Seeders -> SeedRuns \cup {AtRest}] /\ SeedingTypeOK
  BY DEF SeedingInv, SeedingTypeOK
<1>2. Running' = Running \ {s}
  BY <1>1 DEF Running
<1>3. ASSUME NEW t \in Running' PROVE Progress(t)'
  <2>1. t \in Seeders /\ t # s /\ t \in Running /\ seeder'[t] = seeder[t]
    BY <1>1, <1>2, <1>3 DEF Running
  <2> QED
    BY <1>1, <2>1, OthersGoOn DEF SeedingInv
<1> QED
  BY <1>1, <1>2, <1>3

LEMMA RunEnded ==
    ASSUME SeedingInv, NEW s \in Seeders, seeder[s] \in SeedRuns, RunEnds(s), seeder[s].pc \in {"check", "commit"},
           UNCHANGED <<people, holder, holds, opinions, torn, together, seedRuns, interrupts>>,
           journeys' \in [OrderRows \X SeedLines -> Nat], sentinels' \in Nat, sentinels' > 0, FunnelMatchesOrders'
    PROVE  SeedingInv'
<1>1. /\ SeedingTypeOK /\ seeder' = [seeder EXCEPT ![s] = AtRest] /\ s \in Running /\ Progress(s)
      /\ finished' = finished \cup {seeder[s].stream}
      /\ seeder[s].stream \in Streams /\ Left
  BY RestIs DEF SeedingInv, SeedingTypeOK, RunEnds, SeedStep, Running, SeedRuns
<1>2. SeedingTypeOK'
  BY <1>1, OthersStay DEF SeedingTypeOK
<1>3. \A t \in Running' : Progress(t)'
  BY <1>1, OthersStay
<1>4. ASSUME NEW o \in OrderRows PROVE OrderFilled(o)'
  <2>1. \A t \in Seeders : Fills(t, o)' <=> Fills(t, o)
    BY <1>1, RestIs DEF Fills, OrderOfRun, SeedingTypeOK
  <2> QED
    BY <2>1 DEF SeedingInv, OrderFilled
<1>5. Left'
  <2>1. /\ seeder[s].pc \in AfterOrders /\ seeder[s].pc \in AfterCarts /\ seeder[s].pc \in AfterReviews
        /\ seeder[s].pc # "users"
    BY DEF AfterOrders, AfterCarts, AfterReviews
  <2>2. people = 1..People
    BY <1>1, <2>1 DEF Progress, PeopleDone, SeedingTypeOK
  <2>3. \A i \in 1..SeedOrders : <<"order", i>> \in holder
    BY <1>1, <2>1 DEF Progress, OrdersDone
  <2>4. \A i \in 1..SeedCarts : /\ <<"cart", i>> \in holder
                                /\ Drawn[seeder[s].stream][<<"cart", i>>] \subseteq holds[<<"cart", i>>]
    BY <1>1, <2>1 DEF Progress, CartsDone
  <2>5. holder = OrderRows \cup CartRows
    BY <1>1, <2>3, <2>4, SeedingFacts DEF SeedingTypeOK
  <2>6. \A k \in CartRows : Drawn[seeder[s].stream][k] \subseteq holds[k]
    BY <2>4, SeedingFacts
  <2>7. DrawnReviews[seeder[s].stream] \subseteq opinions
    BY <1>1, <2>1 DEF Progress, ReviewsDone
  <2>8. ASSUME NEW d \in finished'
        PROVE  /\ \A k \in CartRows : Drawn[d][k] \subseteq holds[k]
               /\ DrawnReviews[d] \subseteq opinions
    <3>1. CASE d = seeder[s].stream
      BY <2>6, <2>7, <3>1
    <3>2. CASE d \in finished
      BY <1>1, <3>2 DEF Left
    <3> QED
      BY <1>1, <3>1, <3>2
  <2> QED
    BY <2>2, <2>5, <2>8 DEF Left
<1>6. (finished # {} <=> sentinels > 0)'
  BY <1>1
<1>7. ASSUME together' = FALSE
      PROVE  (/\ \A t, u \in Running : t = u
              /\ \A t \in Running : Alone(t))'
  <2>1. Running' = {}
    BY <1>1, <1>7, OthersStay DEF SeedingInv
  <2> QED
    BY <2>1
<1> QED
  BY <1>2, <1>3, <1>4, <1>5, <1>6, <1>7 DEF SeedingInv

LEMMA ActivitySeeded ==
    ASSUME SeedingInv, NEW s \in Seeders, CommitActivity(s) \/ (CheckSentinel(s) /\ sentinels > 0)
    PROVE  SeedingInv'
<1>1. /\ SeedingTypeOK /\ seeder[s] \in SeedRuns /\ s \in Running
      /\ journeys \in [OrderRows \X SeedLines -> Nat] /\ sentinels \in Nat /\ FunnelMatchesOrders
  BY RestIs DEF SeedingInv, SeedingTypeOK, CommitActivity, CheckSentinel, Running
<1>2. CASE CheckSentinel(s) /\ sentinels > 0
  <2>1. /\ seeder[s].pc = "check" /\ RunEnds(s)
        /\ UNCHANGED <<people, holder, holds, opinions, journeys, sentinels, torn, together, seedRuns, interrupts>>
    BY <1>2 DEF CheckSentinel, history
  <2>2. FunnelMatchesOrders'
    BY <1>1, <2>1 DEF FunnelMatchesOrders
  <2> QED
    BY <1>1, <1>2, <2>1, <2>2, RunEnded
<1>3. CASE CommitActivity(s)
  <2>1. PICK read : read = seeder[s].read
    OBVIOUS
  <2>2. /\ seeder[s].pc = "commit" /\ RunEnds(s) /\ sentinels' = sentinels + 1
        /\ journeys' = [k \in OrderRows \X SeedLines |->
                           IF k[2] \in read[k[1]] THEN journeys[k] + 1 ELSE journeys[k]]
        /\ UNCHANGED <<people, holder, holds, opinions, torn, together, seedRuns, interrupts>>
    BY <1>3, <2>1 DEF CommitActivity
  <2>3. journeys' \in [OrderRows \X SeedLines -> Nat]
    BY <1>1, <2>2
  <2>4. ASSUME together = FALSE, NEW o \in OrderRows, NEW l \in SeedLines
        PROVE  journeys'[<<o, l>>] = IF l \in holds[o] THEN 1 ELSE 0
    <3>1. sentinels = 0 /\ read[o] = holds[o]
      BY <1>1, <2>1, <2>2, <2>4 DEF SeedingInv, Alone
    <3>2. journeys[<<o, l>>] = 0
      BY <1>1, <2>4, <3>1 DEF FunnelMatchesOrders
    <3>3. <<o, l>> \in OrderRows \X SeedLines
      OBVIOUS
    <3>4. journeys'[<<o, l>>] = IF l \in read[o] THEN journeys[<<o, l>>] + 1 ELSE journeys[<<o, l>>]
      BY <2>2, <3>3
    <3> QED
      BY <3>1, <3>2, <3>4
  <2>5. sentinels' \in Nat /\ sentinels' > 0
    BY <1>1, <2>2
  <2>6. together \in BOOLEAN
    BY <1>1 DEF SeedingTypeOK
  <2>7. ASSUME together = FALSE PROVE FunnelMatchesOrders'
    <3>1. holds' = holds /\ sentinels' > 0
      BY <2>2, <2>5
    <3>2. \A o \in OrderRows, l \in SeedLines :
             journeys'[<<o, l>>] = IF sentinels' > 0 /\ l \in holds'[o] THEN 1 ELSE 0
      BY <2>4, <2>7, <3>1
    <3> QED
      BY <3>2 DEF FunnelMatchesOrders
  <2>8. ASSUME together = TRUE PROVE FunnelMatchesOrders'
    BY <2>2, <2>8 DEF FunnelMatchesOrders
  <2>9. FunnelMatchesOrders'
    BY <2>6, <2>7, <2>8
  <2> QED
    BY <1>1, <2>2, <2>3, <2>5, <2>9, RunEnded
<1> QED
  BY <1>2, <1>3

LEMMA RunStarts ==
    ASSUME SeedingInv, NEW s \in Seeders, NEW d \in Streams, History(s, d)
    PROVE  SeedingInv'
<1>1. /\ SeedingTypeOK /\ seeder[s] = AtRest /\ FunnelMatchesOrders /\ together \in BOOLEAN
      /\ seeder \in [Seeders -> SeedRuns \cup {AtRest}]
  BY DEF SeedingInv, SeedingTypeOK, History
<1>2. PICK q : q = [pc |-> "users", stream |-> d, row |-> 1, left |-> {}, read |-> NothingRead]
  OBVIOUS
<1>3. q \in SeedRuns /\ q.pc = "users" /\ q.row = 1
  <2>1. 1 \in 1..Highest
    BY SeedingFacts
  <2> QED
    BY <1>2, <2>1 DEF SeedRuns, SeedSteps, NothingRead
<1>4. /\ seeder' = [seeder EXCEPT ![s] = q] /\ together' = (together \/ Running # {})
      /\ UNCHANGED <<people, holder, holds, opinions, journeys, sentinels, torn, finished, interrupts>>
      /\ seedRuns' \in 0..MaxSeedRuns
  <2>1. seedRuns < MaxSeedRuns /\ seedRuns' = seedRuns + 1 /\ seedRuns \in 0..MaxSeedRuns
    BY <1>1 DEF History, SeedingTypeOK
  <2> QED
    BY <1>2, <2>1, SeedingAssumption DEF History, SeedStep, history
<1>5. SeedingTypeOK'
  <2>1. seeder' \in [Seeders -> SeedRuns \cup {AtRest}]
    BY <1>1, <1>3, <1>4
  <2>2. together' \in BOOLEAN
    BY <1>1, <1>4
  <2> QED
    BY <1>1, <1>4, <2>1, <2>2 DEF SeedingTypeOK
<1>6. /\ seeder'[s] = q /\ Running' = Running \cup {s}
      /\ \A t \in Seeders : t # s => seeder'[t] = seeder[t]
  BY <1>1, <1>3, <1>4, RestIs DEF Running
<1>7. ASSUME NEW t \in Running' PROVE Progress(t)'
  <2>1. CASE t = s
    <3>1. RowFits(s)' /\ PeopleDone(s)' /\ LinesLeft(s)'
      BY <1>3, <1>6, SeedingFacts DEF RowFits, PeopleDone, LinesLeft
    <3>2. OrdersDone(s)' /\ CartsDone(s)' /\ ReviewsDone(s)'
      BY <1>3, <1>6 DEF OrdersDone, CartsDone, ReviewsDone, AfterOrders, AfterCarts, AfterReviews
    <3> QED
      BY <2>1, <3>1, <3>2 DEF Progress
  <2>2. CASE t # s
    <3>1. t \in Seeders /\ t \in Running /\ seeder'[t] = seeder[t]
      BY <1>6, <1>7, <2>2 DEF Running
    <3>2. Progress(t)
      BY <3>1 DEF SeedingInv
    <3> QED
      BY <1>1, <1>4, <3>1, <3>2, OthersGoOn
  <2> QED
    BY <2>1, <2>2
<1>8. \A o \in OrderRows : OrderFilled(o)'
  <2>1. AtRest.pc # "order_items" /\ q.pc # "order_items"
    BY <1>3, RestIs
  <2> QED
    BY <1>1, <1>4, <2>1, OrdersStay
<1>9. Left' /\ (finished # {} <=> sentinels > 0)'
  <2>1. Left /\ (finished # {} <=> sentinels > 0)
    BY DEF SeedingInv
  <2> QED
    BY <1>4, <2>1 DEF Left
<1>10. ASSUME together' = FALSE
       PROVE  (/\ \A t, u \in Running : t = u
               /\ \A t \in Running : Alone(t))'
  <2>1. Running' = {s}
    BY <1>4, <1>6, <1>10
  <2>2. Alone(s)'
    BY <1>3, <1>6 DEF Alone
  <2> QED
    BY <2>1, <2>2
<1>11. FunnelMatchesOrders'
  <2>1. CASE together = TRUE
    BY <1>4, <2>1 DEF FunnelMatchesOrders
  <2>2. CASE together = FALSE
    BY <1>1, <1>4, <2>2 DEF FunnelMatchesOrders
  <2> QED
    BY <1>1, <2>1, <2>2
<1> QED
  BY <1>5, <1>7, <1>8, <1>9, <1>10, <1>11 DEF SeedingInv

LEMMA RunInterrupted ==
    ASSUME SeedingInv, NEW s \in Seeders, Interrupted(s)
    PROVE  SeedingInv'
<1>1. /\ SeedingTypeOK /\ s \in Running /\ FunnelMatchesOrders
      /\ seeder \in [Seeders -> SeedRuns \cup {AtRest}]
      /\ seeder' = [seeder EXCEPT ![s] = AtRest]
      /\ torn' = IF seeder[s].pc = "order_items" THEN torn \cup {OrderOfRun(s)} ELSE torn
      /\ UNCHANGED <<people, holder, holds, opinions, journeys, sentinels, finished, together, seedRuns>>
      /\ interrupts' \in 0..MaxInterrupts
  <2>1. interrupts < MaxInterrupts /\ interrupts' = interrupts + 1 /\ interrupts \in 0..MaxInterrupts
    BY DEF Interrupted, SeedingInv, SeedingTypeOK
  <2> QED
    BY <2>1, SeedingAssumption DEF SeedingInv, SeedingTypeOK, Interrupted, SeedStep, Running, history
<1>2. /\ seeder' \in [Seeders -> SeedRuns \cup {AtRest}]
      /\ Running' = Running \ {s}
      /\ \A t \in Running' : Progress(t)'
  BY <1>1, OthersStay DEF Running
<1>3. seeder[s].pc = "order_items" => OrderOfRun(s) \in OrderRows
  BY <1>1, SeedingFacts DEF SeedingInv, Progress, RowFits, OrderOfRun
<1>4. SeedingTypeOK'
  <2>1. torn' \subseteq OrderRows
    BY <1>1, <1>3 DEF SeedingTypeOK
  <2> QED
    BY <1>1, <1>2, <2>1 DEF SeedingTypeOK
<1>5. ASSUME NEW o \in OrderRows PROVE OrderFilled(o)'
  <2>1. OrderFilled(o)
    BY DEF SeedingInv
  <2>2. ~Fills(s, o)'
    BY <1>1, RestIs DEF Fills
  <2>3. \A t \in Seeders \ {s} : Fills(t, o)' <=> Fills(t, o)
    BY <1>1 DEF Fills, OrderOfRun
  <2>4. torn \subseteq torn' /\ (Fills(s, o) => o \in torn')
    BY <1>1 DEF Fills
  <2> QED
    BY <1>1, <2>1, <2>2, <2>3, <2>4 DEF OrderFilled
<1>6. Left' /\ (finished # {} <=> sentinels > 0)'
  <2>1. Left /\ (finished # {} <=> sentinels > 0)
    BY DEF SeedingInv
  <2> QED
    BY <1>1, <2>1 DEF Left
<1>7. ASSUME together' = FALSE
      PROVE  (/\ \A t, u \in Running : t = u
              /\ \A t \in Running : Alone(t))'
  <2>1. Running' = {}
    BY <1>1, <1>2, <1>7 DEF SeedingInv
  <2> QED
    BY <2>1
<1>8. FunnelMatchesOrders'
  BY <1>1 DEF FunnelMatchesOrders
<1> QED
  BY <1>2, <1>4, <1>5, <1>6, <1>7, <1>8 DEF SeedingInv

LEMMA SeedingUnchanged == SeedingInv /\ UNCHANGED seedingVars => SeedingInv'
<1> SUFFICES ASSUME SeedingInv, UNCHANGED seedingVars PROVE SeedingInv'
  OBVIOUS
<1>1. /\ UNCHANGED <<people, holder, holds, opinions, journeys, sentinels, seeder>>
      /\ UNCHANGED <<torn, finished, together, seedRuns, interrupts>>
  BY DEF seedingVars, history, seedGhosts
<1>2. SeedingTypeOK' /\ Left' /\ FunnelMatchesOrders' /\ (finished # {} <=> sentinels > 0)'
  <2>1. SeedingTypeOK /\ Left /\ FunnelMatchesOrders /\ (finished # {} <=> sentinels > 0)
    BY DEF SeedingInv
  <2> QED
    BY <1>1, <2>1 DEF SeedingTypeOK, Left, FunnelMatchesOrders
<1>3. Running' = Running
  BY <1>1 DEF Running
<1>4. ASSUME NEW s \in Running PROVE Progress(s)'
  BY <1>1, <1>4, OthersGoOn DEF SeedingInv, Running
<1>5. ASSUME NEW o \in OrderRows PROVE OrderFilled(o)'
  <2>1. \A t \in Seeders : Fills(t, o)' <=> Fills(t, o)
    BY <1>1 DEF Fills, OrderOfRun
  <2> QED
    BY <1>1, <2>1 DEF SeedingInv, OrderFilled
<1>6. ASSUME together' = FALSE
      PROVE  (/\ \A t, u \in Running : t = u
              /\ \A t \in Running : Alone(t))'
  BY <1>1, <1>3, <1>6 DEF SeedingInv, Alone
<1> QED
  BY <1>2, <1>3, <1>4, <1>5, <1>6 DEF SeedingInv

LEMMA SeedingSteps ==
    ASSUME SeedingInv, [SeedingNext]_seedingVars
    PROVE  SeedingInv'
<1>1. ASSUME NEW s \in Seeders, CheckSentinel(s) PROVE SeedingInv'
  BY <1>1, ReviewSeeded, ActivitySeeded
<1> QED
  BY <1>1, SeedingUnchanged, RunStarts, UserSeeded, OrderSeeded, CartSeeded, ReviewSeeded, OrderLineSeeded,
     CartLineSeeded, ActivitySeeded, RunInterrupted DEF SeedingNext

LEMMA SeedingInvariant == SeedingSpec => []SeedingInv
<1>1. SeedingInit => SeedingInv
  <2> SUFFICES ASSUME SeedingInit PROVE SeedingInv
    OBVIOUS
  <2>1. SeedingTypeOK
    <3>1. seedRuns \in 0..MaxSeedRuns /\ interrupts \in 0..MaxInterrupts
      BY SeedingAssumption DEF SeedingInit
    <3>2. holds \in [OrderRows \cup CartRows -> SUBSET SeedLines] /\ journeys \in [OrderRows \X SeedLines -> Nat]
      BY DEF SeedingInit
    <3> QED
      BY <3>1, <3>2 DEF SeedingInit, SeedingTypeOK
  <2>2. Running = {}
    BY DEF SeedingInit, Running
  <2>3. \A o \in OrderRows : OrderFilled(o)
    BY RestIs DEF SeedingInit, OrderFilled, Fills
  <2>4. Left /\ (finished # {} <=> sentinels > 0)
    BY DEF SeedingInit, Left
  <2>5. FunnelMatchesOrders
    BY DEF SeedingInit, FunnelMatchesOrders
  <2> QED
    BY <2>1, <2>2, <2>3, <2>4, <2>5 DEF SeedingInv
<1> QED
  BY <1>1, SeedingSteps, PTL DEF SeedingSpec

\* A run that came to its end leaves every order whole or torn from a run that was
\* interrupted, every cart and every review of its stream, and the activity of each
\* line once; for any number of runs, interruptions, rows and streams.
\* (seedUsers ... seedActivity of seed/history.go.)
THEOREM HistoryStandsAlways == SeedingSpec => []HistoryStands
<1>1. ASSUME SeedingInv PROVE HistoryComplete
  <2>1. ASSUME NEW o \in OrderRows, o \in holder
        PROVE  \/ \E d \in Streams : holds[o] = Drawn[d][o]
               \/ o \in torn
               \/ \E s \in Running : seeder[s].pc = "order_items" /\ OrderOfRun(s) = o
    BY <1>1, <2>1, RestIs DEF SeedingInv, OrderFilled, Fills, Running
  <2> QED
    BY <1>1, <2>1 DEF SeedingInv, Left, HistoryComplete
<1>2. SeedingInv => FunnelMatchesOrders
  BY DEF SeedingInv
<1> QED
  BY <1>1, <1>2, SeedingInvariant, PTL DEF HistoryStands

\* Once a stream came to its end, a later run of it writes nothing.  ("safe to re-run",
\* seed/history.go:11-12.)
THEOREM RerunsAreSafe == SeedingSpec => SafeToRerun
<1>1. ASSUME SeedingInv, SeedingNext, NEW s \in Running, seeder[s].stream \in finished, seeder'[s] # seeder[s],
             together = FALSE
      PROVE  history' = history
  <2>1. /\ SeedingTypeOK /\ s \in Seeders /\ seeder[s] \in SeedRuns /\ Progress(s) /\ Alone(s)
        /\ Left /\ sentinels > 0
    BY <1>1, RestIs DEF SeedingInv, SeedingTypeOK, Running
  <2>2. PICK d : d = seeder[s].stream
    OBVIOUS
  <2>3. /\ people = 1..People /\ holder = OrderRows \cup CartRows
        /\ \A k \in CartRows : Drawn[d][k] \subseteq holds[k]
        /\ DrawnReviews[d] \subseteq opinions
    BY <1>1, <2>1, <2>2 DEF Left
  <2>4. seeder[s].pc \notin {"order_items", "load", "commit"}
    BY <2>1 DEF Alone
  <2>5. PICK t \in Seeders :
           \/ \E e \in Streams : History(t, e)
           \/ seedUsers(t) \/ seedOrders(t) \/ seedAbandonedCarts(t) \/ seedReviews(t)
           \/ \E l \in SeedLines : seedOrderItem(t, l) \/ seedCartItem(t, l)
           \/ CheckSentinel(t) \/ LoadJourneys(t) \/ CommitActivity(t) \/ Interrupted(t)
    BY <1>1 DEF SeedingNext
  <2>6. ASSUME NEW l \in SeedLines, seedOrderItem(t, l) \/ seedCartItem(t, l)
        PROVE  \E q : seeder' = [seeder EXCEPT ![t] = q]
    BY <2>6 DEF seedOrderItem, seedCartItem, InsertLine, SeedStep
  <2>7. (\E q : seeder' = [seeder EXCEPT ![t] = q]) \/ seeder' = seeder
    BY <2>5, <2>6 DEF History, seedUsers, seedOrders, seedAbandonedCarts, seedReviews, CheckSentinel,
       LoadJourneys, CommitActivity, Interrupted, RunEnds, SeedStep
  <2>8. t = s
    BY <1>1, <2>1, <2>7 DEF SeedingTypeOK
  <2>9. CASE seedUsers(s)
    <3>1. seeder[s].row \in people
      BY <2>1, <2>3, <2>9 DEF seedUsers, Progress, RowFits
    <3> QED
      BY <2>9, <3>1 DEF seedUsers, history
  <2>10. CASE seedOrders(s)
    <3>1. OrderOfRun(s) \in holder
      BY <2>1, <2>3, <2>10, SeedingFacts DEF seedOrders, Progress, RowFits, OrderOfRun
    <3> QED
      BY <2>10, <3>1 DEF seedOrders, history
  <2>11. CASE seedAbandonedCarts(s)
    <3>1. CartOfRun(s) \in holder
      BY <2>1, <2>3, <2>11, SeedingFacts DEF seedAbandonedCarts, Progress, RowFits, CartOfRun
    <3> QED
      BY <2>11, <3>1 DEF seedAbandonedCarts, history
  <2>12. CASE seedReviews(s)
    <3>1. DrawnReviews[seeder[s].stream] \ opinions = {}
      BY <2>2, <2>3
    <3> QED
      BY <2>12, <3>1 DEF seedReviews, history
  <2>13. ASSUME NEW l \in SeedLines, seedCartItem(s, l) PROVE history' = history
    <3>1. PICK k : k = CartOfRun(s)
      OBVIOUS
    <3>2. seeder[s].pc = "cart_items" /\ InsertLine(s, k, l, "carts", SeedCarts, "reviews")
      BY <2>13, <3>1 DEF seedCartItem
    <3>3. k \in CartRows /\ seeder[s].left \subseteq Drawn[d][k]
      BY <2>1, <2>2, <3>1, <3>2, SeedingFacts DEF Progress, RowFits, LinesLeft, CartOfRun
    <3>4. l \in seeder[s].left /\ holds' = [holds EXCEPT ![k] = holds[k] \cup {l}]
          /\ UNCHANGED <<people, holder, opinions, journeys, sentinels>>
      BY <3>2 DEF InsertLine
    <3>5. holds[k] \cup {l} = holds[k]
      BY <2>3, <3>3, <3>4
    <3>6. holds' = holds
      BY <2>1, <3>3, <3>4, <3>5 DEF SeedingTypeOK
    <3> QED
      BY <3>4, <3>6 DEF history
  <2>14. ASSUME NEW l \in SeedLines, seedOrderItem(s, l) PROVE history' = history
    BY <2>4, <2>14 DEF seedOrderItem
  <2>15. ASSUME NEW e \in Streams, History(s, e) PROVE history' = history
    BY <2>15 DEF History
  <2>16. CASE CheckSentinel(s) \/ LoadJourneys(s) \/ CommitActivity(s) \/ Interrupted(s)
    BY <2>4, <2>16 DEF CheckSentinel, LoadJourneys, CommitActivity, Interrupted, history
  <2> QED
    BY <2>5, <2>8, <2>9, <2>10, <2>11, <2>12, <2>13, <2>14, <2>15, <2>16
<1>2. SeedingInv /\ [SeedingNext]_seedingVars
      => [\A s \in Running : (seeder[s].stream \in finished /\ seeder'[s] # seeder[s])
             => history' = history \/ together]_seedingVars
  BY <1>1 DEF seedingVars, SeedingInv, SeedingTypeOK
<1> QED
  BY <1>2, SeedingInvariant, PTL DEF SeedingSpec, SafeToRerun

-----------------------------------------------------------------------------
(* Delivery: a fee that was in force                                       *)

\* What is known of shopper s's request: its option, as long as it is active, has a
\* fee on record, and the fee read is one of them.
Fair(s) ==
    /\ order[s].pc # "idle" => order[s].code \in Codes
    /\ order[s].pc \in {"verify", "rate"} /\ FeeOf(order[s].code) # NoFee
          => FeeOf(order[s].code) \in inForce[s]
    /\ order[s].pc = "place" => order[s].fee \in inForce[s]

DeliveryInv == DeliveryTypeOK /\ FeeOfTheMoment /\ \A s \in Shoppers : Fair(s)

\* An option's fee is one, and it is the price of an active option.
LEMMA FeeIs ==
    ASSUME DeliveryTypeOK, NEW c \in Codes
    PROVE  /\ FeeOf(c) \in Fees \cup {NoFee}
           /\ option[c].active = TRUE => option[c].price \in Fees /\ FeeOf(c) = option[c].price
           /\ option[c].active = FALSE => FeeOf(c) = NoFee
<1>1. option[c] \in Option
  BY DEF DeliveryTypeOK
<1>2. CASE option[c] = NoOption
  BY <1>2 DEF NoOption, FeeOf
<1>3. CASE option[c] \in [price : Fees, active : BOOLEAN]
  BY <1>3 DEF FeeOf
<1> QED
  BY <1>1, <1>2, <1>3 DEF Option

LEMMA StaffKeepsFees ==
    ASSUME DeliveryInv, NEW c \in Codes, NEW o \in Option, Sets(c, o)
    PROVE  DeliveryInv'
<1>1. o.active = TRUE => o.price \in Fees
  <2>1. CASE o = NoOption
    BY <2>1 DEF NoOption
  <2>2. CASE o \in [price : Fees, active : BOOLEAN]
    BY <2>2
  <2> QED
    BY <2>1, <2>2 DEF Option
<1>2. inForce' \in [Shoppers -> SUBSET Fees]
  BY <1>1 DEF DeliveryInv, DeliveryTypeOK, Sets
<1>3. optionEdits' \in 0..MaxOptionEdits
  BY DeliveryAssumption DEF DeliveryInv, DeliveryTypeOK, Sets
<1>4. DeliveryTypeOK'
  BY <1>2, <1>3 DEF DeliveryInv, DeliveryTypeOK, Sets
<1>5. \A d \in Codes : d # c => FeeOf(d)' = FeeOf(d)
  BY DEF FeeOf, Sets, DeliveryInv, DeliveryTypeOK
<1>6. FeeOf(c)' # NoFee => o.active = TRUE /\ FeeOf(c)' = o.price
  BY DEF FeeOf, Sets, DeliveryInv, DeliveryTypeOK
<1>7. ASSUME NEW s \in Shoppers PROVE Fair(s)'
  <2>1. order'[s] = order[s] /\ Fair(s) /\ inForce[s] \subseteq inForce'[s]
    BY DEF DeliveryInv, DeliveryTypeOK, Sets
  <2>2. order[s].code = c /\ o.active = TRUE => o.price \in inForce'[s]
    BY DEF DeliveryInv, DeliveryTypeOK, Sets
  <2> QED
    BY <1>5, <1>6, <2>1, <2>2 DEF Fair
<1> QED
  BY <1>4, <1>7 DEF DeliveryInv, FeeOfTheMoment, Sets

\* A request of s that changes to r, the rest staying as it is.
LEMMA ShopperKeepsFees ==
    ASSUME DeliveryInv, NEW s \in Shoppers,
           NEW r \in [pc : {"idle", "verify", "rate", "place"}, code : Codes \cup {NoFee}, fee : Fees \cup {NoFee}],
           NEW f \in SUBSET Fees,
           order' = [order EXCEPT ![s] = r], inForce' = [inForce EXCEPT ![s] = f],
           r.pc # "idle" => r.code \in Codes,
           r.pc \in {"verify", "rate"} /\ FeeOf(r.code) # NoFee => FeeOf(r.code) \in f,
           r.pc = "place" => r.fee \in f,
           UNCHANGED <<option, page, optionEdits>>,
           sold' \subseteq [code : Codes, fee : Fees, fair : SUBSET Fees],
           \A o \in sold' : o.fee \in o.fair
    PROVE  DeliveryInv'
<1>1. DeliveryTypeOK'
  BY DEF DeliveryInv, DeliveryTypeOK
<1>2. \A c : FeeOf(c)' = FeeOf(c)
  BY DEF FeeOf
<1>3. ASSUME NEW t \in Shoppers PROVE Fair(t)'
  <2>1. CASE t = s
    <3>1. order'[t] = r /\ inForce'[t] = f
      BY <2>1 DEF DeliveryInv, DeliveryTypeOK
    <3> QED
      BY <1>2, <3>1 DEF Fair
  <2>2. CASE t # s
    <3>1. order'[t] = order[t] /\ inForce'[t] = inForce[t] /\ Fair(t)
      BY <2>2 DEF DeliveryInv, DeliveryTypeOK
    <3> QED
      BY <1>2, <3>1 DEF Fair
  <2> QED
    BY <2>1, <2>2
<1> QED
  BY <1>1, <1>3 DEF DeliveryInv, FeeOfTheMoment

LEMMA DeliverySteps ==
    ASSUME DeliveryInv, [DeliveryNext]_deliveryVars
    PROVE  DeliveryInv'
<1> DEFINE Requests == [pc : {"idle", "verify", "rate", "place"}, code : Codes \cup {NoFee}, fee : Fees \cup {NoFee}]
<1>0. DeliveryTypeOK /\ FeeOfTheMoment /\ BuiltIn \subseteq Codes /\ NoRequest \in Requests /\ NoRequest.pc = "idle"
  BY DeliveryAssumption DEF DeliveryInv, NoRequest
<1>t. ASSUME NEW s \in Shoppers
      PROVE  order[s] \in Requests /\ inForce[s] \in SUBSET Fees /\ Fair(s)
  BY <1>0 DEF DeliveryInv, DeliveryTypeOK
<1>s. sold \subseteq [code : Codes, fee : Fees, fair : SUBSET Fees] /\ \A o \in sold : o.fee \in o.fair
  BY <1>0 DEF DeliveryTypeOK, FeeOfTheMoment
<1>1. ASSUME NEW c \in Codes, NEW f \in Fees, NEW a \in BOOLEAN, CreateOption(c, f, a) \/ UpdateOption(c, f, a)
      PROVE  DeliveryInv'
  <2>1. [price |-> f, active |-> a] \in Option
    BY DEF Option
  <2>2. PICK o \in Option : Sets(c, o)
    BY <1>1, <2>1 DEF CreateOption, UpdateOption
  <2> QED
    BY <2>2, StaffKeepsFees
<1>2. ASSUME NEW c \in Codes, DeleteOption(c)
      PROVE  DeliveryInv'
  <2>1. NoOption \in Option
    BY DEF Option
  <2> QED
    BY <1>2, <2>1, StaffKeepsFees DEF DeleteOption
<1>3. ASSUME NEW s \in Shoppers, ListOptions(s)
      PROVE  DeliveryInv'
  <2>1. [c \in Codes |-> FeeOf(c)] \in [Codes -> Fees \cup {NoFee}]
    BY <1>0, FeeIs
  <2>2. DeliveryTypeOK'
    BY <1>0, <1>3, <2>1 DEF ListOptions, DeliveryTypeOK
  <2>3. \A c : FeeOf(c)' = FeeOf(c)
    BY <1>3 DEF FeeOf, ListOptions
  <2>4. \A t \in Shoppers : Fair(t)'
    BY <1>3, <1>t, <2>3 DEF Fair, ListOptions
  <2> QED
    BY <1>0, <1>3, <2>2, <2>4 DEF DeliveryInv, FeeOfTheMoment, ListOptions
<1>4. ASSUME NEW s \in Shoppers, NEW c \in Codes, CheckoutSent(s, c)
      PROVE  DeliveryInv'
  <2>1. PICK r : r = [pc |-> "verify", code |-> c, fee |-> NoFee]
    OBVIOUS
  <2>2. PICK f : f = {FeeOf(c)} \ {NoFee}
    OBVIOUS
  <2>3. r \in Requests /\ r.pc = "verify" /\ r.code = c
    BY <2>1
  <2>4. f \in SUBSET Fees
    BY <2>2, <1>0, FeeIs
  <2>5. /\ order' = [order EXCEPT ![s] = r] /\ inForce' = [inForce EXCEPT ![s] = f]
        /\ UNCHANGED <<option, page, sold, optionEdits>>
    BY <1>4, <2>1, <2>2 DEF CheckoutSent
  <2> QED
    BY <1>s, <2>2, <2>3, <2>4, <2>5, ShopperKeepsFees
<1>5. ASSUME NEW s \in Shoppers, VerifyAddress(s)
      PROVE  DeliveryInv'
  <2>1. PICK q : q = order[s] /\ q \in Requests
    BY <1>t
  <2>2. PICK r : r = [q EXCEPT !.pc = "rate"]
    OBVIOUS
  <2>3. r \in Requests /\ r.pc = "rate" /\ r.code = q.code
    BY <2>1, <2>2
  <2>4. /\ order' = [order EXCEPT ![s] = r] /\ inForce' = [inForce EXCEPT ![s] = inForce[s]]
        /\ UNCHANGED <<option, page, sold, optionEdits>>
    BY <1>0, <1>5, <2>1, <2>2 DEF VerifyAddress, DeliveryTypeOK
  <2>5. q.pc = "verify" /\ Fair(s) /\ inForce[s] \in SUBSET Fees
    BY <1>t, <1>5, <2>1 DEF VerifyAddress
  <2>6. r.code \in Codes /\ (FeeOf(r.code) # NoFee => FeeOf(r.code) \in inForce[s])
    BY <2>1, <2>3, <2>5 DEF Fair
  <2> QED
    BY <1>s, <2>3, <2>4, <2>5, <2>6, ShopperKeepsFees
<1>6. ASSUME NEW s \in Shoppers, Refused(s), UNCHANGED <<option, page, optionEdits>>,
             sold' \subseteq [code : Codes, fee : Fees, fair : SUBSET Fees], \A o \in sold' : o.fee \in o.fair
      PROVE  DeliveryInv'
  <2>1. PICK r \in Requests : r = NoRequest
    BY <1>0
  <2>2. PICK f \in SUBSET Fees : f = {}
    OBVIOUS
  <2>3. order' = [order EXCEPT ![s] = r] /\ inForce' = [inForce EXCEPT ![s] = f]
    BY <1>6, <2>1, <2>2 DEF Refused
  <2>4. r.pc = "idle"
    BY <1>0, <2>1
  <2> QED
    BY <1>0, <1>6, <2>3, <2>4, ShopperKeepsFees
<1>7. ASSUME NEW s \in Shoppers, AddressRefused(s) \/ PlaceFails(s)
      PROVE  DeliveryInv'
  BY <1>6, <1>7, <1>s DEF AddressRefused, PlaceFails
<1>8. ASSUME NEW s \in Shoppers, Rate(s)
      PROVE  DeliveryInv'
  <2>1. CASE FeeOf(order[s].code) = NoFee
    BY <1>6, <1>8, <1>s, <2>1 DEF Rate
  <2>2. CASE FeeOf(order[s].code) # NoFee
    <3>1. PICK q : q = order[s] /\ q \in Requests
      BY <1>t
    <3>2. PICK r : r = [q EXCEPT !.pc = "place", !.fee = FeeOf(q.code)]
      OBVIOUS
    <3>3. q.pc = "rate" /\ Fair(s) /\ inForce[s] \in SUBSET Fees
      BY <1>t, <1>8, <3>1 DEF Rate
    <3>4. q.code \in Codes /\ FeeOf(q.code) \in inForce[s]
      BY <2>2, <3>1, <3>3 DEF Fair
    <3>5. FeeOf(q.code) \in Fees
      BY <3>3, <3>4
    <3>6. r \in Requests /\ r.pc = "place" /\ r.code = q.code /\ r.fee = FeeOf(q.code)
      BY <3>1, <3>2, <3>5
    <3>7. /\ order' = [order EXCEPT ![s] = r] /\ inForce' = [inForce EXCEPT ![s] = inForce[s]]
          /\ UNCHANGED <<option, page, sold, optionEdits>>
      BY <1>0, <1>8, <2>2, <3>1, <3>2 DEF Rate, DeliveryTypeOK
    <3> QED
      BY <1>s, <3>3, <3>4, <3>6, <3>7, ShopperKeepsFees
  <2> QED
    BY <2>1, <2>2
<1>9. ASSUME NEW s \in Shoppers, PlaceWithFee(s)
      PROVE  DeliveryInv'
  <2>1. /\ order[s].code \in Codes /\ order[s].fee \in inForce[s] /\ inForce[s] \in SUBSET Fees
    BY <1>t, <1>9 DEF Fair, PlaceWithFee
  <2>2. PICK o : o = [code |-> order[s].code, fee |-> order[s].fee, fair |-> inForce[s]]
    OBVIOUS
  <2>3. o \in [code : Codes, fee : Fees, fair : SUBSET Fees] /\ o.fee \in o.fair
    BY <2>1, <2>2
  <2>4. sold' = sold \cup {o}
    BY <1>9, <2>2 DEF PlaceWithFee
  <2> QED
    BY <1>6, <1>9, <1>s, <2>3, <2>4 DEF PlaceWithFee
<1>10. ASSUME UNCHANGED deliveryVars PROVE DeliveryInv'
  BY <1>0, <1>10, <1>t DEF deliveryVars, DeliveryInv, DeliveryTypeOK, FeeOfTheMoment, Fair, FeeOf
<1> QED
  BY <1>1, <1>2, <1>3, <1>4, <1>5, <1>7, <1>8, <1>9, <1>10 DEF DeliveryNext

LEMMA DeliveryInvariant == DeliverySpec => []DeliveryInv
<1>1. DeliveryInit => DeliveryInv
  <2> SUFFICES ASSUME DeliveryInit PROVE DeliveryInv
    OBVIOUS
  <2>1. PICK f \in Fees : option = [c \in Codes |->
           IF c \in BuiltIn THEN [price |-> f, active |-> TRUE] ELSE NoOption]
    BY DEF DeliveryInit
  <2>2. option \in [Codes -> Option]
    BY <2>1 DEF Option
  <2>3. DeliveryTypeOK
    <3>1. NoRequest \in [pc : {"idle", "verify", "rate", "place"}, code : Codes \cup {NoFee},
                         fee : Fees \cup {NoFee}]
      BY DEF NoRequest
    <3>2. optionEdits \in 0..MaxOptionEdits
      BY DeliveryAssumption DEF DeliveryInit
    <3> QED
      BY <2>2, <3>1, <3>2 DEF DeliveryInit, DeliveryTypeOK
  <2>4. \A s \in Shoppers : Fair(s)
    BY DEF DeliveryInit, Fair, NoRequest
  <2> QED
    BY <2>3, <2>4 DEF DeliveryInv, FeeOfTheMoment, DeliveryInit
<1> QED
  BY <1>1, DeliverySteps, PTL DEF DeliverySpec

\* An order pays a fee that its option had, while active, at some moment of its
\* request, however staff edit options and however many shoppers there are.
\* (resolveShipping against UpdateOption and DeleteOption.)
THEOREM FairFees == DeliverySpec => []FeeOfTheMoment
<1>1. DeliveryInv => FeeOfTheMoment
  BY DEF DeliveryInv
<1> QED
  BY <1>1, DeliveryInvariant, PTL

-----------------------------------------------------------------------------
(* Catalogue: the units of a product                                       *)

USE DEF StatusPendingPayment, StatusPaid, StatusPaymentFailed, StatusProcessing,
        StatusShipped, StatusDelivered, StatusCancelled, StatusRefunded, NoOrder,
        PostPayment, Holding, Released, Statuses

\* The units of product p: as long as it is listed they are on the shelf or held, and
\* one that is gone has none on the shelf and holds no more than it had.
Accounted(p) ==
    /\ p \in listed => stock[p] + Cardinality(HeldUnits(p)) = owned[p]
    /\ p \notin listed => stock[p] = 0 /\ Cardinality(HeldUnits(p)) <= owned[p]

StockInv ==
    /\ LedgerTypeOK
    /\ listed \subseteq Products
    /\ form \in [Forms -> FormsOpen \cup {NoForm}]
    /\ owned \in [Products -> Int] /\ overwritten \subseteq Products
    /\ \A p \in Products \ overwritten : Accounted(p)

\* What an image request relies on: a file that is being written is nobody else's and
\* in no row yet, and once it is complete it stays so.
UploadFits(c) ==
    /\ upload[c].pc = "unset" => upload[c].primary = TRUE
    /\ upload[c].pc = "file" =>
          /\ written[upload[c].url] < Variants
          /\ \A q \in Products : image[q][upload[c].url] = "none"
          /\ \A d \in ImageCalls \ {c} : upload[d] # NoUpload => upload[d].url # upload[c].url
    /\ upload[c].pc \in {"unset", "insert"} => written[upload[c].url] \in {0, Variants}

Primaries(p) == {u \in Urls : image[p][u] = "primary"}
\* The requests that have unset p's primary image and have not put theirs in its place.
Replacing(p) == {c \in ImageCalls : upload[c].pc = "insert" /\ upload[c].product = p /\ upload[c].primary = TRUE}

Led(p) == \/ Replacing(p) = {} /\ Primaries(p) = {lead[p]} \ {NoUrl}
          \/ Primaries(p) = {} /\ \E c \in ImageCalls : Replacing(p) = {c}

ImageTypes ==
    /\ image \in [Products -> [Urls -> ImageStates]]
    /\ written \in [Urls -> 0..Variants]
    /\ upload \in [ImageCalls -> Uploads \cup {NoUpload}]
    /\ lead \in [Products -> Urls \cup {NoUrl}] /\ clashed \subseteq Products

ImageInv ==
    /\ ImageTypes
    /\ \A c \in ImageCalls : UploadFits(c)
    /\ \A p \in Products \ clashed : Led(p)
    /\ ImagesHaveFiles

CountersFit == changes \in 0..MaxChanges /\ catalogueFaults \in 0..MaxCatalogueFaults

CatalogueInv == StockInv /\ ImageInv /\ CountersFit

LEMMA CountersStay ==
    ASSUME CountersFit, Begins \/ Faults \/ Goes PROVE CountersFit'
BY CatalogueAssumption DEF CountersFit, Begins, Faults, Goes

LEMMA StockStays ==
    ASSUME StockInv, UNCHANGED <<ledgerVars, stockSide>> PROVE StockInv'
<1>1. UNCHANGED <<status, items, stock, listed, form, owned, overwritten>>
  BY DEF ledgerVars, stockSide
<1>2. \A p : HeldUnits(p)' = HeldUnits(p)
  BY <1>1 DEF HeldUnits
<1> QED
  BY <1>1, <1>2 DEF StockInv, LedgerTypeOK, Accounted

LEMMA ImagesStay ==
    ASSUME ImageInv, UNCHANGED imageSide PROVE ImageInv'
<1>1. UNCHANGED <<image, written, upload, lead, clashed>>
  BY DEF imageSide
<1>2. ImageTypes' /\ ImagesHaveFiles'
  BY <1>1 DEF ImageInv, ImageTypes, ImagesHaveFiles
<1>3. \A c \in ImageCalls : UploadFits(c)'
  BY <1>1 DEF ImageInv, UploadFits
<1>4. \A p \in Products \ clashed : Led(p)'
  BY <1>1 DEF ImageInv, Led, Replacing, Primaries
<1> QED
  BY <1>1, <1>2, <1>3, <1>4 DEF ImageInv

\* What an order does to the units of a product.
LEMMA OrderKeepsStock ==
    ASSUME StockInv, OrderPlaced \/ OrderAdvances \/ (\E o \in Orders, s \in Released : OrderDies(o, s))
    PROVE  StockInv'
<1>0. /\ LedgerTypeOK /\ status \in [Orders -> Statuses] /\ items \in [Orders -> Baskets]
      /\ stock \in [Products -> Nat] /\ listed \subseteq Products
      /\ owned \in [Products -> Int]
  BY DEF StockInv, LedgerTypeOK
<1>1. UNCHANGED <<listed, form, owned, overwritten>>
  BY DEF OrderPlaced, OrderAdvances, OrderDies, stockSide
<1>2. ASSUME NEW p \in Products \ overwritten
      PROVE  /\ Accounted(p) /\ Cardinality(HeldUnits(p)) \in Nat /\ stock[p] \in Nat /\ owned[p] \in Int
  BY <1>0, HeldUnitsFinite, FS_CardinalityType DEF StockInv
<1>3. ASSUME NEW o \in Orders, NEW want \in Baskets, Reserve(o, want) PROVE StockInv'
  <2>1. status[o] \notin Holding /\ StatusPendingPayment \in Holding /\ StatusPendingPayment \in Statuses
    BY <1>3 DEF Reserve
  <2>2. \A p \in Products : want[p] \in Nat /\ want[p] <= stock[p] /\ stock'[p] = stock[p] - want[p]
    BY <1>3, LedgerAssumption DEF Reserve, Baskets
  <2>3. LedgerTypeOK'
    <3>1. stock' \in [Products -> Nat]
      BY <1>0, <1>3, <2>2 DEF Reserve
    <3> QED
      BY <1>0, <1>3, <2>1, <3>1 DEF Reserve, LedgerTypeOK
  <2>4. ASSUME NEW p \in Products \ overwritten PROVE Accounted(p)'
    <3>1. Cardinality(HeldUnits(p)') = Cardinality(HeldUnits(p)) + want[p]
      BY <1>0, <1>3, <2>1, UnitsTaken DEF Reserve
    <3> QED
      BY <1>1, <1>2, <2>2, <3>1 DEF Accounted
  <2> QED
    BY <1>1, <2>3, <2>4 DEF StockInv
<1>4. ASSUME NEW o \in Orders, NEW s \in PostPayment, Advance(o, s) PROVE StockInv'
  <2>1. \A q \in Orders : status'[q] \in Statuses /\ (status'[q] \in Holding <=> status[q] \in Holding)
    BY <1>0, <1>4 DEF Advance
  <2>2. LedgerTypeOK'
    BY <1>0, <1>4, <2>1 DEF Advance, LedgerTypeOK
  <2>3. \A p : HeldUnits(p)' = HeldUnits(p)
    BY <1>4, <2>1, UnitsKept DEF Advance
  <2> QED
    BY <1>1, <1>4, <2>2, <2>3 DEF StockInv, Accounted, Advance
<1>5. ASSUME NEW o \in Orders, NEW s \in Released, OrderDies(o, s) PROVE StockInv'
  <2>1. /\ status[o] \in Holding /\ s \notin Holding /\ s \in Statuses
        /\ status' = [status EXCEPT ![o] = s] /\ items' = items
    BY <1>5 DEF OrderDies
  <2>2. \A p \in Products : /\ items[o][p] \in Nat
                            /\ stock'[p] = IF p \in listed THEN stock[p] + items[o][p] ELSE stock[p]
    BY <1>0, <1>5, LedgerAssumption DEF OrderDies, Restocked, Baskets
  <2>3. LedgerTypeOK'
    <3>1. stock' \in [Products -> Nat]
      BY <1>0, <1>5, <2>2 DEF OrderDies, Restocked
    <3> QED
      BY <1>0, <2>1, <3>1 DEF LedgerTypeOK
  <2>4. ASSUME NEW p \in Products \ overwritten PROVE Accounted(p)'
    <3>1. /\ Cardinality(HeldUnits(p)') \in Nat
          /\ Cardinality(HeldUnits(p)) = Cardinality(HeldUnits(p)') + items[o][p]
      BY <1>0, <2>1, UnitsReturned
    <3> QED
      BY <1>1, <1>2, <2>2, <3>1 DEF Accounted
  <2> QED
    BY <1>1, <2>3, <2>4 DEF StockInv
<1> QED
  BY <1>3, <1>4, <1>5 DEF OrderPlaced, OrderAdvances

\* What an admin does to the units of a product.
LEMMA AdminKeepsStock ==
    ASSUME StockInv,
           \/ \E p \in Products : \/ \E n \in 1..MaxQty : CreateProduct(p, n)
                                  \/ \E a \in Forms : BeginEdit(a, p)
                                  \/ Delete(p)
           \/ \E a \in Forms, n \in 0..(MaxQty + 1) : Update(a, n)
    PROVE  StockInv'
<1>0. /\ LedgerTypeOK /\ status \in [Orders -> Statuses] /\ items \in [Orders -> Baskets]
      /\ stock \in [Products -> Nat] /\ listed \subseteq Products /\ MaxQty \in Nat
      /\ owned \in [Products -> Int] /\ form \in [Forms -> FormsOpen \cup {NoForm}]
      /\ overwritten \subseteq Products
  BY LedgerAssumption DEF StockInv, LedgerTypeOK
<1>1. ASSUME NEW p \in Products \ overwritten
      PROVE  /\ Accounted(p) /\ Cardinality(HeldUnits(p)) \in Nat /\ stock[p] \in Nat /\ owned[p] \in Int
  BY <1>0, HeldUnitsFinite, FS_CardinalityType DEF StockInv
<1>2. ASSUME status' = status, items' = items
      PROVE  \A p : HeldUnits(p)' = HeldUnits(p)
  BY <1>2 DEF HeldUnits
<1>3. ASSUME NEW p \in Products, NEW n \in 1..MaxQty, CreateProduct(p, n) PROVE StockInv'
  <2>1. /\ p \notin listed /\ owned[p] = 0 /\ listed' = listed \cup {p} /\ n \in Nat
        /\ stock' = [stock EXCEPT ![p] = n] /\ owned' = [owned EXCEPT ![p] = n]
        /\ UNCHANGED <<status, items, form, overwritten>>
    BY <1>0, <1>3 DEF CreateProduct
  <2>2. LedgerTypeOK'
    BY <1>0, <2>1 DEF LedgerTypeOK
  <2>3. ASSUME NEW q \in Products \ overwritten PROVE Accounted(q)'
    <3>1. HeldUnits(q)' = HeldUnits(q)
      BY <1>2, <2>1
    <3>2. CASE q = p
      <4>1. Cardinality(HeldUnits(q)) = 0
        BY <1>1, <2>1, <3>2 DEF Accounted
      <4>2. stock'[q] = n /\ owned'[q] = n /\ q \in listed'
        BY <1>0, <2>1, <3>2
      <4> QED
        BY <2>1, <3>1, <4>1, <4>2 DEF Accounted
    <3>3. CASE q # p
      <4>1. stock'[q] = stock[q] /\ owned'[q] = owned[q] /\ (q \in listed' <=> q \in listed)
        BY <1>0, <2>1, <3>3
      <4> QED
        BY <1>1, <3>1, <4>1 DEF Accounted
    <3> QED
      BY <3>2, <3>3
  <2> QED
    BY <1>0, <2>1, <2>2, <2>3 DEF StockInv
<1>4. ASSUME NEW p \in Products, NEW a \in Forms, BeginEdit(a, p) PROVE StockInv'
  <2>1. [open |-> TRUE, product |-> p, shown |-> stock[p]] \in FormsOpen
    BY <1>0 DEF FormsOpen
  <2>2. form' \in [Forms -> FormsOpen \cup {NoForm}]
    BY <1>0, <1>4, <2>1 DEF BeginEdit
  <2>3. UNCHANGED <<status, items, stock, listed, owned, overwritten>>
    BY <1>4 DEF BeginEdit, ledgerVars
  <2>4. LedgerTypeOK' /\ \A q \in Products \ overwritten : Accounted(q)'
    BY <1>0, <1>1, <1>2, <2>3 DEF LedgerTypeOK, Accounted
  <2> QED
    BY <1>0, <2>2, <2>3, <2>4 DEF StockInv
<1>5. ASSUME NEW p \in Products, Delete(p) PROVE StockInv'
  <2>1. /\ p \in listed /\ listed' = listed \ {p} /\ stock' = [stock EXCEPT ![p] = 0]
        /\ UNCHANGED <<status, items, form, owned, overwritten>>
    BY <1>5 DEF Delete
  <2>2. LedgerTypeOK'
    BY <1>0, <2>1 DEF LedgerTypeOK
  <2>3. ASSUME NEW q \in Products \ overwritten PROVE Accounted(q)'
    <3>1. HeldUnits(q)' = HeldUnits(q)
      BY <1>2, <2>1
    <3>2. stock'[q] = IF q = p THEN 0 ELSE stock[q]
      BY <1>0, <2>1
    <3> QED
      BY <1>1, <2>1, <3>1, <3>2 DEF Accounted
  <2> QED
    BY <1>0, <2>1, <2>2, <2>3 DEF StockInv
<1>6. ASSUME NEW a \in Forms, NEW n \in 0..(MaxQty + 1), Update(a, n) PROVE StockInv'
  <2>1. PICK f : f = form[a] /\ f.open = TRUE
    BY <1>0, <1>6 DEF Update, FormsOpen, NoForm
  <2>2. f.product \in Products /\ f.shown \in Nat /\ n \in Nat
    <3>1. f \in FormsOpen
      <4>1. f \in FormsOpen \cup {NoForm}
        BY <1>0, <2>1
      <4> QED
        BY <2>1, <4>1 DEF NoForm
    <3> QED
      BY <1>0, <3>1 DEF FormsOpen
  <2>3. form' \in [Forms -> FormsOpen \cup {NoForm}] /\ UNCHANGED <<status, items, listed>>
    BY <1>0, <1>6 DEF Update
  <2>4. \A q : HeldUnits(q)' = HeldUnits(q)
    BY <1>2, <2>3
  <2>5. CASE f.product \notin listed
    <3>1. UNCHANGED <<stock, owned, overwritten>>
      BY <1>6, <2>1, <2>5 DEF Update
    <3> QED
      BY <1>0, <1>1, <2>3, <2>4, <3>1 DEF StockInv, LedgerTypeOK, Accounted
  <2>6. CASE f.product \in listed
    <3>1. PICK p \in Products : p = f.product
      BY <2>2
    <3>2. PICK m \in Int : m = owned[p] + (n - f.shown)
      BY <1>0, <2>2
    <3>3. /\ stock' = [stock EXCEPT ![p] = n] /\ owned' = [owned EXCEPT ![p] = m]
          /\ overwritten' = IF stock[p] = f.shown THEN overwritten ELSE overwritten \cup {p}
      BY <1>6, <2>1, <2>6, <3>1, <3>2 DEF Update
    <3>4. stock' \in [Products -> Nat] /\ owned' \in [Products -> Int] /\ overwritten' \subseteq Products
      BY <1>0, <2>2, <3>3
    <3>5. ASSUME NEW q \in Products \ overwritten' PROVE Accounted(q)'
      <4>1. q \in Products \ overwritten
        BY <3>3
      <4>2. CASE q = p
        <5>1. stock[p] = f.shown /\ stock'[q] = n /\ owned'[q] = m /\ q \in listed
          BY <1>0, <2>6, <3>1, <3>3, <3>5, <4>2
        <5> QED
          BY <1>1, <2>2, <2>3, <2>4, <3>2, <4>1, <4>2, <5>1 DEF Accounted
      <4>3. CASE q # p
        <5>1. stock'[q] = stock[q] /\ owned'[q] = owned[q]
          BY <1>0, <3>3, <4>3
        <5> QED
          BY <1>1, <2>3, <2>4, <4>1, <5>1 DEF Accounted
      <4> QED
        BY <4>2, <4>3
    <3> QED
      BY <1>0, <2>3, <3>4, <3>5 DEF StockInv, LedgerTypeOK
  <2> QED
    BY <2>5, <2>6
<1> QED
  BY <1>3, <1>4, <1>5, <1>6
-----------------------------------------------------------------------------
(* Catalogue: the primary image                                            *)

\* A request in flight is a record with all its fields.
LEMMA UploadTyped ==
    ASSUME ImageTypes, NEW c \in ImageCalls, upload[c] # NoUpload
    PROVE  /\ upload[c] \in Uploads
           /\ upload[c].pc \in {"file", "unset", "insert"} /\ upload[c].product \in Products
           /\ upload[c].url \in Urls /\ upload[c].primary \in BOOLEAN
<1>1. upload[c] \in Uploads
  BY DEF ImageTypes
<1> QED
  BY <1>1 DEF Uploads

LEMMA Idle == ASSUME NEW c, upload[c] = NoUpload PROVE upload[c].pc = "idle"
BY DEF NoUpload

\* A request that is begun is not yet between its UPDATE and its INSERT, unless it has
\* no primary to make.
LEMMA StartKeeps ==
    ASSUME ImageInv, NEW c \in ImageCalls, NEW r \in Uploads, upload[c] = NoUpload,
           upload' = [upload EXCEPT ![c] = r], UNCHANGED <<image, written, lead, clashed>>,
           r.pc = "insert" => r.primary = FALSE,
           UploadFits(c)',
           \A d \in ImageCalls \ {c} : upload[d].pc = "file" => upload[d].url # r.url
    PROVE  ImageInv'
<1>0. /\ ImageTypes /\ upload \in [ImageCalls -> Uploads \cup {NoUpload}]
      /\ \A d \in ImageCalls : UploadFits(d)
      /\ ImagesHaveFiles
  BY DEF ImageInv, ImageTypes
<1>1. upload'[c] = r /\ \A d \in ImageCalls : d # c => upload'[d] = upload[d]
  BY <1>0
<1>2. ImageTypes' /\ ImagesHaveFiles'
  BY <1>0 DEF ImageTypes, ImagesHaveFiles
<1>3. ASSUME NEW d \in ImageCalls PROVE UploadFits(d)'
  <2>1. CASE d = c
    BY <2>1
  <2>2. CASE d # c
    <3>1. upload'[d] = upload[d] /\ UploadFits(d)
      BY <1>0, <1>1, <2>2
    <3>2. upload[d].pc = "file" =>
             \A e \in ImageCalls \ {d} : upload'[e] # NoUpload => upload'[e].url # upload[d].url
      BY <1>1, <2>2, <3>1 DEF UploadFits
    <3> QED
      BY <3>1, <3>2 DEF UploadFits
  <2> QED
    BY <2>1, <2>2
<1>4. ASSUME NEW p \in Products \ clashed' PROVE Led(p)'
  <2>1. Led(p) /\ Primaries(p)' = Primaries(p)
    BY DEF ImageInv, Primaries
  <2>2. Replacing(p)' = Replacing(p)
    <3>1. upload[c].pc # "insert"
      BY DEF NoUpload
    <3>2. ~(r.pc = "insert" /\ r.primary = TRUE)
      OBVIOUS
    <3> QED
      BY <1>1, <3>1, <3>2 DEF Replacing
  <2> QED
    BY <2>1, <2>2 DEF Led
<1> QED
  BY <1>2, <1>3, <1>4 DEF ImageInv

LEMMA AddImageKeeps ==
    ASSUME ImageInv, NEW c \in ImageCalls, NEW p \in Products, NEW u \in Urls, NEW primary \in BOOLEAN,
           AddImage(c, p, u, primary)
    PROVE  ImageInv'
<1>1. PICK r : r = [pc |-> RowStep(primary), product |-> p, url |-> u, primary |-> primary]
  OBVIOUS
<1>2. /\ r \in Uploads /\ r.url = u /\ r.primary = primary
      /\ r.pc = IF primary THEN "unset" ELSE "insert"
  BY <1>1 DEF Uploads, RowStep
<1>3. /\ upload[c] = NoUpload /\ upload' = [upload EXCEPT ![c] = r]
      /\ UNCHANGED <<image, written, lead, clashed>>
      /\ written[u] = 0 /\ \A d \in ImageCalls : upload[d].pc = "file" => upload[d].url # u
  BY <1>1 DEF AddImage, ImageStarts
<1>4. upload'[c] = r
  BY <1>3 DEF ImageInv, ImageTypes
<1>5. UploadFits(c)'
  BY <1>2, <1>3, <1>4 DEF UploadFits
<1> QED
  BY <1>2, <1>3, <1>5, StartKeeps

LEMMA UploadImageKeeps ==
    ASSUME ImageInv, NEW c \in ImageCalls, NEW p \in Products, NEW u \in Urls, NEW primary \in BOOLEAN,
           UploadImage(c, p, u, primary)
    PROVE  ImageInv'
<1>1. PICK r : r = [pc |-> "file", product |-> p, url |-> u, primary |-> primary]
  OBVIOUS
<1>2. r \in Uploads /\ r.url = u /\ r.primary = primary /\ r.pc = "file"
  BY <1>1 DEF Uploads
<1>3. /\ upload[c] = NoUpload /\ upload' = [upload EXCEPT ![c] = r]
      /\ UNCHANGED <<image, written, lead, clashed>>
      /\ written[u] = 0 /\ (\A q \in Products : image[q][u] = "none")
      /\ \A d \in ImageCalls : upload[d] # NoUpload => upload[d].url # u
  BY <1>1 DEF UploadImage, ImageStarts
<1>4. upload'[c] = r /\ \A d \in ImageCalls \ {c} : upload'[d] = upload[d]
  BY <1>3 DEF ImageInv, ImageTypes
<1>5. UploadFits(c)'
  BY <1>2, <1>3, <1>4 DEF UploadFits, Variants
<1>6. \A d \in ImageCalls \ {c} : upload[d].pc = "file" => upload[d].url # r.url
  BY <1>2, <1>3 DEF NoUpload
<1> QED
  BY <1>2, <1>3, <1>5, <1>6, StartKeeps

\* What a request's next step makes of its record.
LEMMA StepTyped ==
    ASSUME ImageTypes, NEW c \in ImageCalls, upload[c] # NoUpload, NEW pc \in {"file", "unset", "insert"},
           ImageStep(c, pc)
    PROVE  /\ upload' \in [ImageCalls -> Uploads \cup {NoUpload}]
           /\ upload'[c] \in Uploads /\ upload'[c] # NoUpload
           /\ upload'[c].pc = pc /\ upload'[c].product = upload[c].product
           /\ upload'[c].url = upload[c].url /\ upload'[c].primary = upload[c].primary
           /\ \A d \in ImageCalls \ {c} : upload'[d] = upload[d]
<1>0. upload \in [ImageCalls -> Uploads \cup {NoUpload}] /\ upload[c] \in Uploads
  BY UploadTyped DEF ImageTypes
<1>1. PICK r : r = upload[c]
  OBVIOUS
<1>2. PICK q : q = [r EXCEPT !.pc = pc]
  OBVIOUS
<1>3. upload' = [upload EXCEPT ![c] = q]
  BY <1>1, <1>2 DEF ImageStep
<1>4. q = [pc |-> pc, product |-> r.product, url |-> r.url, primary |-> r.primary]
  BY <1>0, <1>1, <1>2 DEF Uploads
<1>5. q \in Uploads
  BY <1>0, <1>1, <1>4 DEF Uploads
<1>6. q # NoUpload /\ q.pc = pc /\ q.product = r.product /\ q.url = r.url /\ q.primary = r.primary
  BY <1>4 DEF NoUpload
<1> QED
  BY <1>0, <1>1, <1>3, <1>5, <1>6

LEMMA ProcessKeeps ==
    ASSUME ImageInv, NEW c \in ImageCalls, Process(c) PROVE ImageInv'
<1>0. /\ ImageTypes /\ image \in [Products -> [Urls -> ImageStates]] /\ written \in [Urls -> 0..Variants]
      /\ (\A d \in ImageCalls : UploadFits(d)) /\ ImagesHaveFiles
  BY DEF ImageInv, ImageTypes
<1>1. upload[c].pc = "file" /\ upload[c] # NoUpload /\ UNCHANGED <<image, lead, clashed>>
  BY DEF Process, NoUpload
<1>2. PICK u \in Urls : u = upload[c].url
  BY <1>0, <1>1, UploadTyped
<1>3. written[u] \in 0..(Variants - 1)
  BY <1>0, <1>1, <1>2 DEF UploadFits, Variants
<1>4. written' = [written EXCEPT ![u] = @ + 1]
  BY <1>2 DEF Process
<1>5. PICK pc : pc = IF written[u] + 1 = Variants THEN RowStep(upload[c].primary) ELSE "file"
  OBVIOUS
<1>6. /\ pc \in {"file", "unset", "insert"} /\ ImageStep(c, pc)
      /\ (pc = "file" => written[u] + 1 # Variants) /\ (pc # "file" => written[u] + 1 = Variants)
      /\ (pc = "unset" => upload[c].primary = TRUE) /\ (pc = "insert" => upload[c].primary = FALSE)
  BY <1>0, <1>1, <1>2, <1>5, UploadTyped DEF Process, RowStep
<1>7. /\ upload' \in [ImageCalls -> Uploads \cup {NoUpload}]
      /\ upload'[c].pc = pc /\ upload'[c].product = upload[c].product
      /\ upload'[c].url = u /\ upload'[c].primary = upload[c].primary
      /\ \A d \in ImageCalls \ {c} : upload'[d] = upload[d]
  BY <1>0, <1>1, <1>2, <1>6, StepTyped
<1>8. /\ written' \in [Urls -> 0..Variants] /\ written'[u] = written[u] + 1
      /\ \A v \in Urls \ {u} : written'[v] = written[v]
  BY <1>0, <1>3, <1>4 DEF Variants
<1>9. ImageTypes' /\ ImagesHaveFiles'
  <2>1. \A q \in Products : image[q][u] = "none"
    BY <1>0, <1>1, <1>2 DEF UploadFits
  <2> QED
    BY <1>0, <1>1, <1>7, <1>8, <2>1 DEF ImageTypes, ImagesHaveFiles
<1>10. ASSUME NEW d \in ImageCalls PROVE UploadFits(d)'
  <2>1. CASE d = c
    <3>1. /\ \A q \in Products : image[q][u] = "none"
          /\ \A e \in ImageCalls \ {c} : upload[e] # NoUpload => upload[e].url # u
      BY <1>0, <1>1, <1>2 DEF UploadFits
    <3>2. pc = "file" => written'[u] < Variants
      BY <1>3, <1>6, <1>8 DEF Variants
    <3>3. pc \in {"unset", "insert"} => written'[u] = Variants
      BY <1>6, <1>8
    <3> QED
      BY <1>1, <1>6, <1>7, <2>1, <3>1, <3>2, <3>3 DEF UploadFits
  <2>2. CASE d # c
    <3>1. upload'[d] = upload[d] /\ UploadFits(d)
      BY <1>0, <1>7, <2>2
    <3>2. CASE upload[d] = NoUpload
      BY <3>1, <3>2 DEF UploadFits, NoUpload
    <3>3. CASE upload[d] # NoUpload
      <4>1. upload[d].url \in Urls /\ upload[d].url # u
        BY <1>0, <1>1, <1>2, <2>2, <3>3, UploadTyped DEF UploadFits
      <4>2. written'[upload[d].url] = written[upload[d].url]
        BY <1>8, <4>1
      <4>3. upload[d].pc = "file" =>
               \A e \in ImageCalls \ {d} : upload'[e] # NoUpload => upload'[e].url # upload[d].url
        BY <1>7, <2>2, <3>1, <4>1 DEF UploadFits
      <4> QED
        BY <1>1, <3>1, <4>2, <4>3 DEF UploadFits
    <3> QED
      BY <3>2, <3>3
  <2> QED
    BY <2>1, <2>2
<1>11. ASSUME NEW p \in Products \ clashed' PROVE Led(p)'
  <2>1. Led(p) /\ Primaries(p)' = Primaries(p)
    BY <1>1 DEF ImageInv, Primaries
  <2>2. Replacing(p)' = Replacing(p)
    BY <1>1, <1>6, <1>7 DEF Replacing
  <2> QED
    BY <1>1, <2>1, <2>2 DEF Led
<1> QED
  BY <1>9, <1>10, <1>11 DEF ImageInv

LEMMA UnsetPrimaryKeeps ==
    ASSUME ImageInv, NEW c \in ImageCalls, UnsetPrimary(c) PROVE ImageInv'
<1>0. /\ ImageTypes /\ image \in [Products -> [Urls -> ImageStates]]
      /\ (\A d \in ImageCalls : UploadFits(d)) /\ ImagesHaveFiles /\ clashed \subseteq Products
  BY DEF ImageInv, ImageTypes
<1>1. /\ upload[c].pc = "unset" /\ upload[c] # NoUpload /\ upload[c].primary = TRUE
      /\ UNCHANGED <<written, lead>>
  BY <1>0 DEF UnsetPrimary, NoUpload, UploadFits
<1>2. PICK p \in Products : p = upload[c].product
  BY <1>0, <1>1, UploadTyped
<1>3. /\ upload' \in [ImageCalls -> Uploads \cup {NoUpload}]
      /\ upload'[c].pc = "insert" /\ upload'[c].product = p
      /\ upload'[c].url = upload[c].url /\ upload'[c].primary = TRUE
      /\ \A d \in ImageCalls \ {c} : upload'[d] = upload[d]
  BY <1>0, <1>1, <1>2, StepTyped DEF UnsetPrimary
<1>4. PICK g : g = [u \in Urls |-> IF image[p][u] = "primary" THEN "plain" ELSE image[p][u]]
  OBVIOUS
<1>5. g \in [Urls -> ImageStates] /\ \A u \in Urls : g[u] # "primary" /\ (g[u] = "none" <=> image[p][u] = "none")
  BY <1>0, <1>4 DEF ImageStates
<1>6. image' = [image EXCEPT ![p] = g]
  BY <1>0, <1>2, <1>4 DEF UnsetPrimary
<1>7. /\ image' \in [Products -> [Urls -> ImageStates]] /\ image'[p] = g
      /\ \A q \in Products \ {p} : image'[q] = image[q]
  BY <1>0, <1>5, <1>6
<1>8. \A q \in Products, u \in Urls : (image'[q][u] = "none" <=> image[q][u] = "none")
  BY <1>5, <1>7
<1>9. /\ clashed \subseteq clashed' /\ clashed' \subseteq Products
      /\ p \notin clashed' =>
            \A d \in ImageCalls : ~(/\ upload[d] # NoUpload /\ upload[d].product = p
                                    /\ upload[d].primary /\ upload[d].pc = "insert")
  BY <1>0, <1>2 DEF UnsetPrimary
<1>10. ImageTypes' /\ ImagesHaveFiles'
  BY <1>0, <1>1, <1>3, <1>7, <1>8, <1>9 DEF ImageTypes, ImagesHaveFiles
<1>11. ASSUME NEW d \in ImageCalls PROVE UploadFits(d)'
  <2>1. CASE d = c
    BY <1>0, <1>1, <1>3, <2>1 DEF UploadFits
  <2>2. CASE d # c
    <3>1. upload'[d] = upload[d] /\ UploadFits(d)
      BY <1>0, <1>3, <2>2
    <3>2. upload[d].pc = "file" =>
             /\ upload[d].url \in Urls
             /\ \A e \in ImageCalls \ {d} : upload'[e] # NoUpload => upload'[e].url # upload[d].url
      <4> SUFFICES ASSUME upload[d].pc = "file"
                   PROVE  /\ upload[d].url \in Urls
                          /\ \A e \in ImageCalls \ {d} : upload'[e] # NoUpload => upload'[e].url # upload[d].url
        OBVIOUS
      <4>1. upload[d] # NoUpload
        BY DEF NoUpload
      <4>2. upload[d].url \in Urls
        BY <1>0, <4>1, UploadTyped
      <4> QED
        BY <1>1, <1>3, <2>2, <3>1, <4>2 DEF UploadFits
    <3> QED
      BY <1>1, <1>8, <3>1, <3>2 DEF UploadFits
  <2> QED
    BY <2>1, <2>2
<1>12. ASSUME NEW q \in Products \ clashed' PROVE Led(q)'
  <2>0. Led(q)
    BY <1>9 DEF ImageInv
  <2>1. CASE q = p
    <3>1. Primaries(q)' = {}
      BY <1>5, <1>7, <2>1 DEF Primaries
    <3>2. Replacing(q)' = {c}
      <4>1. \A d \in ImageCalls \ {c} : d \notin Replacing(q)'
        BY <1>3, <1>9, <2>1 DEF Replacing, NoUpload
      <4> QED
        BY <1>3, <2>1, <4>1 DEF Replacing
    <3> QED
      BY <3>1, <3>2 DEF Led
  <2>2. CASE q # p
    <3>1. Primaries(q)' = Primaries(q)
      BY <1>7, <2>2 DEF Primaries
    <3>2. Replacing(q)' = Replacing(q)
      BY <1>1, <1>2, <1>3, <2>2 DEF Replacing
    <3> QED
      BY <1>1, <2>0, <3>1, <3>2 DEF Led
  <2> QED
    BY <2>1, <2>2
<1> QED
  BY <1>10, <1>11, <1>12 DEF ImageInv

\* A request that ends leaves the others as they fitted.
LEMMA EndKeepsFits ==
    ASSUME ImageInv, NEW c \in ImageCalls, upload' = [upload EXCEPT ![c] = NoUpload], written' = written,
           \A d \in ImageCalls \ {c} : upload[d].pc = "file" =>
              \A q \in Products : image'[q][upload[d].url] = "none"
    PROVE  /\ upload' \in [ImageCalls -> Uploads \cup {NoUpload}]
           /\ \A d \in ImageCalls : UploadFits(d)'
<1>0. /\ upload \in [ImageCalls -> Uploads \cup {NoUpload}]
      /\ \A d \in ImageCalls : UploadFits(d)
  BY DEF ImageInv, ImageTypes
<1>1. upload'[c] = NoUpload /\ \A d \in ImageCalls \ {c} : upload'[d] = upload[d]
  BY <1>0
<1>2. UploadFits(c)'
  BY <1>1 DEF UploadFits, NoUpload
<1>3. ASSUME NEW d \in ImageCalls \ {c} PROVE UploadFits(d)'
  <2>1. UploadFits(d) /\ upload'[d] = upload[d]
    BY <1>0, <1>1
  <2>2. upload[d].pc = "file" =>
           \A e \in ImageCalls \ {d} : upload'[e] # NoUpload => upload'[e].url # upload[d].url
    BY <1>1, <2>1 DEF UploadFits
  <2> QED
    BY <2>1, <2>2 DEF UploadFits
<1> QED
  BY <1>0, <1>2, <1>3

LEMMA ImageFailsKeeps ==
    ASSUME ImageInv, NEW c \in ImageCalls, ImageFails(c) PROVE ImageInv'
<1>0. /\ ImageTypes /\ (\A d \in ImageCalls : UploadFits(d)) /\ ImagesHaveFiles
      /\ upload[c] # NoUpload /\ upload' = [upload EXCEPT ![c] = NoUpload]
      /\ UNCHANGED <<image, written, lead>>
  BY DEF ImageInv, ImageFails, ImageEnds
<1>1. /\ upload' \in [ImageCalls -> Uploads \cup {NoUpload}]
      /\ \A d \in ImageCalls : UploadFits(d)'
  <2>1. \A d \in ImageCalls \ {c} : upload[d].pc = "file" =>
           \A q \in Products : image'[q][upload[d].url] = "none"
    BY <1>0 DEF UploadFits
  <2> QED
    BY <1>0, <2>1, EndKeepsFits
<1>2. /\ clashed \subseteq clashed' /\ clashed' \subseteq Products
      /\ upload[c].pc = "insert" /\ upload[c].primary = TRUE => upload[c].product \in clashed'
  BY <1>0, UploadTyped DEF ImageFails, Unreplaced, ImageTypes
<1>3. ASSUME NEW q \in Products \ clashed' PROVE Led(q)'
  <2>1. Led(q) /\ Primaries(q)' = Primaries(q) /\ UNCHANGED lead
    BY <1>0, <1>2 DEF ImageInv, Primaries
  <2>2. Replacing(q)' = Replacing(q)
    <3>1. c \notin Replacing(q)
      BY <1>2 DEF Replacing
    <3>2. upload'[c].pc = "idle" /\ \A d \in ImageCalls \ {c} : upload'[d] = upload[d]
      BY <1>0 DEF ImageTypes, NoUpload
    <3> QED
      BY <3>1, <3>2 DEF Replacing
  <2> QED
    BY <2>1, <2>2 DEF Led
<1> QED
  BY <1>0, <1>1, <1>2, <1>3 DEF ImageInv, ImageTypes, ImagesHaveFiles

LEMMA InsertImageKeeps ==
    ASSUME ImageInv, NEW c \in ImageCalls, InsertImage(c) PROVE ImageInv'
<1>0. /\ ImageTypes /\ image \in [Products -> [Urls -> ImageStates]] /\ lead \in [Products -> Urls \cup {NoUrl}]
      /\ (\A d \in ImageCalls : UploadFits(d)) /\ ImagesHaveFiles /\ clashed \subseteq Products
  BY DEF ImageInv, ImageTypes
<1>1. /\ upload[c].pc = "insert" /\ upload[c] # NoUpload
      /\ upload' = [upload EXCEPT ![c] = NoUpload] /\ UNCHANGED written
  BY DEF InsertImage, ImageEnds, NoUpload
<1>2. PICK p \in Products, u \in Urls, primary \in BOOLEAN :
         p = upload[c].product /\ u = upload[c].url /\ primary = upload[c].primary
  BY <1>0, <1>1, UploadTyped
<1>3. upload'[c].pc = "idle" /\ \A d \in ImageCalls \ {c} : upload'[d] = upload[d]
  BY <1>0, <1>1 DEF ImageTypes, NoUpload
<1>4. CASE p \in listed /\ image[p][u] = "none"
  <2>1. PICK s : s = IF primary THEN "primary" ELSE "plain"
    OBVIOUS
  <2>2. /\ image' = [image EXCEPT ![p][u] = s] /\ UNCHANGED clashed
        /\ lead' = IF primary THEN [lead EXCEPT ![p] = u] ELSE lead
    BY <1>2, <1>4, <2>1 DEF InsertImage
  <2>3. /\ image' \in [Products -> [Urls -> ImageStates]] /\ image'[p][u] = s
        /\ \A q \in Products, v \in Urls : q # p \/ v # u => image'[q][v] = image[q][v]
    BY <1>0, <2>1, <2>2 DEF ImageStates
  <2>4. lead' \in [Products -> Urls \cup {NoUrl}]
    BY <1>0, <2>2
  <2>5. ASSUME NEW d \in ImageCalls \ {c}, upload[d].pc = "file"
        PROVE  \A q \in Products : image'[q][upload[d].url] = "none"
    <3>1. upload[d] # NoUpload
      BY <2>5 DEF NoUpload
    <3>2. upload[d].url \in Urls /\ upload[d].url # u /\ \A q \in Products : image[q][upload[d].url] = "none"
      BY <1>0, <1>1, <1>2, <2>5, <3>1, UploadTyped DEF UploadFits
    <3> QED
      BY <2>3, <3>2
  <2>6. /\ upload' \in [ImageCalls -> Uploads \cup {NoUpload}]
        /\ \A d \in ImageCalls : UploadFits(d)'
    BY <1>1, <2>5, EndKeepsFits
  <2>7. ImagesHaveFiles'
    <3>1. written[u] \in {0, Variants}
      BY <1>0, <1>1, <1>2 DEF UploadFits
    <3> QED
      BY <1>0, <1>1, <2>3, <3>1 DEF ImagesHaveFiles
  <2>8. ASSUME NEW q \in Products \ clashed' PROVE Led(q)'
    <3>0. Led(q)
      BY <2>2 DEF ImageInv
    <3>1. CASE q = p /\ primary = TRUE
      <4>1. c \in Replacing(q)
        BY <1>1, <1>2, <3>1 DEF Replacing
      <4>2. Primaries(q) = {} /\ Replacing(q) = {c}
        BY <3>0, <4>1 DEF Led
      <4>3. Replacing(q)' = {}
        BY <1>3, <4>2 DEF Replacing
      <4>4. Primaries(q)' = {u}
        BY <2>1, <2>3, <3>1, <4>2 DEF Primaries
      <4>5. lead'[q] = u /\ u # NoUrl
        BY <1>0, <2>2, <3>1, CatalogueAssumption
      <4> QED
        BY <4>3, <4>4, <4>5 DEF Led
    <3>2. CASE ~(q = p /\ primary = TRUE)
      <4>1. c \notin Replacing(q)
        BY <1>2, <3>2 DEF Replacing
      <4>2. Replacing(q)' = Replacing(q)
        BY <1>3, <4>1 DEF Replacing
      <4>3. Primaries(q)' = Primaries(q)
        BY <1>4, <2>1, <2>3, <3>2 DEF Primaries
      <4>4. lead'[q] = lead[q]
        BY <1>0, <2>2, <3>2
      <4> QED
        BY <3>0, <4>2, <4>3, <4>4 DEF Led
    <3> QED
      BY <3>1, <3>2
  <2> QED
    BY <1>0, <1>1, <2>2, <2>3, <2>4, <2>6, <2>7, <2>8 DEF ImageInv, ImageTypes
<1>5. CASE ~(p \in listed /\ image[p][u] = "none")
  <2>1. UNCHANGED <<image, lead>> /\ clashed' = Unreplaced(c)
    BY <1>2, <1>5 DEF InsertImage
  <2>2. clashed \subseteq clashed' /\ clashed' \subseteq Products /\ (primary = TRUE => p \in clashed')
    BY <1>0, <1>2, <2>1 DEF Unreplaced
  <2>3. /\ upload' \in [ImageCalls -> Uploads \cup {NoUpload}]
        /\ \A d \in ImageCalls : UploadFits(d)'
    <3>1. \A d \in ImageCalls \ {c} : upload[d].pc = "file" =>
             \A q \in Products : image'[q][upload[d].url] = "none"
      BY <1>0, <2>1 DEF UploadFits
    <3> QED
      BY <1>1, <3>1, EndKeepsFits
  <2>4. ASSUME NEW q \in Products \ clashed' PROVE Led(q)'
    <3>1. Led(q) /\ Primaries(q)' = Primaries(q)
      BY <2>1, <2>2 DEF ImageInv, Primaries
    <3>2. Replacing(q)' = Replacing(q)
      <4>1. c \notin Replacing(q)
        BY <1>2, <2>2 DEF Replacing
      <4> QED
        BY <1>3, <4>1 DEF Replacing
    <3> QED
      BY <2>1, <3>1, <3>2 DEF Led
  <2> QED
    BY <1>0, <1>1, <2>1, <2>2, <2>3, <2>4 DEF ImageInv, ImageTypes, ImagesHaveFiles
<1> QED
  BY <1>4, <1>5

LEMMA DeleteImageKeeps ==
    ASSUME ImageInv, NEW p \in Products, NEW u \in Urls, DeleteImage(p, u) PROVE ImageInv'
<1>0. /\ ImageTypes /\ image \in [Products -> [Urls -> ImageStates]] /\ lead \in [Products -> Urls \cup {NoUrl}]
      /\ (\A d \in ImageCalls : UploadFits(d)) /\ ImagesHaveFiles
  BY DEF ImageInv, ImageTypes
<1>1. /\ image' = [image EXCEPT ![p][u] = "none"] /\ UNCHANGED <<written, upload, clashed>>
      /\ lead' = IF lead[p] = u THEN [lead EXCEPT ![p] = NoUrl] ELSE lead
  BY DEF DeleteImage
<1>2. /\ image' \in [Products -> [Urls -> ImageStates]] /\ image'[p][u] = "none"
      /\ \A q \in Products, v \in Urls : q # p \/ v # u => image'[q][v] = image[q][v]
  BY <1>0, <1>1 DEF ImageStates
<1>3. lead' \in [Products -> Urls \cup {NoUrl}]
  BY <1>0, <1>1
<1>4. ImageTypes' /\ ImagesHaveFiles'
  BY <1>0, <1>1, <1>2, <1>3 DEF ImageTypes, ImagesHaveFiles
<1>5. ASSUME NEW d \in ImageCalls PROVE UploadFits(d)'
  <2>1. UploadFits(d)
    BY <1>0
  <2>2. upload[d].pc = "file" => \A q \in Products : image'[q][upload[d].url] = "none"
    <3> SUFFICES ASSUME upload[d].pc = "file" PROVE \A q \in Products : image'[q][upload[d].url] = "none"
      OBVIOUS
    <3>1. upload[d] # NoUpload
      BY DEF NoUpload
    <3>2. upload[d].url \in Urls
      BY <1>0, <3>1, UploadTyped
    <3> QED
      BY <1>2, <2>1, <3>2 DEF UploadFits
  <2> QED
    BY <1>1, <2>1, <2>2 DEF UploadFits
<1>6. ASSUME NEW q \in Products \ clashed' PROVE Led(q)'
  <2>1. Led(q) /\ Replacing(q)' = Replacing(q)
    BY <1>1 DEF ImageInv, Replacing
  <2>2. Primaries(q)' = IF q = p THEN Primaries(q) \ {u} ELSE Primaries(q)
    BY <1>2 DEF Primaries
  <2>3. lead'[q] = IF q = p /\ lead[p] = u THEN NoUrl ELSE lead[q]
    BY <1>0, <1>1
  <2>4. CASE Primaries(q) = {lead[q]} \ {NoUrl}
    <3>1. Primaries(q)' = {lead'[q]} \ {NoUrl}
      BY <2>2, <2>3, <2>4
    <3> QED
      BY <2>1, <2>2, <2>4, <3>1 DEF Led
  <2>5. CASE Primaries(q) # {lead[q]} \ {NoUrl}
    BY <2>1, <2>2, <2>5 DEF Led
  <2> QED
    BY <2>4, <2>5
<1> QED
  BY <1>4, <1>5, <1>6 DEF ImageInv

\* Every step of the catalogue.
LEMMA CatalogueSteps == CatalogueInv /\ [CatalogueNext]_catalogueVars => CatalogueInv'
<1> SUFFICES ASSUME CatalogueInv, [CatalogueNext]_catalogueVars PROVE CatalogueInv'
  OBVIOUS
<1>0. StockInv /\ ImageInv /\ CountersFit
  BY DEF CatalogueInv
<1>1. ASSUME OrderPlaced \/ OrderAdvances \/ \E o \in Orders, s \in Released : OrderDies(o, s)
      PROVE  CatalogueInv'
  <2>1. UNCHANGED imageSide /\ Goes
    BY <1>1 DEF OrderPlaced, OrderAdvances, OrderDies
  <2> QED
    BY <1>0, <1>1, <2>1, OrderKeepsStock, ImagesStay, CountersStay DEF CatalogueInv
<1>2. ASSUME \/ \E p \in Products : \/ \E n \in 1..MaxQty : CreateProduct(p, n)
                                    \/ \E a \in Forms : BeginEdit(a, p)
                                    \/ Delete(p)
             \/ \E a \in Forms, n \in 0..(MaxQty + 1) : Update(a, n)
      PROVE  CatalogueInv'
  <2>1. UNCHANGED imageSide /\ (Begins \/ Goes)
    BY <1>2 DEF CreateProduct, BeginEdit, Delete, Update, imageSide
  <2> QED
    BY <1>0, <1>2, <2>1, AdminKeepsStock, ImagesStay, CountersStay DEF CatalogueInv
<1>3. ASSUME NEW c \in ImageCalls, NEW p \in Products, NEW u \in Urls, NEW primary \in BOOLEAN,
             AddImage(c, p, u, primary) \/ UploadImage(c, p, u, primary)
      PROVE  CatalogueInv'
  <2>1. UNCHANGED <<ledgerVars, stockSide>> /\ Begins
    BY <1>3 DEF AddImage, UploadImage, ImageStarts
  <2>2. ImageInv'
    BY <1>0, <1>3, AddImageKeeps, UploadImageKeeps
  <2> QED
    BY <1>0, <2>1, <2>2, StockStays, CountersStay DEF CatalogueInv
<1>4. ASSUME NEW c \in ImageCalls, Process(c) \/ UnsetPrimary(c) \/ InsertImage(c) \/ ImageFails(c)
      PROVE  CatalogueInv'
  <2>1. UNCHANGED <<ledgerVars, stockSide>> /\ (Goes \/ Faults)
    BY <1>4 DEF Process, UnsetPrimary, InsertImage, ImageFails
  <2>2. ImageInv'
    BY <1>0, <1>4, ProcessKeeps, UnsetPrimaryKeeps, InsertImageKeeps, ImageFailsKeeps
  <2> QED
    BY <1>0, <2>1, <2>2, StockStays, CountersStay DEF CatalogueInv
<1>5. ASSUME NEW p \in Products, NEW u \in Urls, DeleteImage(p, u) PROVE CatalogueInv'
  <2>1. UNCHANGED <<ledgerVars, stockSide>> /\ Begins
    BY <1>5 DEF DeleteImage
  <2>2. ImageInv'
    BY <1>0, <1>5, DeleteImageKeeps
  <2> QED
    BY <1>0, <2>1, <2>2, StockStays, CountersStay DEF CatalogueInv
<1>6. CASE UNCHANGED catalogueVars
  <2>1. UNCHANGED <<ledgerVars, stockSide>> /\ UNCHANGED imageSide /\ Goes
    BY <1>6 DEF catalogueVars, stockSide, imageSide, Goes
  <2> QED
    BY <1>0, <2>1, StockStays, ImagesStay, CountersStay DEF CatalogueInv
<1> QED
  BY <1>1, <1>2, <1>3, <1>4, <1>5, <1>6 DEF CatalogueNext

LEMMA CatalogueStart == CatalogueInit => CatalogueInv
<1> SUFFICES ASSUME CatalogueInit PROVE CatalogueInv
  OBVIOUS
<1>1. /\ Init /\ listed = {p \in Products : InitialStock[p] > 0}
      /\ form = [a \in Forms |-> NoForm]
      /\ image = [p \in Products |-> [u \in Urls |-> "none"]]
      /\ written = [u \in Urls |-> 0]
      /\ upload = [c \in ImageCalls |-> NoUpload]
      /\ owned = InitialStock /\ overwritten = {}
      /\ lead = [p \in Products |-> NoUrl] /\ clashed = {}
      /\ changes = 0 /\ catalogueFaults = 0
  BY DEF CatalogueInit
<1>2. StockInv
  <2>1. LedgerTypeOK /\ stock = InitialStock
    BY <1>1, LedgerAssumption DEF Init, LedgerTypeOK, Baskets
  <2>2. \A p \in Products : Cardinality(HeldUnits(p)) = 0
    <3>1. \A p \in Products : HeldUnits(p) = {}
      BY <1>1 DEF Init, HeldUnits
    <3> QED
      BY <3>1, FS_EmptySet
  <2> QED
    BY <1>1, <2>1, <2>2, LedgerAssumption DEF StockInv, Accounted
<1>3. ImageTypes /\ ImagesHaveFiles
  BY <1>1 DEF ImageTypes, ImagesHaveFiles, ImageStates, Variants
<1>4. \A c \in ImageCalls : UploadFits(c)
  BY <1>1 DEF UploadFits, NoUpload
<1>5. \A p \in Products : Led(p)
  <2>1. \A p \in Products : Replacing(p) = {} /\ Primaries(p) = {} /\ lead[p] = NoUrl
    BY <1>1 DEF Replacing, Primaries, NoUpload
  <2> QED
    BY <2>1 DEF Led
<1> QED
  BY <1>1, <1>2, <1>3, <1>4, <1>5, CatalogueAssumption DEF CatalogueInv, ImageInv, CountersFit

LEMMA CatalogueInvariant == CatalogueSpec => []CatalogueInv
BY CatalogueStart, CatalogueSteps, PTL DEF CatalogueSpec

\* Whatever admins edit, create and delete while orders are placed, cancelled and
\* refunded: a listed product's stock and the units orders hold of it are what the shop
\* started with and its admins added, unless a form was saved over a stock it did not
\* show (Update, Delete and Create of product/repository.go against every restock loop).
THEOREM StockAlwaysAccounted == CatalogueSpec => []StockAccounted
<1>1. CatalogueInv => StockAccounted
  BY DEF CatalogueInv, StockInv, Accounted, StockAccounted
<1> QED
  BY <1>1, CatalogueInvariant, PTL

\* Any number of image requests, one of their two statements at a time: what a product
\* shows first is the image asked for last, and every row an upload wrote has its files
\* (AddImage, UploadImage, AddImageWithVariants).
THEOREM ImagesAlwaysAsAsked == CatalogueSpec => []ImagesAsAsked
<1>1. CatalogueInv => ImagesAsAsked
  <2> SUFFICES ASSUME CatalogueInv PROVE ImagesAsAsked
    OBVIOUS
  <2>1. ASSUME NEW p \in listed \ clashed, \A c \in ImageCalls : upload[c] = NoUpload \/ upload[c].product # p
        PROVE  Primaries(p) = {lead[p]} \ {NoUrl}
    <3>1. Led(p)
      BY DEF CatalogueInv, StockInv, ImageInv
    <3>2. Replacing(p) = {}
      BY <2>1 DEF Replacing, NoUpload
    <3> QED
      BY <3>1, <3>2 DEF Led
  <2> QED
    BY <2>1 DEF CatalogueInv, ImageInv, ImagesAsAsked, PrimaryAsAsked, Primaries
<1> QED
  BY <1>1, CatalogueInvariant, PTL

-----------------------------------------------------------------------------
(* All of them                                                             *)

\* Every step of every component of the storefront keeps every variable in its type
\* (the tables behind cart, product, category, review, history seeder and delivery).
THEOREM ShopTypesCorrect ==
    /\ CartSpec /\ CatalogueSpec /\ CategorySpec
    /\ ReviewSpec /\ SeedingSpec /\ DeliverySpec
    => []ShopTypeOK
<1>1. CatalogueInv => CatalogueTypeOK
  BY DEF CatalogueInv, StockInv, ImageInv, ImageTypes, CountersFit, CatalogueTypeOK
<1>2. /\ CartInv /\ CatalogueInv /\ CategoryInv /\ ReviewInv /\ SeedingInv /\ DeliveryInv
      => ShopTypeOK
  BY <1>1 DEF ShopTypeOK, CartInv, CategoryInv, ReviewInv, SeedingInv, DeliveryInv
<1> QED
  BY <1>2, CartInvariant, CatalogueInvariant, CategoryInvariant, ReviewInvariant, SeedingInvariant,
     DeliveryInvariant, PTL
=============================================================================
