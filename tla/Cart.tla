-------------------------------- MODULE Cart --------------------------------
(* A customer's two carts, the guest one of the browser's cookie and the     *)
(* user one, and every request that touches them: editing lines, merging the *)
(* guest cart into the user's, and checkout's reading and emptying           *)
(* (internal/cart, internal/orders).  One step per SQL statement or          *)
(* transaction.  A cart row without lines is not told from no row.           *)
EXTENDS Integers, FiniteSets

CONSTANTS Goods,         \* product ids
          Shelf,         \* stock_quantity of each, at most
          CartCalls,     \* requests in flight at once
          MaxEdits,      \* bound: requests begun, changes of stock
          MaxCartFaults, \* bound: failed statements
          NoGood

ASSUME CartAssumption ==
    /\ IsFiniteSet(Goods) /\ NoGood \notin Goods
    /\ Shelf \in Nat /\ MaxEdits \in Nat /\ MaxCartFaults \in Nat

VARIABLES lines,    \* cart_items of each owner's cart: quantity, 0 for no line
          session,  \* the guest session of the cookie
          gen,      \* which cart row of that session this is
          onShelf,  \* products.stock_quantity
          ccall,    \* requests in flight
          wanted,   \* ghost: units the customer has asked for and not yet ordered or dropped
          raced,    \* ghost: two requests met on the same lines (see UnitsAccounted)
          crowded,  \* ghost: a line changed between an add's check and its write
          edits, cfaults

cartVars == <<lines, session, gen, onShelf, ccall, wanted, raced, crowded, edits, cfaults>>

Owners == {"user", "guest"}
Quantities == 1..Shelf
Counts == [Goods -> Nat]
Nothing == [p \in Goods |-> 0]
CartSteps == {"idle", "resolve", "check", "add", "update", "remove", "clear", "order", "load",
              "discard", "status", "existing", "move", "delete", "answer"}
\* snap and have are the lines read of the cart to be merged or ordered and of the
\* user's; limit the stock read; todo the lines still to be copied.
CartRequests == [pc : CartSteps, by : Owners, item : Goods \cup {NoGood}, qty : 0..Shelf,
                 session : Nat, gen : Nat, limit : Counts, snap : Counts, have : Counts,
                 todo : SUBSET Goods, ask : BOOLEAN]
NoCartCall == [pc |-> "idle", by |-> "user", item |-> NoGood, qty |-> 0, session |-> 0, gen |-> 0,
               limit |-> Nothing, snap |-> Nothing, have |-> Nothing, todo |-> {}, ask |-> FALSE]

CartInit ==
    /\ lines = [o \in Owners |-> Nothing]
    /\ session = 0 /\ gen = 0
    /\ onShelf = [p \in Goods |-> Shelf]
    /\ ccall = [c \in CartCalls |-> NoCartCall]
    /\ wanted = Nothing /\ raced = FALSE /\ crowded = FALSE
    /\ edits = 0 /\ cfaults = 0

CartStep(c, r) == ccall' = [ccall EXCEPT ![c] = r]
Ends(c) == CartStep(c, NoCartCall)
Starts(c, r) == /\ ccall[c].pc = "idle" /\ edits < MaxEdits /\ edits' = edits + 1
                /\ CartStep(c, [r EXCEPT !.session = session, !.gen = gen])
Minimum(a, b) == IF a < b THEN a ELSE b

\* The row a request has in hand is still the browser's cart.
Current(c) == ccall[c].by = "user" \/ (ccall[c].session = session /\ ccall[c].gen = gen)
\* Its row has been deleted: a foreign key fails, or no line is found.
Gone(c) == ccall[c].by = "guest" /\ ccall[c].session = session /\ ccall[c].gen # gen
Merging == {c \in CartCalls : ccall[c].pc \in {"existing", "move", "delete", "discard"}}
\* Only what is read of product p.
Just(p, n) == [Nothing EXCEPT ![p] = n]

\* Line p of c's cart becomes n units, as the customer asked.  A guest line that
\* changes under a merge, or in a cart the browser no longer has, is a race.
Write(c, p, n) ==
    LET o == ccall[c].by IN
    IF Current(c)
    THEN /\ lines' = [lines EXCEPT ![o][p] = n]
         /\ wanted' = [wanted EXCEPT ![p] = (@ + n) - lines[o][p]]
         /\ raced' = (raced \/ (o = "guest" /\ Merging # {}))
    ELSE raced' = TRUE /\ UNCHANGED <<lines, wanted>>

-----------------------------------------------------------------------------
(* Editing lines                                                           *)

\* GetByID: enough stock for what is being added.
AddItem(c, o, p, q) ==
    /\ q <= onShelf[p]
    /\ Starts(c, [NoCartCall EXCEPT !.pc = "resolve", !.by = o, !.item = p, !.qty = q,
                                    !.limit = Just(p, onShelf[p])])
    /\ UNCHANGED <<lines, session, gen, onShelf, wanted, raced, crowded, cfaults>>

\* GetOrCreateByUser, GetOrCreateByGuest.
resolveCart(c) ==
    /\ ccall[c].pc = "resolve"
    /\ CartStep(c, [ccall[c] EXCEPT !.pc = "check",
                        !.gen = IF ccall[c].session = session THEN gen ELSE @])
    /\ UNCHANGED <<lines, session, gen, onShelf, wanted, raced, crowded, edits, cfaults>>

\* The line as it is and the units to be added fit the stock read before.
AddCheck(c) ==
    LET r == ccall[c] IN
    /\ r.pc = "check"
    /\ IF Current(c) /\ lines[r.by][r.item] + r.qty > r.limit[r.item] THEN Ends(c)
       ELSE CartStep(c, [r EXCEPT !.pc = "add", !.limit = Nothing,
           !.have = IF Current(c) THEN Just(r.item, lines[r.by][r.item]) ELSE Nothing])
    /\ UNCHANGED <<lines, session, gen, onShelf, wanted, raced, crowded, edits, cfaults>>

\* Mutant: the upsert writes the sum computed from the line read before.
AddWrite_Overwrites(c) ==
    LET r == ccall[c] IN
    /\ r.pc = "add" /\ Ends(c)
    /\ IF Gone(c) THEN UNCHANGED <<lines, wanted, raced>>
       ELSE /\ lines' = [lines EXCEPT ![r.by][r.item] = r.have[r.item] + r.qty]
            /\ wanted' = [wanted EXCEPT ![r.item] = @ + r.qty]
            /\ UNCHANGED raced
    /\ crowded' = (crowded \/ (Current(c) /\ lines[r.by][r.item] # r.have[r.item]))
    /\ UNCHANGED <<session, gen, onShelf, edits, cfaults>>

\* INSERT ... ON CONFLICT DO UPDATE SET quantity = quantity + EXCLUDED.quantity.
AddWrite(c) ==
    LET r == ccall[c] IN
    /\ r.pc = "add" /\ Ends(c)
    /\ IF Gone(c) THEN UNCHANGED <<lines, wanted, raced>>
       ELSE Write(c, r.item, lines[r.by][r.item] + r.qty)
    /\ crowded' = (crowded \/ (Current(c) /\ lines[r.by][r.item] # r.have[r.item]))
    /\ UNCHANGED <<session, gen, onShelf, edits, cfaults>>

\* The stock test before resolveCart is made again under the product's lock.
UpdateItem(c, o, p, q) ==
    /\ q <= onShelf[p]
    /\ Starts(c, [NoCartCall EXCEPT !.pc = "update", !.by = o, !.item = p, !.qty = q])
    /\ UNCHANGED <<lines, session, gen, onShelf, wanted, raced, crowded, cfaults>>

UpdateItemQuantity(c) ==
    LET r == ccall[c] IN
    /\ r.pc = "update" /\ Ends(c)
    /\ IF Current(c) /\ r.qty <= onShelf[r.item] /\ lines[r.by][r.item] > 0
       THEN Write(c, r.item, r.qty) ELSE UNCHANGED <<lines, wanted, raced>>
    /\ UNCHANGED <<session, gen, onShelf, crowded, edits, cfaults>>

RemoveItem(c, o, p) ==
    /\ Starts(c, [NoCartCall EXCEPT !.pc = "remove", !.by = o, !.item = p])
    /\ UNCHANGED <<lines, session, gen, onShelf, wanted, raced, crowded, cfaults>>

RemoveWrite(c) ==
    LET r == ccall[c] IN
    /\ r.pc = "remove" /\ Ends(c)
    /\ IF Current(c) /\ lines[r.by][r.item] > 0 THEN Write(c, r.item, 0)
       ELSE UNCHANGED <<lines, wanted, raced>>
    /\ UNCHANGED <<session, gen, onShelf, crowded, edits, cfaults>>

\* o's cart loses all its lines, as a request that knew it as seen intended.
Empty(o, seen) ==
    /\ lines' = [lines EXCEPT ![o] = Nothing]
    /\ wanted' = [p \in Goods |-> wanted[p] - lines[o][p]]
    /\ raced' = (raced \/ lines[o] # seen \/ (o = "guest" /\ Merging # {}))

ClearCart(c, o) ==
    /\ Starts(c, [NoCartCall EXCEPT !.pc = "clear", !.by = o])
    /\ UNCHANGED <<lines, session, gen, onShelf, wanted, raced, crowded, cfaults>>

ClearWrite(c) ==
    /\ ccall[c].pc = "clear" /\ Ends(c)
    /\ IF Current(c) THEN Empty(ccall[c].by, lines[ccall[c].by]) ELSE UNCHANGED <<lines, wanted, raced>>
    /\ UNCHANGED <<session, gen, onShelf, crowded, edits, cfaults>>

-----------------------------------------------------------------------------
(* Checkout                                                                *)

\* orders.checkout reads the cart; its transaction orders those lines and then
\* deletes whatever the cart holds (DeleteCartItems).
CheckoutReads(c, o) ==
    /\ lines[o] # Nothing
    /\ Starts(c, [NoCartCall EXCEPT !.pc = "order", !.by = o, !.snap = lines[o]])
    /\ UNCHANGED <<lines, session, gen, onShelf, wanted, raced, crowded, cfaults>>

\* Mutant: the decrement loses its WHERE stock_quantity >= $2.
CheckoutCommits_Unchecked(c) ==
    LET r == ccall[c] IN
    /\ r.pc = "order" /\ Ends(c)
    /\ onShelf' = [p \in Goods |-> onShelf[p] - r.snap[p]]
    /\ IF Current(c) THEN Empty(r.by, r.snap) ELSE raced' = TRUE /\ UNCHANGED <<lines, wanted>>
    /\ UNCHANGED <<session, gen, crowded, edits, cfaults>>

\* All of the order's lines fit the stock, or the transaction rolls back.
CheckoutCommits(c) ==
    LET r == ccall[c] IN
    /\ r.pc = "order" /\ Ends(c)
    /\ \/ /\ \A p \in Goods : r.snap[p] <= onShelf[p]
          /\ onShelf' = [p \in Goods |-> onShelf[p] - r.snap[p]]
          /\ IF Current(c) THEN Empty(r.by, r.snap) ELSE raced' = TRUE /\ UNCHANGED <<lines, wanted>>
       \/ /\ \E p \in Goods : r.snap[p] > onShelf[p]
          /\ UNCHANGED <<lines, wanted, raced, onShelf>>
    /\ UNCHANGED <<session, gen, crowded, edits, cfaults>>

-----------------------------------------------------------------------------
(* Merging                                                                 *)

\* GET merge-status (ask) or POST merge: look the guest cart up.
Merge(c, strategy) ==
    /\ Starts(c, [NoCartCall EXCEPT !.pc = IF strategy = "user" THEN "discard" ELSE "load",
                                    !.by = "guest", !.ask = (strategy = "ask")])
    /\ raced' = (raced \/ \E d \in CartCalls : ccall[d].pc \in {"load", "status"} \/ d \in Merging)
    /\ UNCHANGED <<lines, session, gen, onShelf, wanted, crowded, cfaults>>

\* The guest's lines with their stock.  None: merge discards the cart, and
\* merge-status only has its cookie cleared.
MergeLoad(c) ==
    LET r == ccall[c]
        found == IF Current(c) THEN lines["guest"] ELSE Nothing IN
    /\ r.pc = "load"
    /\ CartStep(c, [r EXCEPT !.snap = found, !.limit = onShelf,
           !.pc = IF found # Nothing THEN IF r.ask THEN "status" ELSE "existing"
                  ELSE IF r.ask THEN "answer" ELSE "discard"])
    /\ UNCHANGED <<lines, session, gen, onShelf, wanted, raced, crowded, edits, cfaults>>

\* Both carts have lines: the customer is asked and the cookie stays.
MergeStatus(c) ==
    /\ ccall[c].pc = "status"
    /\ IF lines["user"] # Nothing THEN Ends(c) ELSE CartStep(c, [ccall[c] EXCEPT !.pc = "existing"])
    /\ raced' = (raced \/ (lines["user"] = Nothing /\ (lines["guest"] # ccall[c].snap \/ ~Current(c))))
    /\ UNCHANGED <<lines, session, gen, onShelf, wanted, crowded, edits, cfaults>>

\* transferItems: the user's lines.
MergeExisting(c) ==
    LET r == ccall[c] IN
    /\ r.pc = "existing"
    /\ CartStep(c, [r EXCEPT !.pc = "move", !.have = lines["user"],
                             !.todo = {p \in Goods : r.snap[p] > 0}])
    /\ UNCHANGED <<lines, session, gen, onShelf, wanted, raced, crowded, edits, cfaults>>

\* Mutant: the room left by what the user's cart holds is forgotten.
Room_IgnoresCart(c, p) == Minimum(ccall[c].snap[p], ccall[c].limit[p])

\* What of guest line p fits under the stock read.
Room(c, p) ==
    LET r == ccall[c] IN
    IF r.limit[p] <= r.have[p] THEN 0 ELSE Minimum(r.snap[p], r.limit[p] - r.have[p])

\* One line is added to the user's cart; what does not fit is dropped.
MergeMove(c, p) ==
    LET r == ccall[c] IN
    /\ r.pc = "move" /\ p \in r.todo
    /\ lines' = [lines EXCEPT !["user"][p] = @ + Room(c, p)]
    /\ wanted' = [wanted EXCEPT ![p] = (@ + Room(c, p)) - r.snap[p]]
    /\ crowded' = (crowded \/ lines["user"][p] # r.have[p])
    /\ CartStep(c, [r EXCEPT !.todo = @ \ {p}])
    /\ UNCHANGED <<session, gen, onShelf, raced, edits, cfaults>>

\* All lines are copied.
MergeCopied(c) ==
    /\ ccall[c].pc = "move" /\ ccall[c].todo = {}
    /\ CartStep(c, [ccall[c] EXCEPT !.pc = "delete"])
    /\ UNCHANGED <<lines, session, gen, onShelf, wanted, raced, crowded, edits, cfaults>>

\* DELETE of the row; its lines go with it.
DeleteCart(c) ==
    IF Current(c) THEN lines' = [lines EXCEPT !["guest"] = Nothing] /\ gen' = gen + 1
    ELSE UNCHANGED <<lines, gen>>

MergeDelete(c) ==
    /\ ccall[c].pc = "delete"
    /\ DeleteCart(c)
    /\ CartStep(c, [ccall[c] EXCEPT !.pc = "answer"])
    /\ UNCHANGED <<session, onShelf, wanted, raced, crowded, edits, cfaults>>

\* Strategy "user", or nothing to transfer: the guest's lines are dropped.
MergeDiscard(c) ==
    /\ ccall[c].pc = "discard"
    /\ DeleteCart(c)
    /\ wanted' = IF Current(c) THEN [p \in Goods |-> wanted[p] - lines["guest"][p]] ELSE wanted
    /\ CartStep(c, [ccall[c] EXCEPT !.pc = "answer"])
    /\ UNCHANGED <<session, onShelf, raced, crowded, edits, cfaults>>

\* clearGuestCookie: whatever the old session's cart holds is out of reach.
MergeAnswer(c) ==
    /\ ccall[c].pc = "answer"
    /\ Ends(c)
    /\ IF ccall[c].session = session
       THEN /\ session' = session + 1 /\ gen' = 0
            /\ lines' = [lines EXCEPT !["guest"] = Nothing]
            /\ raced' = (raced \/ lines["guest"] # Nothing)
       ELSE UNCHANGED <<session, gen, lines, raced>>
    /\ UNCHANGED <<onShelf, wanted, crowded, edits, cfaults>>

-----------------------------------------------------------------------------

\* Other customers' checkouts and cancellations.
StockMoves(p, n) ==
    /\ n # onShelf[p] /\ edits < MaxEdits /\ edits' = edits + 1
    /\ onShelf' = [onShelf EXCEPT ![p] = n]
    /\ UNCHANGED <<lines, session, gen, ccall, wanted, raced, crowded, cfaults>>

\* A statement fails or the answer is lost: what was done stays done, and a merge
\* that has copied a line will copy it again.
CartFails(c) ==
    /\ ccall[c].pc # "idle" /\ cfaults < MaxCartFaults
    /\ cfaults' = cfaults + 1
    /\ Ends(c)
    /\ raced' = (raced \/ ccall[c].pc \in {"move", "delete"})
    /\ UNCHANGED <<lines, session, gen, onShelf, wanted, crowded, edits>>

CartNext ==
    \/ \E c \in CartCalls :
          \/ resolveCart(c) \/ AddCheck(c) \/ AddWrite(c) \/ UpdateItemQuantity(c)
          \/ RemoveWrite(c) \/ ClearWrite(c) \/ CheckoutCommits(c)
          \/ MergeLoad(c) \/ MergeStatus(c) \/ MergeExisting(c) \/ MergeCopied(c)
          \/ MergeDelete(c) \/ MergeDiscard(c) \/ MergeAnswer(c) \/ CartFails(c)
          \/ \E p \in Goods : MergeMove(c, p)
          \/ \E strategy \in {"ask", "guest", "user"} : Merge(c, strategy)
          \/ \E o \in Owners : \/ ClearCart(c, o) \/ CheckoutReads(c, o)
                               \/ \E p \in Goods : \/ RemoveItem(c, o, p)
                                                   \/ \E q \in Quantities : \/ AddItem(c, o, p, q)
                                                                            \/ UpdateItem(c, o, p, q)
    \/ \E p \in Goods, n \in 0..Shelf : StockMoves(p, n)

CartSpec == CartInit /\ [][CartNext]_cartVars

-----------------------------------------------------------------------------
(* Properties                                                              *)

CartTypeOK ==
    /\ lines \in [Owners -> Counts] /\ session \in Nat /\ gen \in Nat
    /\ onShelf \in [Goods -> 0..Shelf]
    /\ ccall \in [CartCalls -> CartRequests]
    /\ wanted \in [Goods -> Int] /\ raced \in BOOLEAN /\ crowded \in BOOLEAN
    /\ edits \in 0..MaxEdits /\ cfaults \in 0..MaxCartFaults

\* No unit appears in or disappears from a customer's carts: with no merge under
\* way, what the two hold is what was asked for and not yet ordered, dropped at
\* the stock limit, or discarded.  The exceptions are the code's: a guest line
\* edited during a merge, or its cart replaced by a new session's, a cart changed
\* between checkout's read and its transaction, two merges at once, a merge repeated
\* after it failed half-way.
\* (transferItems, AddItem, DeleteCartItems.)
UnitsAccounted ==
    (~raced /\ Merging = {}) => \A p \in Goods : lines["user"][p] + lines["guest"][p] = wanted[p]

\* However edits and a merge follow one another no line outgrows the stock there has
\* been ("capped at stock"), unless the line changed
\* between the check and the write of an add or a merge.
LinesFitStock == crowded \/ \A o \in Owners, p \in Goods : lines[o][p] <= Shelf

\* The carts hold what was asked for, and no more than there can be.
CartsAccounted == UnitsAccounted /\ LinesFitStock
=============================================================================
