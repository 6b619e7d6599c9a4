------------------------------ MODULE Delivery ------------------------------
(* Delivery options (internal/delivery) and the part of a checkout that       *)
(* depends on one: the shopper's page lists the active options, staff edit    *)
(* them, the request is validated, its address verified, which takes up to    *)
(* five seconds, and its shipping rate read, all before the transaction that  *)
(* places the order (Checkout has that).                                      *)
EXTENDS Naturals, FiniteSets

CONSTANTS Codes,         \* codes of delivery options
          BuiltIn,       \* "oneof=standard express" in CheckoutRequest
          Fees,          \* prices
          NoFee,         \* no such option, or none on the shopper's page
          Shoppers,
          MaxOptionEdits, MaxSales  \* bounds

ASSUME DeliveryAssumption ==
    /\ BuiltIn \subseteq Codes /\ NoFee \notin Fees
    /\ MaxOptionEdits \in Nat /\ MaxSales \in Nat

VARIABLES option,   \* delivery_options: price and active
          page,     \* the fees of the options on each shopper's page
          order,    \* each shopper's checkout request
          inForce,  \* ghost: the fees its option had, while active, since it began
          sold,     \* placed orders: shipping_method, shipping_cents, and inForce (ghost)
          optionEdits

deliveryVars == <<option, page, order, inForce, sold, optionEdits>>

NoOption == [price |-> NoFee, active |-> FALSE]
Option == [price : Fees, active : BOOLEAN] \cup {NoOption}
NoRequest == [pc |-> "idle", code |-> NoFee, fee |-> NoFee]

DeliveryInit ==
    /\ \E f \in Fees : option = [c \in Codes |->
           IF c \in BuiltIn THEN [price |-> f, active |-> TRUE] ELSE NoOption]
    /\ page = [s \in Shoppers |-> [c \in Codes |-> NoFee]]
    /\ order = [s \in Shoppers |-> NoRequest] /\ inForce = [s \in Shoppers |-> {}]
    /\ sold = {} /\ optionEdits = 0

FeeOf(c) == IF option[c].active THEN option[c].price ELSE NoFee

-----------------------------------------------------------------------------
(* Staff                                                                   *)

Sets(c, o) ==
    /\ optionEdits < MaxOptionEdits /\ optionEdits' = optionEdits + 1
    /\ option' = [option EXCEPT ![c] = o]
    /\ inForce' = [s \in Shoppers |->
           IF order[s].code = c /\ o.active THEN inForce[s] \cup {o.price} ELSE inForce[s]]
    /\ UNCHANGED <<page, order, sold>>

\* code is UNIQUE; active defaults to true.
CreateOption(c, f, a) == option[c] = NoOption /\ Sets(c, [price |-> f, active |-> a])

\* Every field is sent; a request without active makes the option active again.
UpdateOption(c, f, a) == option[c] # NoOption /\ Sets(c, [price |-> f, active |-> a])

DeleteOption(c) == option[c] # NoOption /\ Sets(c, NoOption)

-----------------------------------------------------------------------------
(* Shoppers                                                                *)

ListOptions(s) ==
    /\ order[s] = NoRequest
    /\ page' = [page EXCEPT ![s] = [c \in Codes |-> FeeOf(c)]]
    /\ UNCHANGED <<option, order, inForce, sold, optionEdits>>

\* The request carries the option's code, not the fee that was shown.
CheckoutSent(s, c) ==
    /\ order[s] = NoRequest /\ page[s][c] # NoFee /\ Cardinality(sold) < MaxSales
    /\ c \in BuiltIn
    /\ order' = [order EXCEPT ![s] = [pc |-> "verify", code |-> c, fee |-> NoFee]]
    /\ inForce' = [inForce EXCEPT ![s] = {FeeOf(c)} \ {NoFee}]
    /\ UNCHANGED <<option, page, sold, optionEdits>>

\* Found, or overridden by the shopper after a refusal.
VerifyAddress(s) ==
    /\ order[s].pc = "verify"
    /\ order' = [order EXCEPT ![s].pc = "rate"]
    /\ UNCHANGED <<option, page, inForce, sold, optionEdits>>

Refused(s) ==
    /\ order' = [order EXCEPT ![s] = NoRequest]
    /\ inForce' = [inForce EXCEPT ![s] = {}]

\* No match, or the geocoder cannot be asked.
AddressRefused(s) ==
    /\ order[s].pc = "verify" /\ Refused(s)
    /\ UNCHANGED <<option, page, sold, optionEdits>>

\* Mutant: an option that is not active falls back to its price in the table.
Rate_IgnoresActive(s) ==
    /\ order[s].pc = "rate"
    /\ IF option[order[s].code] = NoOption THEN Refused(s)
       ELSE /\ order' = [order EXCEPT ![s].pc = "place", ![s].fee = option[order[s].code].price]
            /\ UNCHANGED inForce
    /\ UNCHANGED <<option, page, sold, optionEdits>>

\* resolveShipping: one query for the active option's price.
Rate(s) ==
    /\ order[s].pc = "rate"
    /\ IF FeeOf(order[s].code) = NoFee THEN Refused(s)
       ELSE /\ order' = [order EXCEPT ![s].pc = "place", ![s].fee = FeeOf(order[s].code)]
            /\ UNCHANGED inForce
    /\ UNCHANGED <<option, page, sold, optionEdits>>

\* The transaction writes the code and the fee into the order.
PlaceWithFee(s) ==
    /\ order[s].pc = "place"
    /\ sold' = sold \cup {[code |-> order[s].code, fee |-> order[s].fee, fair |-> inForce[s]]}
    /\ Refused(s)
    /\ UNCHANGED <<option, page, optionEdits>>

\* Empty cart, stock or price changed, a failed statement.
PlaceFails(s) ==
    /\ order[s].pc \in {"rate", "place"} /\ Refused(s)
    /\ UNCHANGED <<option, page, sold, optionEdits>>

DeliveryNext ==
    \/ \E c \in Codes : \/ \E f \in Fees, a \in BOOLEAN : CreateOption(c, f, a) \/ UpdateOption(c, f, a)
                        \/ DeleteOption(c)
    \/ \E s \in Shoppers : \/ ListOptions(s) \/ \E c \in Codes : CheckoutSent(s, c)
                           \/ VerifyAddress(s) \/ AddressRefused(s)
                           \/ Rate(s) \/ PlaceWithFee(s) \/ PlaceFails(s)

DeliverySpec == DeliveryInit /\ [][DeliveryNext]_deliveryVars

-----------------------------------------------------------------------------
(* Properties                                                              *)

DeliveryTypeOK ==
    /\ option \in [Codes -> Option]
    /\ page \in [Shoppers -> [Codes -> Fees \cup {NoFee}]]
    /\ order \in [Shoppers -> [pc : {"idle", "verify", "rate", "place"}, code : Codes \cup {NoFee},
                               fee : Fees \cup {NoFee}]]
    /\ inForce \in [Shoppers -> SUBSET Fees]
    /\ sold \subseteq [code : Codes, fee : Fees, fair : SUBSET Fees] /\ optionEdits \in 0..MaxOptionEdits

\* However staff edit, retire or delete options while addresses are verified and
\* orders placed, an order pays a fee that its option had, while active, at some
\* moment of its request; never one that was retired before it began.
FeeOfTheMoment == \A o \in sold : o.fee \in o.fair
=============================================================================
