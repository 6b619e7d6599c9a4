------------------------------- MODULE MCShop -------------------------------
(***************************************************************************)
(* The storefront's tables in one run: carts, the product catalogue over     *)
(* the stock ledger, categories with their cache, reviews, the history        *)
(* seeder and delivery options.  A behaviour exercises one of them (part);     *)
(* the catalogue has two parts, stock and images, which meet where a product   *)
(* is deleted.                                                                *)
(***************************************************************************)
EXTENDS Shop, TLC

CONSTANTS g1, g2, c1, c2, o1, o2, f1, v1, v2, k1, k2, k3, u1, u2

MCGoods == {g1, g2}
MCCalls == {c1, c2}
MCOrders == {o1, o2}
MCForms == {f1}
MCUrls == {v1, v2}
MCCats == {k1, k2, k3}
MCAuthors == {u1, u2}
\* One product with two units on the shelf; the other id is for a product to come.
MCStock == [p \in MCGoods |-> IF p = g1 THEN 2 ELSE 0]
MCStars == {2, 5}
MCReviewed == {g1}
MCStreams == {"weekday", "weekend"}
\* The streams agree on the first order and differ on the others.
MCDrawn == [d \in MCStreams |-> [k \in OrderRows \cup CartRows |->
    IF k = <<"order", 1>> THEN MCGoods ELSE IF d = "weekday" THEN {g1} ELSE {g2}]]
MCCodes == {"standard", "overnight"}
MCBuiltIn == {"standard"}
MCFees == {5, 15}
MCDrawnReviews == [d \in MCStreams |-> {<<1, IF d = "weekday" THEN g1 ELSE g2>>}]
\* Two swaps, each in all parts at once, keep the symmetry group small.
MCSymmetry == Permutations(MCCalls) \cup
    {o1 :> o2 @@ o2 :> o1 @@ v1 :> v2 @@ v2 :> v1 @@ k2 :> k3 @@ k3 :> k2 @@ u1 :> u2 @@ u2 :> u1}

VARIABLE part

MCInit ==
    /\ CartInit /\ CatalogueInit /\ CategoryInit /\ ReviewInit /\ SeedingInit /\ DeliveryInit
    /\ part \in {"cart", "stock", "images", "categories", "reviews", "seeding", "delivery"}
    /\ part # "categories" => parent[k1] = Top
    /\ part # "delivery" => option["standard"].price = 5

MCNext ==
    /\ UNCHANGED part
    /\ \/ /\ part = "cart" /\ UNCHANGED <<catalogueVars, categoryVars, reviewVars, seedingVars, deliveryVars>>
          /\ CartNext
       \/ /\ part = "stock" /\ UNCHANGED <<imageSide, cartVars, categoryVars, reviewVars, seedingVars, deliveryVars>>
          /\ CatalogueNext
       \/ /\ part = "images" /\ UNCHANGED <<status, items, form>>
          /\ UNCHANGED <<cartVars, categoryVars, reviewVars, seedingVars, deliveryVars>>
          /\ CatalogueNext
       \/ /\ part = "categories" /\ UNCHANGED <<cartVars, catalogueVars, reviewVars, seedingVars, deliveryVars>>
          /\ CategoryNext
       \/ /\ part = "reviews" /\ UNCHANGED <<cartVars, catalogueVars, categoryVars, seedingVars, deliveryVars>>
          /\ ReviewNext
       \/ /\ part = "seeding" /\ UNCHANGED <<cartVars, catalogueVars, categoryVars, reviewVars, deliveryVars>>
          /\ SeedingNext
       \/ /\ part = "delivery" /\ UNCHANGED <<cartVars, catalogueVars, categoryVars, reviewVars, seedingVars>>
          /\ DeliveryNext

shopVars == <<cartVars, catalogueVars, categoryVars, reviewVars, seedingVars, deliveryVars, part>>
MCSpec == MCInit /\ [][MCNext]_shopVars
=============================================================================
