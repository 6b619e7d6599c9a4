--------------------------------- MODULE Shop ---------------------------------
(* The storefront's components side by side: they share products and people,  *)
(* but no state.                                                              *)
EXTENDS Cart, Catalogue, Categories, Reviews, Seeding, Delivery

\* Every variable of the storefront has its type.
ShopTypeOK ==
    /\ CartTypeOK /\ CatalogueTypeOK /\ CategoryTypeOK
    /\ ReviewTypeOK /\ SeedingTypeOK /\ DeliveryTypeOK
=============================================================================
