------------------------------- MODULE Accounts -------------------------------
(* The account components side by side: they share the clients' requests but  *)
(* no state.                                                                  *)
EXTENDS Sessions, Identity, TwoFactor, AddressBook, RateLimiter, Access

\* Every variable of the account components has its type.
AccountsTypeOK ==
    /\ SessionTypeOK /\ IdentityTypeOK /\ FactorTypeOK
    /\ AddressTypeOK /\ LimiterTypeOK /\ AccessTypeOK
=============================================================================
