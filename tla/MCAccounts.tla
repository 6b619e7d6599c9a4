----------------------------- MODULE MCAccounts -----------------------------
(* The account components in one run: each behaviour exercises one of them   *)
(* (part) and the others stay as they start.                                 *)
EXTENDS Accounts, TLC

CONSTANTS t1, t2, t3, r1, b1, b2, c1, c2, u1, u2, u3, e1, e2, a1, a2, s1, s2, k1, k2, d1, d2, d3

MCTokens == {t1, t2, t3}
MCResetTokens == {r1}
MCBrowsers == {b1, b2}
MCCalls == {c1, c2}
MCStaff == {u1}
MCUsers == {u1, u2, u3}
MCEmails == {e1, e2}
MCIdentities == {a1, a2}
MCSecrets == {s1, s2}
MCCodes == {k1, k2}
MCAddresses == {d1, d2, d3}
MCSymmetry == Permutations(MCCalls) \cup {b1 :> b2 @@ b2 :> b1 @@ d1 :> d2 @@ d2 :> d1}

VARIABLE part

MCInit ==
    /\ SessionInit /\ IdentityInit /\ FactorInit /\ AddressInit /\ LimiterInit /\ AccessInit
    /\ part \in {"sessions", "identity", "factor", "addresses", "limiter", "access"}
    /\ part # "limiter" => store = "memory"
    /\ part # "identity" => (\E u \in MCUsers : email[u] = e1) /\ address = [a \in MCIdentities |-> e1]
    /\ part # "access" => (\A u \in MCStaff : roles[u] = "admin" /\ factor[u])

MCNext ==
    /\ UNCHANGED part
    /\ \/ /\ part = "sessions" /\ UNCHANGED <<identityVars, factorVars, bookVars, limiterVars, accessVars>>
          /\ SessionNext
       \/ /\ part = "identity" /\ UNCHANGED <<sessionVars, factorVars, bookVars, limiterVars, accessVars>>
          /\ IdentityNext
       \/ /\ part = "factor" /\ UNCHANGED <<sessionVars, identityVars, bookVars, limiterVars, accessVars>>
          /\ FactorNext
       \/ /\ part = "addresses" /\ UNCHANGED <<sessionVars, identityVars, factorVars, limiterVars, accessVars>>
          /\ AddressNext
       \/ /\ part = "limiter" /\ UNCHANGED <<sessionVars, identityVars, factorVars, bookVars, accessVars>>
          /\ LimiterNext
       \/ /\ part = "access" /\ UNCHANGED <<sessionVars, identityVars, factorVars, bookVars, limiterVars>>
          /\ AccessNext

accountVars == <<sessionVars, identityVars, factorVars, bookVars, limiterVars, accessVars, part>>
MCSpec == MCInit /\ [][MCNext]_accountVars
=============================================================================
