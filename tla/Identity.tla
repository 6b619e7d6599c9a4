------------------------------ MODULE Identity ------------------------------
(* Accounts: registration, the find-or-create login through an external     *)
(* provider, and staff assigning roles (internal/user, internal/oauth).  One *)
(* step per SQL statement; addresses are normalised, so a member of Emails   *)
(* stands for what email_hmac tells apart.                                   *)
EXTENDS Naturals, FiniteSets

CONSTANTS Users,          \* rows users may get
          Emails,
          Identities,     \* a person at a provider: (provider, provider_user_id)
          IdentityCalls,  \* requests in flight at once
          MaxMoves,       \* bound: addresses changed at the provider
          MaxIdentityFaults, \* bound: failed statements
          Nobody

ASSUME IdentityAssumption ==
    /\ Nobody \notin Users \cup Emails \cup Identities
    /\ IsFiniteSet(Users) /\ Users # {}
    /\ MaxMoves \in Nat /\ MaxIdentityFaults \in Nat

VARIABLES email,     \* users.email_hmac; Nobody: no such row
          role,      \* users.role
          link,      \* oauth_accounts
          address,   \* the address each identity has at its provider
          icall,     \* requests in flight
          granted,   \* ghost: <<identity, user>> pairs tokens were issued for
          unsettled, \* ghost: identities whose lookup failed or whose address
                     \* changed during a login
          hasty,     \* ghost: two role changes were under way at once
          moves, ifaults

identityVars == <<email, role, link, address, icall, granted, unsettled, hasty, moves, ifaults>>

validRoles == {"admin", "support", "sales", "customer"}
IdentitySteps == {"idle", "by_email", "create", "link", "issue", "count", "update_role"}
IdentityRequests == [pc : IdentitySteps, who : Identities \cup {Nobody}, mail : Emails \cup {Nobody},
                     user : Users \cup {Nobody}, role : validRoles]
NoIdentityCall == [pc |-> "idle", who |-> Nobody, mail |-> Nobody, user |-> Nobody,
                   role |-> "customer"]

\* The seed makes the first administrator.
IdentityInit ==
    /\ \E e \in Emails :
          LET first == CHOOSE u \in Users : TRUE IN
          /\ email = [u \in Users |-> IF u = first THEN e ELSE Nobody]
          /\ role = [u \in Users |-> IF u = first THEN "admin" ELSE "customer"]
    /\ link = [a \in Identities |-> Nobody]
    /\ address \in [Identities -> Emails]
    /\ icall = [c \in IdentityCalls |-> NoIdentityCall]
    /\ granted = {} /\ unsettled = {} /\ hasty = FALSE
    /\ moves = 0 /\ ifaults = 0

WithEmail(e) == {u \in Users : email[u] = e}
NoRow(u) == email[u] = Nobody
\* Ids are given out in a fixed order, which no property can see.
NewId == CHOOSE u \in Users : NoRow(u)
RoomForUser == \E u \in Users : NoRow(u)
Admins == {u \in Users : email[u] # Nobody /\ role[u] = "admin"}
StepOf(c, r) == icall' = [icall EXCEPT ![c] = r]
IdentityDone(c) == StepOf(c, NoIdentityCall)
LoginsOf(a) == {c \in IdentityCalls : icall[c].who = a}
ChangingRoles == {c \in IdentityCalls : icall[c].pc \in {"count", "update_role"}}
rows == <<email, role, link, address>>
ghosts == <<granted, unsettled, hasty>>
ibounds == <<moves, ifaults>>

-----------------------------------------------------------------------------
(* Registration                                                            *)

\* email_hmac is unique: a second registration is ErrEmailExists.
CreateUser(u, e) ==
    /\ WithEmail(e) = {}
    /\ email' = [email EXCEPT ![u] = e]
    /\ role' = [role EXCEPT ![u] = "customer"]

Register(e) ==
    /\ RoomForUser /\ CreateUser(NewId, e)
    /\ UNCHANGED <<link, address, icall, ghosts, ibounds>>

-----------------------------------------------------------------------------
(* Logging in through a provider                                           *)

\* Mutant: the address is looked up before the link.
OAuthLogin_ByEmail(c, a) ==
    /\ icall[c].pc = "idle"
    /\ StepOf(c, [NoIdentityCall EXCEPT !.pc = "by_email", !.who = a, !.mail = address[a]])
    /\ UNCHANGED <<rows, ghosts, ibounds>>

\* Callback has exchanged the code for the identity and its present address; a
\* linked identity is logged in as its user.
OAuthLogin(c, a) ==
    /\ icall[c].pc = "idle"
    /\ StepOf(c, [NoIdentityCall EXCEPT
                     !.pc = IF link[a] = Nobody THEN "by_email" ELSE "issue",
                     !.who = a, !.mail = address[a], !.user = link[a]])
    /\ UNCHANGED <<rows, ghosts, ibounds>>

\* Any error of GetUserIDByProvider is taken for "not linked".
ProviderLookupFails(c, a) ==
    /\ icall[c].pc = "idle" /\ ifaults < MaxIdentityFaults
    /\ ifaults' = ifaults + 1
    /\ StepOf(c, [NoIdentityCall EXCEPT !.pc = "by_email", !.who = a, !.mail = address[a]])
    /\ unsettled' = unsettled \cup {a}
    /\ UNCHANGED <<rows, granted, hasty, moves>>

GetUserByEmail(c) ==
    LET found == WithEmail(icall[c].mail) IN
    /\ icall[c].pc = "by_email"
    /\ \/ /\ found = {} /\ StepOf(c, [icall[c] EXCEPT !.pc = "create"])
       \/ \E u \in found : StepOf(c, [icall[c] EXCEPT !.pc = "link", !.user = u])
    /\ UNCHANGED <<rows, ghosts, ibounds>>

\* Mutant: a conflict is taken for success and the unsaved id is used.
CreateOAuthUser_IgnoresConflict(c) ==
    /\ icall[c].pc = "create" /\ RoomForUser
    /\ \/ CreateUser(NewId, icall[c].mail)
       \/ WithEmail(icall[c].mail) # {} /\ UNCHANGED <<email, role>>
    /\ StepOf(c, [icall[c] EXCEPT !.pc = "link", !.user = NewId])
    /\ UNCHANGED <<link, address, ghosts, ibounds>>

\* Someone else took the address since: the login fails and may be tried again.
CreateOAuthUser(c) ==
    /\ icall[c].pc = "create"
    /\ \/ /\ RoomForUser /\ CreateUser(NewId, icall[c].mail)
          /\ StepOf(c, [icall[c] EXCEPT !.pc = "link", !.user = NewId])
       \/ /\ WithEmail(icall[c].mail) # {}
          /\ IdentityDone(c) /\ UNCHANGED <<email, role>>
    /\ UNCHANGED <<link, address, ghosts, ibounds>>

\* ON CONFLICT DO NOTHING: the first link stays.
LinkAccount(c) ==
    LET a == icall[c].who IN
    /\ icall[c].pc = "link"
    /\ link' = IF link[a] = Nobody THEN [link EXCEPT ![a] = icall[c].user] ELSE link
    /\ StepOf(c, [icall[c] EXCEPT !.pc = "issue"])
    /\ UNCHANGED <<email, role, address, ghosts, ibounds>>

issueTokens(c) ==
    /\ icall[c].pc = "issue"
    /\ granted' = granted \cup {<<icall[c].who, icall[c].user>>}
    /\ IdentityDone(c)
    /\ UNCHANGED <<rows, unsettled, hasty, ibounds>>

\* The owner changes the address at the provider.
ChangeAddress(a, e) ==
    /\ moves < MaxMoves /\ e # address[a]
    /\ address' = [address EXCEPT ![a] = e]
    /\ unsettled' = IF LoginsOf(a) = {} THEN unsettled ELSE unsettled \cup {a}
    /\ moves' = moves + 1
    /\ UNCHANGED <<email, role, link, icall, granted, hasty, ifaults>>

-----------------------------------------------------------------------------
(* Roles                                                                   *)

\* The user's role is read; taking admin from an administrator counts them first.
AdminSetRole(c, u, r) ==
    /\ icall[c].pc = "idle" /\ email[u] # Nobody
    /\ StepOf(c, [NoIdentityCall EXCEPT
                     !.pc = IF role[u] = "admin" /\ r # "admin" THEN "count" ELSE "update_role",
                     !.user = u, !.role = r])
    /\ hasty' = (hasty \/ ChangingRoles # {})
    /\ UNCHANGED <<rows, granted, unsettled, ibounds>>

\* Mutant: an off-by-one in the guard.
CountByRole_OffByOne(c) ==
    /\ icall[c].pc = "count"
    /\ IF Cardinality(Admins) < 1 THEN IdentityDone(c)
       ELSE StepOf(c, [icall[c] EXCEPT !.pc = "update_role"])
    /\ UNCHANGED <<rows, ghosts, ibounds>>

\* ErrLastAdmin.
CountByRole(c) ==
    /\ icall[c].pc = "count"
    /\ IF Cardinality(Admins) <= 1 THEN IdentityDone(c)
       ELSE StepOf(c, [icall[c] EXCEPT !.pc = "update_role"])
    /\ UNCHANGED <<rows, ghosts, ibounds>>

UpdateRole(c) ==
    /\ icall[c].pc = "update_role"
    /\ role' = [role EXCEPT ![icall[c].user] = icall[c].role]
    /\ IdentityDone(c)
    /\ UNCHANGED <<email, link, address, ghosts, ibounds>>

\* A statement fails, or the process dies: the request ends where it is.
IdentityStatementFails(c) ==
    /\ icall[c].pc # "idle" /\ ifaults < MaxIdentityFaults
    /\ ifaults' = ifaults + 1
    /\ IdentityDone(c)
    /\ UNCHANGED <<rows, ghosts, moves>>

IdentityNext ==
    \/ \E e \in Emails : Register(e)
    \/ \E c \in IdentityCalls :
          \/ GetUserByEmail(c) \/ CreateOAuthUser(c) \/ LinkAccount(c) \/ issueTokens(c)
          \/ CountByRole(c) \/ UpdateRole(c) \/ IdentityStatementFails(c)
          \/ \E a \in Identities : OAuthLogin(c, a) \/ ProviderLookupFails(c, a)
          \/ \E u \in Users, r \in {"admin", "customer"} : AdminSetRole(c, u, r)
    \/ \E a \in Identities, e \in Emails : ChangeAddress(a, e)

IdentitySpec == IdentityInit /\ [][IdentityNext]_identityVars

-----------------------------------------------------------------------------
(* Properties                                                              *)

IdentityTypeOK ==
    /\ email \in [Users -> Emails \cup {Nobody}]
    /\ role \in [Users -> validRoles]
    /\ link \in [Identities -> Users \cup {Nobody}]
    /\ address \in [Identities -> Emails]
    /\ icall \in [IdentityCalls -> IdentityRequests]
    /\ \A c \in IdentityCalls : icall[c].user # Nobody => ~NoRow(icall[c].user)
    /\ granted \subseteq Identities \X Users
    /\ unsettled \subseteq Identities /\ hasty \in BOOLEAN
    /\ moves \in 0..MaxMoves /\ ifaults \in 0..MaxIdentityFaults

\* An identity opens one account, a real one, and goes on opening it after its
\* owner changed the address at the provider, whatever logins and registrations
\* race with it.  Two exceptions are the code's: a lookup that failed, and an
\* address changed in the middle of a login.  (OAuthLogin, LinkAccount.)
OneAccountPerIdentity ==
    \A g \in granted : /\ email[g[2]] # Nobody
                       /\ link[g[1]] = g[2] \/ g[1] \in unsettled

\* "Guards against removing the platform's last admin" (user/admin.go:35): true
\* unless two role changes are under way at once.
AnAdminRemains == Admins # {} \/ hasty

\* Whatever requests overlap, people keep their accounts and the shop its staff.
AccountsStand == OneAccountPerIdentity /\ AnAdminRemains
=============================================================================
