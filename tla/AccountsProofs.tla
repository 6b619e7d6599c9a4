---------------------------- MODULE AccountsProofs ----------------------------
(***************************************************************************)
(* People keep their accounts and the shop its staff, a second factor locks   *)
(* nobody out, an address book has its default, forgetting a client grants    *)
(* nothing, and a demotion takes hold: for any number of requests in flight,  *)
(* users, devices and clients, any limits and any faults.                     *)
(***************************************************************************)
EXTENDS Accounts, SessionsProofs, FiniteSetTheorems

-----------------------------------------------------------------------------
(* Identity: accounts, provider logins and roles                           *)

\* email_hmac is unique, links go to accounts that exist.
RowsSound ==
    /\ \A u, v \in Users : email[u] = email[v] /\ ~NoRow(u) => u = v
    /\ \A a \in Identities : link[a] # Nobody => ~NoRow(link[a])

\* The identity has no link, or one to the account of its present address.
LinkFits(a) == link[a] = Nobody \/ email[link[a]] = address[a]

\* A request in state q: unless its identity is unsettled, it works with the identity's
\* present address, for which no other account can come to be linked.
LoginFits(q) ==
    /\ q.pc \in {"by_email", "create", "link"} =>
          /\ q.who \in Identities /\ q.mail \in Emails
          /\ q.who \in unsettled \/ (q.mail = address[q.who] /\ LinkFits(q.who))
    /\ q.pc \in {"link", "issue", "count", "update_role"} => q.user \in Users
    /\ q.user # Nobody => ~NoRow(q.user)
    /\ q.pc = "link" => email[q.user] = q.mail
    /\ q.pc = "issue" => q.who \in Identities /\ (link[q.who] = q.user \/ q.who \in unsettled)

GrantsFit == \A g \in granted : ~NoRow(g[2]) /\ (link[g[1]] = g[2] \/ g[1] \in unsettled)

\* With one role change at a time, one that will take admin from somebody leaves
\* somebody else who has it.
Staffed == ~hasty =>
    /\ Admins # {}
    /\ \A c, d \in IdentityCalls :
           icall[c].pc \in {"count", "update_role"} /\ icall[d].pc \in {"count", "update_role"} => c = d
    /\ \A c \in IdentityCalls : icall[c].pc = "update_role" /\ icall[c].role # "admin" =>
           \E v \in Admins : v # icall[c].user

LoginInv == /\ IdentityTypeOK /\ RowsSound /\ GrantsFit
            /\ \A c \in IdentityCalls : LoginFits(icall[c])

IdentityInv == LoginInv /\ Staffed

\* Accounts stay, links stay, and a new link fits or is to an unsettled identity.
Growing ==
    /\ \A u \in Users : ~NoRow(u) => email'[u] = email[u]
    /\ \A a \in Identities : /\ link[a] # Nobody => link'[a] = link[a]
                             /\ link'[a] = link[a] \/ a \in unsettled \/ LinkFits(a)'
    /\ unsettled \subseteq unsettled'

LEMMA FitsStill ==
    ASSUME LoginInv, Growing, NEW q \in IdentityRequests, LoginFits(q),
           q.who \in Identities => address'[q.who] = address[q.who] \/ q.who \in unsettled'
    PROVE  LoginFits(q)'
<1>1. /\ q.user \in Users \cup {Nobody} /\ link \in [Identities -> Users \cup {Nobody}]
      /\ Nobody \notin Users /\ Nobody \notin Emails
  BY IdentityAssumption DEF IdentityRequests, LoginInv, IdentityTypeOK
<1>2. q.user # Nobody => ~NoRow(q.user)'
  BY <1>1 DEF LoginFits, Growing, NoRow
<1>3. ASSUME q.pc \in {"by_email", "create", "link"}
      PROVE  q.who \in unsettled' \/ (q.mail = address'[q.who] /\ LinkFits(q.who)')
  <2>1. q.who \in Identities /\ (q.who \in unsettled \/ (q.mail = address[q.who] /\ LinkFits(q.who)))
    BY <1>3 DEF LoginFits
  <2>2. CASE q.who \notin unsettled' /\ link'[q.who] = link[q.who]
    <3>1. address'[q.who] = address[q.who] /\ LinkFits(q.who) /\ q.mail = address[q.who]
      BY <2>1, <2>2 DEF Growing
    <3>2. link[q.who] # Nobody => ~NoRow(link[q.who]) /\ link[q.who] \in Users
      BY <1>1, <2>1 DEF LoginInv, RowsSound
    <3> QED
      BY <2>2, <3>1, <3>2 DEF LinkFits, Growing
  <2>3. CASE q.who \notin unsettled' /\ link'[q.who] # link[q.who]
    BY <2>1, <2>3 DEF Growing, LinkFits
  <2> QED
    BY <2>2, <2>3
<1>4. q.pc = "link" => email'[q.user] = q.mail
  BY <1>1 DEF LoginFits, Growing, NoRow
<1>5. q.pc = "issue" => link'[q.who] = q.user \/ q.who \in unsettled'
  BY <1>1 DEF LoginFits, Growing
<1> QED
  BY <1>2, <1>3, <1>4, <1>5 DEF LoginFits, LinkFits

\* One request goes on while accounts and links grow.
LEMMA OneLogin ==
    ASSUME LoginInv, Growing, UNCHANGED address, NEW c \in IdentityCalls, NEW q \in IdentityRequests,
           icall' = [icall EXCEPT ![c] = q], LoginFits(q)',
           RowsSound', GrantsFit',
           email' \in [Users -> Emails \cup {Nobody}], role' \in [Users -> validRoles],
           link' \in [Identities -> Users \cup {Nobody}],
           granted' \subseteq Identities \X Users, unsettled' \subseteq Identities,
           hasty' \in BOOLEAN, moves' \in 0..MaxMoves, ifaults' \in 0..MaxIdentityFaults
    PROVE  LoginInv'
<1>1. icall \in [IdentityCalls -> IdentityRequests] /\ address \in [Identities -> Emails]
  BY DEF LoginInv, IdentityTypeOK
<1>2. icall' \in [IdentityCalls -> IdentityRequests] /\ \A d \in IdentityCalls : icall'[d] = IF d = c THEN q ELSE icall[d]
  BY <1>1
<1>3. ASSUME NEW d \in IdentityCalls PROVE LoginFits(icall[d])'
  <2>1. PICK r \in IdentityRequests : r = icall'[d]
    BY <1>2
  <2>2. LoginFits(r)'
    <3>1. CASE d = c
      BY <1>2, <2>1, <3>1
    <3>2. CASE d # c
      <4>1. LoginFits(r)
        BY <1>2, <2>1, <3>2 DEF LoginInv, LoginFits, LinkFits
      <4> QED
        BY <4>1, FitsStill
    <3> QED
      BY <3>1, <3>2
  <2> QED
    BY <2>1, <2>2 DEF LoginFits, LinkFits
<1>4. IdentityTypeOK'
  <2>1. \A d \in IdentityCalls : icall'[d].user # Nobody => ~NoRow(icall[d].user)'
    BY <1>3 DEF LoginFits, NoRow
  <2> QED
    BY <1>1, <1>2, <1>3 DEF IdentityTypeOK, LoginFits, NoRow
<1> QED
  BY <1>3, <1>4 DEF LoginInv

LEMMA IdleLogin ==
    /\ NoIdentityCall \in IdentityRequests /\ NoIdentityCall.pc = "idle" /\ NoIdentityCall.user = Nobody
    /\ NoIdentityCall.role = "customer"
    /\ LoginFits(NoIdentityCall) /\ LoginFits(NoIdentityCall)'
<1>1. /\ NoIdentityCall \in IdentityRequests /\ NoIdentityCall.pc = "idle" /\ NoIdentityCall.user = Nobody
      /\ NoIdentityCall.role = "customer"
  BY DEF NoIdentityCall, IdentityRequests, IdentitySteps, validRoles
<1> QED
  BY <1>1 DEF LoginFits

\* Steps that leave accounts, links and grants alone.
LEMMA OnlyLogin ==
    ASSUME LoginInv, NEW c \in IdentityCalls, NEW q \in IdentityRequests,
           icall' = [icall EXCEPT ![c] = q], LoginFits(q)',
           UNCHANGED <<rows, granted>>,
           unsettled \subseteq unsettled', unsettled' \subseteq Identities,
           hasty' \in BOOLEAN, moves' \in 0..MaxMoves, ifaults' \in 0..MaxIdentityFaults
    PROVE  LoginInv'
<1>1. UNCHANGED <<email, role, link, address>>
  BY DEF rows
<1>2. Growing /\ RowsSound' /\ GrantsFit'
  BY <1>1 DEF Growing, LoginInv, RowsSound, GrantsFit, NoRow
<1> QED
  BY <1>1, <1>2, OneLogin DEF LoginInv, IdentityTypeOK

\* A new account: nobody had its id, nobody else has its address.
LEMMA NewAccount ==
    ASSUME LoginInv, NEW e \in Emails, RoomForUser, CreateUser(NewId, e), UNCHANGED <<link, granted, unsettled>>
    PROVE  /\ NewId \in Users /\ NoRow(NewId) /\ Growing /\ RowsSound' /\ GrantsFit' /\ Admins' = Admins
           /\ email'[NewId] = e /\ e # Nobody
           /\ email' \in [Users -> Emails \cup {Nobody}] /\ role' \in [Users -> validRoles]
<1> DEFINE n == NewId
<1>1. n \in Users /\ NoRow(n)
  BY DEF RoomForUser, NewId
<1>2. /\ email' = [email EXCEPT ![n] = e] /\ role' = [role EXCEPT ![n] = "customer"]
      /\ \A u \in Users : email[u] # e
  BY DEF CreateUser, WithEmail
<1> HIDE DEF n
<1>3. /\ email \in [Users -> Emails \cup {Nobody}] /\ role \in [Users -> validRoles]
      /\ link \in [Identities -> Users \cup {Nobody}] /\ e # Nobody
      /\ granted \subseteq Identities \X Users
  BY IdentityAssumption DEF LoginInv, IdentityTypeOK
<1>4. /\ email' \in [Users -> Emails \cup {Nobody}] /\ role' \in [Users -> validRoles]
      /\ \A u \in Users : email'[u] = IF u = n THEN e ELSE email[u]
      /\ \A u \in Users : role'[u] = IF u = n THEN "customer" ELSE role[u]
  BY <1>1, <1>2, <1>3 DEF validRoles
<1>5. Growing
  BY <1>1, <1>4 DEF Growing, NoRow
<1>6. RowsSound'
  BY <1>1, <1>2, <1>3, <1>4 DEF LoginInv, RowsSound, NoRow
<1>7. GrantsFit'
  BY <1>1, <1>3, <1>4 DEF LoginInv, GrantsFit, NoRow
<1>8. Admins' = Admins
  BY <1>1, <1>4 DEF Admins, NoRow
<1> QED
  BY <1>1, <1>3, <1>4, <1>5, <1>6, <1>7, <1>8 DEF n

\* A request starts with some of its fields given.
LoginCall(p, a, m, u) == [NoIdentityCall EXCEPT !.pc = p, !.who = a, !.mail = m, !.user = u]

LEMMA NewLogin ==
    ASSUME NEW p, NEW a, NEW m, NEW u
    PROVE  LoginCall(p, a, m, u) =
           [pc |-> p, who |-> a, mail |-> m, user |-> u, role |-> "customer"]
<1>1. PICK q : q = NoIdentityCall
  OBVIOUS
<1>2. PICK f : f = [q EXCEPT !.pc = p, !.who = a, !.mail = m, !.user = u]
  OBVIOUS
<1>3. f = [pc |-> p, who |-> a, mail |-> m, user |-> u, role |-> "customer"]
  BY <1>1, <1>2 DEF NoIdentityCall
<1> QED
  BY <1>1, <1>2, <1>3 DEF LoginCall

LEMMA NewLookup ==
    ASSUME NEW p, NEW a, NEW m
    PROVE  [NoIdentityCall EXCEPT !.pc = p, !.who = a, !.mail = m] =
           [pc |-> p, who |-> a, mail |-> m, user |-> Nobody, role |-> "customer"]
<1>1. PICK q : q = NoIdentityCall
  OBVIOUS
<1>2. PICK f : f = [q EXCEPT !.pc = p, !.who = a, !.mail = m]
  OBVIOUS
<1>3. f = [pc |-> p, who |-> a, mail |-> m, user |-> Nobody, role |-> "customer"]
  BY <1>1, <1>2 DEF NoIdentityCall
<1> QED
  BY <1>1, <1>2, <1>3

LEMMA NewRoleChange ==
    ASSUME NEW p, NEW u, NEW r
    PROVE  [NoIdentityCall EXCEPT !.pc = p, !.user = u, !.role = r] =
           [pc |-> p, who |-> Nobody, mail |-> Nobody, user |-> u, role |-> r]
<1>1. PICK q : q = NoIdentityCall
  OBVIOUS
<1>2. PICK f : f = [q EXCEPT !.pc = p, !.user = u, !.role = r]
  OBVIOUS
<1>3. f = [pc |-> p, who |-> Nobody, mail |-> Nobody, user |-> u, role |-> r]
  BY <1>1, <1>2 DEF NoIdentityCall
<1> QED
  BY <1>1, <1>2, <1>3

\* Logging in through a provider, and statements that fail.
LEMMA LoginSteps ==
    ASSUME LoginInv, NEW c \in IdentityCalls,
           \/ GetUserByEmail(c) \/ issueTokens(c) \/ LinkAccount(c) \/ IdentityStatementFails(c)
           \/ \E a \in Identities : OAuthLogin(c, a) \/ ProviderLookupFails(c, a)
    PROVE  LoginInv'
<1>1. /\ IdentityTypeOK /\ icall \in [IdentityCalls -> IdentityRequests] /\ icall[c] \in IdentityRequests
      /\ LoginFits(icall[c]) /\ email \in [Users -> Emails \cup {Nobody}] /\ role \in [Users -> validRoles]
      /\ link \in [Identities -> Users \cup {Nobody}] /\ address \in [Identities -> Emails]
      /\ granted \subseteq Identities \X Users /\ unsettled \subseteq Identities
      /\ hasty \in BOOLEAN /\ moves \in 0..MaxMoves /\ ifaults \in 0..MaxIdentityFaults
  BY DEF LoginInv, IdentityTypeOK
<1>2. ASSUME NEW a \in Identities, OAuthLogin(c, a) \/ ProviderLookupFails(c, a)
      PROVE  LoginInv'
  <2>1. PICK q \in IdentityRequests :
          /\ icall' = [icall EXCEPT ![c] = q]
          /\ q.pc \in {"by_email", "issue"} /\ q.who = a /\ q.mail = address[a]
          /\ q.pc = "by_email" => q.user = Nobody /\ (a \in unsettled' \/ link[a] = Nobody)
          /\ q.pc = "issue" => q.user = link[a] /\ link[a] # Nobody
    <3>0. \A p, u : LoginCall(p, a, address[a], u) =
                    [pc |-> p, who |-> a, mail |-> address[a], user |-> u, role |-> "customer"]
      BY NewLogin
    <3>a. [NoIdentityCall EXCEPT !.pc = "by_email", !.who = a, !.mail = address[a]] =
          [pc |-> "by_email", who |-> a, mail |-> address[a], user |-> Nobody, role |-> "customer"]
      BY NewLookup
    <3>1. ASSUME OAuthLogin(c, a), link[a] # Nobody
          PROVE  icall' = [icall EXCEPT ![c] = [pc |-> "issue", who |-> a, mail |-> address[a],
                                                user |-> link[a], role |-> "customer"]]
      BY <3>0, <3>1 DEF OAuthLogin, StepOf, LoginCall
    <3>2. ASSUME OAuthLogin(c, a), link[a] = Nobody
          PROVE  icall' = [icall EXCEPT ![c] = [pc |-> "by_email", who |-> a, mail |-> address[a],
                                                user |-> Nobody, role |-> "customer"]]
      BY <3>0, <3>2 DEF OAuthLogin, StepOf, LoginCall
    <3>3. ASSUME ProviderLookupFails(c, a)
          PROVE  /\ icall' = [icall EXCEPT ![c] = [pc |-> "by_email", who |-> a, mail |-> address[a],
                                                   user |-> Nobody, role |-> "customer"]]
                 /\ a \in unsettled'
      BY <3>a, <3>3 DEF ProviderLookupFails, StepOf
    <3>4. \A pc \in {"by_email", "issue"}, u \in {Nobody, link[a]} :
             [pc |-> pc, who |-> a, mail |-> address[a], user |-> u, role |-> "customer"] \in IdentityRequests
      BY <1>1 DEF IdentityRequests, IdentitySteps, validRoles
    <3> QED
      BY <1>2, <3>1, <3>2, <3>3, <3>4
  <2>4. /\ UNCHANGED <<email, role, link, address, granted, hasty, moves>> /\ unsettled \subseteq unsettled'
        /\ unsettled' \subseteq Identities /\ ifaults' \in 0..MaxIdentityFaults
    <3>1. CASE OAuthLogin(c, a)
      BY <1>1, <3>1 DEF OAuthLogin, ghosts, ibounds, rows
    <3>2. CASE ProviderLookupFails(c, a)
      <4>1. ifaults' = ifaults + 1 /\ ifaults < MaxIdentityFaults
        BY <3>2 DEF ProviderLookupFails
      <4>2. ifaults' \in 0..MaxIdentityFaults
        BY <1>1, <4>1, IdentityAssumption
      <4>3. /\ UNCHANGED <<email, role, link, address, granted, hasty, moves>>
            /\ unsettled' = unsettled \cup {a}
        BY <3>2 DEF ProviderLookupFails, rows
      <4> QED
        BY <1>1, <4>2, <4>3
    <3> QED
      BY <1>2, <3>1, <3>2
  <2>5. link[a] # Nobody => ~NoRow(link[a]) /\ link[a] \in Users
    BY <1>1 DEF LoginInv, RowsSound
  <2>6. LoginFits(q)'
    BY <1>1, <2>1, <2>4, <2>5 DEF LoginFits, LinkFits, NoRow
  <2> QED
    BY <1>1, <2>1, <2>4, <2>6, OnlyLogin DEF rows
<1>3. CASE IdentityStatementFails(c)
  <2>1. /\ icall' = [icall EXCEPT ![c] = NoIdentityCall] /\ UNCHANGED <<rows, granted, unsettled, hasty, moves>>
        /\ ifaults' \in 0..MaxIdentityFaults
    BY <1>1, <1>3, IdentityAssumption DEF IdentityStatementFails, IdentityDone, StepOf, ghosts
  <2> QED
    BY <1>1, <2>1, IdleLogin, OnlyLogin
<1>4. CASE GetUserByEmail(c)
  <2>1. /\ UNCHANGED <<rows, granted, unsettled, hasty, moves, ifaults>> /\ icall[c].pc = "by_email"
    BY <1>4 DEF GetUserByEmail, ghosts, ibounds
  <2>2. icall[c].mail \in Emails /\ Nobody \notin Emails
    BY SMTT(60), <1>1, <2>1, IdentityAssumption DEF LoginFits
  <2>3. \/ icall' = [icall EXCEPT ![c] = [icall[c] EXCEPT !.pc = "create"]]
        \/ \E u \in Users : email[u] = icall[c].mail
                            /\ icall' = [icall EXCEPT ![c] = [icall[c] EXCEPT !.pc = "link", !.user = u]]
    BY <1>4 DEF GetUserByEmail, StepOf, WithEmail
  <2>4. CASE icall' = [icall EXCEPT ![c] = [icall[c] EXCEPT !.pc = "create"]]
    <3>0. [icall[c] EXCEPT !.pc = "create"] \in IdentityRequests
      BY <1>1 DEF IdentityRequests, IdentitySteps
    <3>1. PICK q \in IdentityRequests : q = [icall[c] EXCEPT !.pc = "create"]
      BY <3>0
    <3>2. q.pc = "create" /\ q.who = icall[c].who /\ q.mail = icall[c].mail /\ q.user = icall[c].user
      BY <1>1, <3>1 DEF IdentityRequests
    <3>3. LoginFits(q)'
      BY <1>1, <2>1, <3>2 DEF LoginFits, LinkFits, rows, NoRow
    <3> QED
      BY <1>1, <2>1, <2>4, <3>1, <3>3, OnlyLogin
  <2>5. ASSUME NEW u \in Users, email[u] = icall[c].mail,
               icall' = [icall EXCEPT ![c] = [icall[c] EXCEPT !.pc = "link", !.user = u]]
        PROVE  LoginInv'
    <3>0. [icall[c] EXCEPT !.pc = "link", !.user = u] \in IdentityRequests
      BY <1>1 DEF IdentityRequests, IdentitySteps
    <3>1. PICK q \in IdentityRequests : q = [icall[c] EXCEPT !.pc = "link", !.user = u]
      BY <3>0
    <3>2. q.pc = "link" /\ q.who = icall[c].who /\ q.mail = icall[c].mail /\ q.user = u
      BY <1>1, <3>1 DEF IdentityRequests
    <3>3. LoginFits(q)'
      BY <1>1, <2>1, <2>2, <2>5, <3>2 DEF LoginFits, LinkFits, rows, NoRow
    <3> QED
      BY <1>1, <2>1, <2>5, <3>1, <3>3, OnlyLogin
  <2> QED
    BY <2>3, <2>4, <2>5
<1>5. CASE issueTokens(c)
  <2> DEFINE a == icall[c].who
             u == icall[c].user
  <2>1. /\ UNCHANGED <<email, role, link, address, unsettled, hasty, moves, ifaults>> /\ icall[c].pc = "issue"
        /\ granted' = granted \cup {<<a, u>>} /\ icall' = [icall EXCEPT ![c] = NoIdentityCall]
    BY <1>5 DEF issueTokens, rows, ibounds, IdentityDone, StepOf
  <2>2. /\ a \in Identities /\ u \in Users /\ u # Nobody /\ ~NoRow(u) /\ (link[a] = u \/ a \in unsettled)
    BY <1>1, <2>1, IdentityAssumption DEF LoginFits
  <2>3. GrantsFit'
    BY <2>1, <2>2 DEF LoginInv, GrantsFit, NoRow
  <2>4. RowsSound' /\ Growing
    BY <2>1 DEF LoginInv, RowsSound, Growing, NoRow
  <2>5. granted' \subseteq Identities \X Users
    BY <1>1, <2>1, <2>2
  <2> QED
    BY <1>1, <2>1, <2>3, <2>4, <2>5, IdleLogin, OneLogin
<1>6. CASE LinkAccount(c)
  <2>a. PICK a : a = icall[c].who
    OBVIOUS
  <2>b. PICK u : u = icall[c].user
    OBVIOUS
  <2>c. [icall[c] EXCEPT !.pc = "issue"] \in IdentityRequests
    BY <1>1 DEF IdentityRequests, IdentitySteps
  <2>d. PICK q \in IdentityRequests : q = [icall[c] EXCEPT !.pc = "issue"]
    BY <2>c
  <2>1. /\ UNCHANGED <<email, role, address, granted, unsettled, hasty, moves, ifaults>> /\ icall[c].pc = "link"
        /\ link' = IF link[a] = Nobody THEN [link EXCEPT ![a] = u] ELSE link
        /\ icall' = [icall EXCEPT ![c] = q]
    BY <1>6, <2>a, <2>b, <2>d DEF LinkAccount, ghosts, ibounds, StepOf
  <2>2. /\ a \in Identities /\ u \in Users /\ u # Nobody /\ ~NoRow(u) /\ email[u] = icall[c].mail
        /\ a \in unsettled \/ (icall[c].mail = address[a] /\ LinkFits(a))
    BY <1>1, <2>1, <2>a, <2>b, IdentityAssumption DEF LoginFits
  <2>3. q.pc = "issue" /\ q.who = a /\ q.user = u
    BY <1>1, <2>a, <2>b, <2>d DEF IdentityRequests
  <2>4. /\ link' \in [Identities -> Users \cup {Nobody}]
        /\ \A i \in Identities : link'[i] = IF i = a /\ link[a] = Nobody THEN u ELSE link[i]
    BY <1>1, <2>1, <2>2
  <2>5. RowsSound'
    BY <2>1, <2>2, <2>4 DEF LoginInv, RowsSound, NoRow
  <2>6. Growing
    BY <2>1, <2>2, <2>4 DEF Growing, LinkFits
  <2>7. GrantsFit'
    <3>1. ASSUME NEW g \in granted PROVE ~NoRow(g[2])' /\ (link'[g[1]] = g[2] \/ g[1] \in unsettled)
      <4>1. g[1] \in Identities /\ g[2] \in Users /\ g[2] # Nobody
        BY <1>1, IdentityAssumption
      <4> QED
        BY <2>1, <2>4, <4>1 DEF LoginInv, GrantsFit, NoRow
    <3> QED
      BY <2>1, <3>1 DEF GrantsFit
  <2>8. link'[a] = u \/ a \in unsettled
    <3>1. CASE link[a] = Nobody
      BY <2>2, <2>4, <3>1
    <3>2. CASE link[a] # Nobody /\ a \notin unsettled
      <4>1. link[a] \in Users /\ ~NoRow(link[a]) /\ email[link[a]] = email[u]
        BY <1>1, <2>2, <3>2 DEF LinkFits, LoginInv, RowsSound
      <4>2. link[a] = u
        BY <2>2, <4>1 DEF LoginInv, RowsSound
      <4> QED
        BY <2>2, <2>4, <3>2, <4>2
    <3> QED
      BY <3>1, <3>2
  <2>9. LoginFits(q)'
    BY <2>1, <2>2, <2>3, <2>8 DEF LoginFits, NoRow
  <2> QED
    BY <1>1, <2>1, <2>3, <2>4, <2>5, <2>6, <2>7, <2>9, OneLogin
<1> QED
  BY <1>2, <1>3, <1>4, <1>5, <1>6

\* Steps that leave the requests alone.
LEMMA NoLogin ==
    ASSUME LoginInv, Growing, UNCHANGED icall, address' \in [Identities -> Emails],
           \A c \in IdentityCalls : icall[c].who \in Identities =>
               address'[icall[c].who] = address[icall[c].who] \/ icall[c].who \in unsettled',
           RowsSound', GrantsFit',
           email' \in [Users -> Emails \cup {Nobody}], role' \in [Users -> validRoles],
           link' \in [Identities -> Users \cup {Nobody}],
           granted' \subseteq Identities \X Users, unsettled' \subseteq Identities,
           hasty' \in BOOLEAN, moves' \in 0..MaxMoves, ifaults' \in 0..MaxIdentityFaults
    PROVE  LoginInv'
<1>1. icall \in [IdentityCalls -> IdentityRequests]
  BY DEF LoginInv, IdentityTypeOK
<1>3. ASSUME NEW d \in IdentityCalls PROVE LoginFits(icall[d])'
  <2>1. PICK r \in IdentityRequests : r = icall[d] /\ r = icall'[d]
    BY <1>1
  <2>2. LoginFits(r)
    BY <2>1 DEF LoginInv, LoginFits, LinkFits
  <2>3. LoginFits(r)'
    BY <2>1, <2>2, FitsStill
  <2> QED
    BY <2>1, <2>3 DEF LoginFits, LinkFits
<1>4. IdentityTypeOK'
  <2>1. \A d \in IdentityCalls : icall'[d].user # Nobody => ~NoRow(icall[d].user)'
    BY <1>3 DEF LoginFits, NoRow
  <2> QED
    BY <1>1, <2>1 DEF IdentityTypeOK, NoRow
<1> QED
  BY <1>3, <1>4 DEF LoginInv

LEMMA RegisterStep ==
    ASSUME LoginInv, NEW e \in Emails, Register(e)
    PROVE  LoginInv' /\ Admins' = Admins
<1>1. RoomForUser /\ CreateUser(NewId, e) /\ UNCHANGED <<link, address, icall, granted, unsettled, hasty, moves, ifaults>>
  BY DEF Register, ghosts, ibounds
<1>2. /\ Growing /\ RowsSound' /\ GrantsFit' /\ Admins' = Admins
      /\ email' \in [Users -> Emails \cup {Nobody}] /\ role' \in [Users -> validRoles]
  BY <1>1, NewAccount
<1> QED
  BY <1>1, <1>2, NoLogin DEF LoginInv, IdentityTypeOK

LEMMA ChangeAddressStep ==
    ASSUME LoginInv, NEW a \in Identities, NEW e \in Emails, ChangeAddress(a, e)
    PROVE  LoginInv'
<1>1. /\ address' = [address EXCEPT ![a] = e] /\ moves' = moves + 1 /\ moves < MaxMoves
      /\ unsettled' = IF LoginsOf(a) = {} THEN unsettled ELSE unsettled \cup {a}
      /\ UNCHANGED <<email, role, link, icall, granted, hasty, ifaults>>
  BY DEF ChangeAddress
<1>2. /\ IdentityTypeOK /\ address \in [Identities -> Emails] /\ unsettled \subseteq Identities
      /\ moves \in 0..MaxMoves
  BY DEF LoginInv, IdentityTypeOK
<1>3. address' \in [Identities -> Emails] /\ \A i \in Identities : i # a => address'[i] = address[i]
  BY <1>1, <1>2
<1>4. unsettled \subseteq unsettled' /\ unsettled' \subseteq Identities
  BY <1>1, <1>2
<1>5. moves' \in 0..MaxMoves
  BY <1>1, <1>2, IdentityAssumption
<1>6. ASSUME NEW c \in IdentityCalls, icall[c].who \in Identities
      PROVE  address'[icall[c].who] = address[icall[c].who] \/ icall[c].who \in unsettled'
  BY <1>1, <1>3, <1>6 DEF LoginsOf
<1>7. Growing /\ RowsSound' /\ GrantsFit'
  BY <1>1, <1>4 DEF Growing, LoginInv, RowsSound, GrantsFit, NoRow
<1> QED
  BY <1>1, <1>2, <1>3, <1>4, <1>5, <1>6, <1>7, NoLogin DEF IdentityTypeOK

LEMMA CreateOAuthUserStep ==
    ASSUME LoginInv, NEW c \in IdentityCalls, CreateOAuthUser(c)
    PROVE  LoginInv' /\ Admins' = Admins
<1>1. /\ icall \in [IdentityCalls -> IdentityRequests] /\ icall[c] \in IdentityRequests
      /\ LoginFits(icall[c]) /\ icall[c].pc = "create" /\ IdentityTypeOK
      /\ UNCHANGED <<link, address, granted, unsettled, hasty, moves, ifaults>>
  BY DEF LoginInv, IdentityTypeOK, CreateOAuthUser, ghosts, ibounds
<1>2. /\ icall[c].mail \in Emails /\ icall[c].who \in Identities
      /\ icall[c].who \in unsettled \/ (icall[c].mail = address[icall[c].who] /\ LinkFits(icall[c].who))
  BY <1>1 DEF LoginFits
<1>3. CASE IdentityDone(c) /\ UNCHANGED <<email, role>>
  <2>1. icall' = [icall EXCEPT ![c] = NoIdentityCall]
    BY <1>3 DEF IdentityDone, StepOf
  <2> QED
    BY <1>1, <1>3, <2>1, IdleLogin, OnlyLogin DEF rows, IdentityTypeOK, Admins
<1>4. CASE /\ RoomForUser /\ CreateUser(NewId, icall[c].mail)
           /\ StepOf(c, [icall[c] EXCEPT !.pc = "link", !.user = NewId])
  <2>1. PICK n : n = NewId
    OBVIOUS
  <2>2. PICK e \in Emails : e = icall[c].mail
    BY <1>2
  <2>3. /\ n \in Users /\ NoRow(n) /\ Growing /\ RowsSound' /\ GrantsFit' /\ Admins' = Admins
        /\ email'[n] = e /\ e # Nobody
        /\ email' \in [Users -> Emails \cup {Nobody}] /\ role' \in [Users -> validRoles]
    BY <1>1, <1>4, <2>1, <2>2, NewAccount
  <2>4. [icall[c] EXCEPT !.pc = "link", !.user = n] \in IdentityRequests
    BY <1>1, <2>3 DEF IdentityRequests, IdentitySteps
  <2>5. PICK q \in IdentityRequests : q = [icall[c] EXCEPT !.pc = "link", !.user = n]
    BY <2>4
  <2>6. q.pc = "link" /\ q.who = icall[c].who /\ q.mail = e /\ q.user = n
    BY <1>1, <2>2, <2>5 DEF IdentityRequests
  <2>7. PICK a \in Identities : a = icall[c].who
    BY <1>2
  <2>8. a \in unsettled \/ (e = address[a] /\ LinkFits(a)')
    <3>1. CASE a \notin unsettled /\ link[a] # Nobody
      <4>1. ~NoRow(link[a]) /\ link[a] \in Users /\ email[link[a]] = e
        BY <1>1, <1>2, <2>2, <2>7, <3>1 DEF LoginInv, RowsSound, IdentityTypeOK, LinkFits
      <4> QED
        BY <1>1, <1>2, <2>2, <2>3, <2>7, <3>1, <4>1 DEF Growing, LinkFits
    <3>2. CASE link[a] = Nobody
      BY <1>1, <1>2, <2>2, <2>7, <3>2 DEF LinkFits
    <3> QED
      BY <3>1, <3>2
  <2>9. LoginFits(q)'
    BY <1>1, <2>2, <2>3, <2>6, <2>7, <2>8 DEF LoginFits, NoRow
  <2>10. icall' = [icall EXCEPT ![c] = q]
    BY <1>4, <2>1, <2>5 DEF StepOf
  <2> QED
    BY <1>1, <2>3, <2>9, <2>10, OneLogin DEF IdentityTypeOK
<1> QED
  BY <1>3, <1>4 DEF CreateOAuthUser

\* Steps of other requests leave the role changes where they are.
LEMMA StaffedStill ==
    ASSUME Staffed, UNCHANGED <<hasty, Admins>>,
           \A d \in IdentityCalls : icall'[d] = icall[d] \/ icall'[d].pc \notin {"count", "update_role"}
    PROVE  Staffed'
BY SMTT(60) DEF Staffed

LEMMA CalmSteps ==
    ASSUME LoginInv, NEW c \in IdentityCalls,
           \/ GetUserByEmail(c) \/ CreateOAuthUser(c) \/ issueTokens(c) \/ LinkAccount(c)
           \/ IdentityStatementFails(c)
           \/ \E a \in Identities : OAuthLogin(c, a) \/ ProviderLookupFails(c, a)
    PROVE  /\ hasty' = hasty
           /\ \A d \in IdentityCalls : icall'[d] = icall[d] \/ icall'[d].pc \notin {"count", "update_role"}
<1>1. icall \in [IdentityCalls -> IdentityRequests] /\ icall[c] \in IdentityRequests
  BY DEF LoginInv, IdentityTypeOK
<1>2. ASSUME NEW q, q.pc \notin {"count", "update_role"}, icall' = [icall EXCEPT ![c] = q]
      PROVE  \A d \in IdentityCalls : icall'[d] = icall[d] \/ icall'[d].pc \notin {"count", "update_role"}
  BY <1>1, <1>2
<1>3. ASSUME IdentityDone(c)
      PROVE  \A d \in IdentityCalls : icall'[d] = icall[d] \/ icall'[d].pc \notin {"count", "update_role"}
  <2>1. NoIdentityCall.pc = "idle" /\ icall' = [icall EXCEPT ![c] = NoIdentityCall]
    BY <1>3, IdleLogin DEF IdentityDone, StepOf
  <2> QED
    BY <1>2, <2>1
<1>4. ASSUME NEW p \in {"create", "issue"}, icall' = [icall EXCEPT ![c] = [icall[c] EXCEPT !.pc = p]]
      PROVE  \A d \in IdentityCalls : icall'[d] = icall[d] \/ icall'[d].pc \notin {"count", "update_role"}
  <2>1. [icall[c] EXCEPT !.pc = p].pc = p
    BY <1>1 DEF IdentityRequests
  <2> QED
    BY <1>2, <1>4, <2>1
<1>5. ASSUME NEW u, icall' = [icall EXCEPT ![c] = [icall[c] EXCEPT !.pc = "link", !.user = u]]
      PROVE  \A d \in IdentityCalls : icall'[d] = icall[d] \/ icall'[d].pc \notin {"count", "update_role"}
  <2>1. PICK q : q = icall[c] /\ q \in IdentityRequests
    BY <1>1
  <2>2. PICK f : f = [q EXCEPT !.pc = "link", !.user = u]
    OBVIOUS
  <2>3. f.pc = "link"
    BY <2>1, <2>2 DEF IdentityRequests
  <2> QED
    BY <1>2, <1>5, <2>1, <2>2, <2>3
<1>6. ASSUME NEW a \in Identities, OAuthLogin(c, a)
      PROVE  \A d \in IdentityCalls : icall'[d] = icall[d] \/ icall'[d].pc \notin {"count", "update_role"}
  <2>1. PICK p \in {"by_email", "issue"} : p = IF link[a] = Nobody THEN "by_email" ELSE "issue"
    OBVIOUS
  <2>2. icall' = [icall EXCEPT ![c] = [pc |-> p, who |-> a, mail |-> address[a], user |-> link[a],
                                       role |-> "customer"]]
    <3>1. icall' = [icall EXCEPT ![c] = [NoIdentityCall EXCEPT !.pc = p, !.who = a, !.mail = address[a],
                                                               !.user = link[a]]]
      BY <1>6, <2>1 DEF OAuthLogin, StepOf
    <3>2. PICK r : r = NoIdentityCall
      OBVIOUS
    <3>3. PICK q : q = [r EXCEPT !.pc = p, !.who = a, !.mail = address[a], !.user = link[a]]
      OBVIOUS
    <3>4. q = [pc |-> p, who |-> a, mail |-> address[a], user |-> link[a], role |-> "customer"]
      BY <3>2, <3>3 DEF NoIdentityCall
    <3>5. icall' = [icall EXCEPT ![c] = q]
      BY <3>1, <3>2, <3>3
    <3> QED
      BY <3>4, <3>5
  <2> QED
    BY <1>2, <2>2
<1>7. ASSUME NEW a \in Identities, ProviderLookupFails(c, a)
      PROVE  \A d \in IdentityCalls : icall'[d] = icall[d] \/ icall'[d].pc \notin {"count", "update_role"}
  <2>1. icall' = [icall EXCEPT ![c] = [pc |-> "by_email", who |-> a, mail |-> address[a], user |-> Nobody,
                                       role |-> "customer"]]
    BY ZenonT(60), <1>7, NewLookup DEF ProviderLookupFails, StepOf
  <2> QED
    BY <1>2, <2>1
<1>8. hasty' = hasty
  BY DEF GetUserByEmail, CreateOAuthUser, issueTokens, LinkAccount, IdentityStatementFails, OAuthLogin,
         ProviderLookupFails, ghosts
<1>9. \/ IdentityDone(c)
      \/ \E p \in {"create", "issue"} : icall' = [icall EXCEPT ![c] = [icall[c] EXCEPT !.pc = p]]
      \/ \E u : icall' = [icall EXCEPT ![c] = [icall[c] EXCEPT !.pc = "link", !.user = u]]
      \/ \E a \in Identities : OAuthLogin(c, a) \/ ProviderLookupFails(c, a)
  BY DEF GetUserByEmail, CreateOAuthUser, issueTokens, LinkAccount, IdentityStatementFails, StepOf
<1> QED
  BY <1>3, <1>4, <1>5, <1>6, <1>7, <1>8, <1>9

\* Changing roles.
LEMMA RoleSteps ==
    ASSUME LoginInv, Staffed, NEW c \in IdentityCalls,
           \/ CountByRole(c) \/ UpdateRole(c)
           \/ \E u \in Users, r \in {"admin", "customer"} : AdminSetRole(c, u, r)
    PROVE  LoginInv' /\ Staffed'
<1>1. /\ icall \in [IdentityCalls -> IdentityRequests] /\ icall[c] \in IdentityRequests
      /\ LoginFits(icall[c]) /\ IdentityTypeOK /\ Nobody \notin Users
      /\ email \in [Users -> Emails \cup {Nobody}] /\ role \in [Users -> validRoles]
  BY IdentityAssumption DEF LoginInv, IdentityTypeOK
<1>2. ASSUME NEW u \in Users, NEW r \in {"admin", "customer"}, AdminSetRole(c, u, r)
      PROVE  LoginInv' /\ Staffed'
  <2>1. /\ email[u] # Nobody /\ hasty' = (hasty \/ ChangingRoles # {})
        /\ UNCHANGED <<rows, granted, unsettled, moves, ifaults>>
    BY <1>2 DEF AdminSetRole, ibounds
  <2>p. PICK p \in {"count", "update_role"} :
          p = IF role[u] = "admin" /\ r # "admin" THEN "count" ELSE "update_role"
    OBVIOUS
  <2>2. /\ icall' = [icall EXCEPT ![c] = [pc |-> p, who |-> Nobody, mail |-> Nobody, user |-> u, role |-> r]]
        /\ p = "update_role" /\ r # "admin" => role[u] # "admin"
    <3>1. icall' = [icall EXCEPT ![c] = [NoIdentityCall EXCEPT !.pc = p, !.user = u, !.role = r]]
      BY <1>2, <2>p DEF AdminSetRole, StepOf
    <3>2. [NoIdentityCall EXCEPT !.pc = p, !.user = u, !.role = r] =
          [pc |-> p, who |-> Nobody, mail |-> Nobody, user |-> u, role |-> r]
      BY NewRoleChange
    <3>3. icall' = [icall EXCEPT ![c] = [pc |-> p, who |-> Nobody, mail |-> Nobody, user |-> u, role |-> r]]
      BY <3>1, <3>2, Zenon
    <3> QED
      BY <2>p, <3>3
  <2>3. [pc |-> p, who |-> Nobody, mail |-> Nobody, user |-> u, role |-> r] \in IdentityRequests
    BY DEF IdentityRequests, IdentitySteps, validRoles
  <2>4. PICK q \in IdentityRequests :
          q = [pc |-> p, who |-> Nobody, mail |-> Nobody, user |-> u, role |-> r]
    BY <2>3
  <2>5. q.pc = p /\ q.user = u /\ q.role = r /\ icall' = [icall EXCEPT ![c] = q]
    BY <2>2, <2>4
  <2>6. LoginFits(q)'
    BY <2>1, <2>5 DEF LoginFits, NoRow, rows
  <2>7. hasty \in BOOLEAN /\ hasty' \in BOOLEAN
    BY <1>1, <2>1 DEF IdentityTypeOK
  <2>8. LoginInv'
    BY <1>1, <2>1, <2>5, <2>6, <2>7, OnlyLogin DEF IdentityTypeOK
  <2>9. ASSUME ~hasty' PROVE Staffed'
    <3>1. ~hasty /\ Admins' = Admins
          /\ \A d \in IdentityCalls : icall[d].pc \notin {"count", "update_role"}
      BY <2>1, <2>9 DEF ChangingRoles, rows, Admins
    <3>2. \A d \in IdentityCalls : icall'[d] = IF d = c THEN q ELSE icall[d]
      BY <1>1, <2>5
    <3>3. \A d \in IdentityCalls : icall'[d].pc \in {"count", "update_role"} => d = c
      BY <3>1, <3>2
    <3>4. p = "update_role" /\ r # "admin" => \E v \in Admins : v # u
      BY <2>2, <3>1 DEF Staffed, Admins
    <3>5. ASSUME NEW d \in IdentityCalls, icall'[d].pc = "update_role", icall'[d].role # "admin"
          PROVE  \E v \in Admins : v # icall'[d].user
      <4>1. icall'[d] = q
        BY <3>2, <3>3, <3>5
      <4> QED
        BY <2>5, <3>4, <3>5, <4>1
    <3> QED
      BY <3>1, <3>3, <3>5 DEF Staffed
  <2> QED
    BY SMTT(60), <2>8, <2>9 DEF Staffed
<1>3. CASE CountByRole(c)
  <2>1. /\ icall[c].pc = "count" /\ UNCHANGED <<rows, granted, unsettled, hasty, moves, ifaults>>
        /\ IF Cardinality(Admins) <= 1 THEN IdentityDone(c)
           ELSE StepOf(c, [icall[c] EXCEPT !.pc = "update_role"])
    BY <1>3 DEF CountByRole, ghosts, ibounds
  <2>2. Admins' = Admins
    BY <2>1 DEF rows, Admins
  <2>3. CASE IdentityDone(c)
    <3>1. icall' = [icall EXCEPT ![c] = NoIdentityCall]
      BY <2>3 DEF IdentityDone, StepOf
    <3>2. \A d \in IdentityCalls : icall'[d] = icall[d] \/ icall'[d].pc \notin {"count", "update_role"}
      BY <1>1, <3>1, IdleLogin
    <3> QED
      BY <1>1, <2>1, <2>2, <3>1, <3>2, IdleLogin, OnlyLogin, StaffedStill DEF IdentityTypeOK
  <2>4. CASE ~(Cardinality(Admins) <= 1) /\ StepOf(c, [icall[c] EXCEPT !.pc = "update_role"])
    <3>1. [icall[c] EXCEPT !.pc = "update_role"] \in IdentityRequests
      BY <1>1 DEF IdentityRequests, IdentitySteps
    <3>2. PICK q \in IdentityRequests : q = [icall[c] EXCEPT !.pc = "update_role"]
      BY <3>1
    <3>3. q.pc = "update_role" /\ q.user = icall[c].user /\ q.role = icall[c].role
      BY <1>1, <3>2 DEF IdentityRequests
    <3>4. icall' = [icall EXCEPT ![c] = q]
      BY <2>4, <3>2 DEF StepOf
    <3>5. LoginFits(q)'
      BY <1>1, <2>1, <3>3 DEF LoginFits, NoRow, rows
    <3>6. LoginInv'
      BY <1>1, <2>1, <3>4, <3>5, OnlyLogin DEF IdentityTypeOK
    <3>7. \E v \in Admins : v # q.user
      <4>1. SUFFICES ASSUME Admins \subseteq {q.user} PROVE FALSE
        OBVIOUS
      <4>2. IsFiniteSet({q.user}) /\ Cardinality({q.user}) = 1
        BY FS_Singleton
      <4>3. Cardinality(Admins) <= 1
        BY <4>1, <4>2, FS_Subset
      <4> QED
        BY <2>4, <4>3
    <3>8. \A d \in IdentityCalls : icall'[d] = IF d = c THEN q ELSE icall[d]
      BY <1>1, <3>4
    <3>9. Staffed'
      <4>1. SUFFICES ASSUME ~hasty PROVE Staffed'
        BY <2>1 DEF Staffed
      <4>2. \A d \in IdentityCalls : icall[d].pc \in {"count", "update_role"} => d = c
        BY <2>1, <4>1 DEF Staffed
      <4>3. \A d \in IdentityCalls : icall'[d].pc \in {"count", "update_role"} => d = c
        BY <3>8, <4>2
      <4> QED
        BY <2>2, <3>7, <3>8, <4>1, <4>3 DEF Staffed
    <3> QED
      BY <3>6, <3>9
  <2> QED
    BY <2>1, <2>3, <2>4
<1>4. CASE UpdateRole(c)
  <2>1. PICK u : u = icall[c].user
    OBVIOUS
  <2>2. PICK r : r = icall[c].role
    OBVIOUS
  <2>3. /\ icall[c].pc = "update_role" /\ role' = [role EXCEPT ![u] = r]
        /\ icall' = [icall EXCEPT ![c] = NoIdentityCall]
        /\ UNCHANGED <<email, link, address, granted, unsettled, hasty, moves, ifaults>>
    BY <1>4, <2>1, <2>2 DEF UpdateRole, ghosts, ibounds, IdentityDone, StepOf
  <2>4. u \in Users /\ ~NoRow(u) /\ r \in validRoles
    BY <1>1, <2>1, <2>2, <2>3 DEF LoginFits, IdentityRequests
  <2>5. role' \in [Users -> validRoles] /\ \A v \in Users : role'[v] = IF v = u THEN r ELSE role[v]
    BY <1>1, <2>3, <2>4
  <2>6. Growing /\ RowsSound' /\ GrantsFit'
    BY <2>3 DEF Growing, LoginInv, RowsSound, GrantsFit, NoRow
  <2>7. LoginInv'
    BY <1>1, <2>3, <2>5, <2>6, IdleLogin, OneLogin DEF IdentityTypeOK
  <2>8. Staffed'
    <3>1. SUFFICES ASSUME ~hasty PROVE Staffed'
      BY <2>3 DEF Staffed
    <3>2. \A d \in IdentityCalls : icall'[d].pc \notin {"count", "update_role"}
      <4>1. \A d \in IdentityCalls : icall'[d] = IF d = c THEN NoIdentityCall ELSE icall[d]
        BY <1>1, <2>3
      <4> QED
        BY <2>3, <3>1, <4>1, IdleLogin DEF Staffed
    <3>3. Admins' # {}
      <4>1. CASE r = "admin"
        BY <2>3, <2>4, <2>5, <4>1 DEF Admins, NoRow
      <4>2. CASE r # "admin"
        <5>1. PICK v \in Admins : v # u
          BY <2>1, <2>2, <2>3, <3>1, <4>2 DEF Staffed
        <5> QED
          BY <2>3, <2>5, <5>1 DEF Admins
      <4> QED
        BY <4>1, <4>2
    <3> QED
      BY <3>2, <3>3 DEF Staffed
  <2> QED
    BY <2>7, <2>8
<1> QED
  BY <1>2, <1>3, <1>4

LEMMA IdentityStart == IdentityInit => IdentityInv
<1> SUFFICES ASSUME IdentityInit PROVE IdentityInv
  OBVIOUS
<1> DEFINE first == CHOOSE u \in Users : TRUE
<1>1. first \in Users
  BY IdentityAssumption
<1>2. PICK e \in Emails : /\ email = [u \in Users |-> IF u = first THEN e ELSE Nobody]
                          /\ role = [u \in Users |-> IF u = first THEN "admin" ELSE "customer"]
  BY DEF IdentityInit
<1> HIDE DEF first
<1>3. /\ link = [a \in Identities |-> Nobody] /\ address \in [Identities -> Emails]
      /\ icall = [c \in IdentityCalls |-> NoIdentityCall] /\ granted = {} /\ unsettled = {} /\ hasty = FALSE
      /\ moves = 0 /\ ifaults = 0
  BY DEF IdentityInit
<1>4. e # Nobody /\ Nobody \notin Users
  BY IdentityAssumption
<1>5. /\ email \in [Users -> Emails \cup {Nobody}] /\ role \in [Users -> validRoles]
      /\ link \in [Identities -> Users \cup {Nobody}] /\ icall \in [IdentityCalls -> IdentityRequests]
  BY <1>2, <1>3, IdleLogin DEF validRoles
<1>6. moves \in 0..MaxMoves /\ ifaults \in 0..MaxIdentityFaults
  BY <1>3, IdentityAssumption
<1>7. \A c \in IdentityCalls : icall[c] = NoIdentityCall
  BY <1>3
<1>8. IdentityTypeOK
  <2>1. \A c \in IdentityCalls : icall[c].user = Nobody
    BY <1>7, IdleLogin
  <2> QED
    BY <1>3, <1>5, <1>6, <2>1 DEF IdentityTypeOK
<1>9. RowsSound /\ GrantsFit
  BY <1>2, <1>3 DEF RowsSound, GrantsFit, NoRow
<1>10. \A c \in IdentityCalls : LoginFits(icall[c])
  BY <1>7, IdleLogin
<1>11. Staffed
  <2>1. first \in Admins
    BY <1>1, <1>2, <1>4 DEF Admins
  <2>2. \A c \in IdentityCalls : icall[c].pc = "idle"
    BY <1>7, IdleLogin
  <2> QED
    BY <2>1, <2>2 DEF Staffed
<1> QED
  BY <1>8, <1>9, <1>10, <1>11 DEF IdentityInv, LoginInv

LEMMA IdentityStep == IdentityInv /\ [IdentityNext]_identityVars => IdentityInv'
<1> SUFFICES ASSUME IdentityInv, [IdentityNext]_identityVars PROVE IdentityInv'
  OBVIOUS
<1>0. LoginInv /\ Staffed
  BY DEF IdentityInv
<1>1. CASE UNCHANGED identityVars
  BY <1>1 DEF identityVars, IdentityInv, LoginInv, IdentityTypeOK, RowsSound, GrantsFit, LoginFits, LinkFits,
              NoRow, Staffed, Admins
<1>2. ASSUME NEW e \in Emails, Register(e)
      PROVE  IdentityInv'
  <2>1. LoginInv' /\ Admins' = Admins
    BY <1>0, <1>2, RegisterStep
  <2>2. UNCHANGED <<hasty, icall>>
    BY <1>2 DEF Register, ghosts
  <2> QED
    BY <1>0, <2>1, <2>2, StaffedStill DEF IdentityInv
<1>3. ASSUME NEW a \in Identities, NEW e \in Emails, ChangeAddress(a, e)
      PROVE  IdentityInv'
  <2>1. LoginInv'
    BY <1>0, <1>3, ChangeAddressStep
  <2>2. UNCHANGED <<hasty, icall, Admins>>
    BY <1>3 DEF ChangeAddress, Admins
  <2> QED
    BY <1>0, <2>1, <2>2, StaffedStill DEF IdentityInv
<1>4. ASSUME NEW c \in IdentityCalls, CreateOAuthUser(c)
      PROVE  IdentityInv'
  <2>1. LoginInv' /\ Admins' = Admins
    BY <1>0, <1>4, CreateOAuthUserStep
  <2> QED
    BY <1>0, <1>4, <2>1, CalmSteps, StaffedStill DEF IdentityInv
<1>5. ASSUME NEW c \in IdentityCalls,
             \/ GetUserByEmail(c) \/ issueTokens(c) \/ LinkAccount(c) \/ IdentityStatementFails(c)
             \/ \E a \in Identities : OAuthLogin(c, a) \/ ProviderLookupFails(c, a)
      PROVE  IdentityInv'
  <2>1. LoginInv'
    BY SMTT(60), <1>0, <1>5, LoginSteps
  <2>2. UNCHANGED <<email, role>>
    BY <1>5 DEF GetUserByEmail, issueTokens, LinkAccount, IdentityStatementFails, OAuthLogin,
                ProviderLookupFails, rows
  <2>3. Admins' = Admins
    BY <2>2 DEF Admins
  <2> QED
    BY <1>0, <1>5, <2>1, <2>3, CalmSteps, StaffedStill DEF IdentityInv
<1>6. ASSUME NEW c \in IdentityCalls,
             \/ CountByRole(c) \/ UpdateRole(c)
             \/ \E u \in Users, r \in {"admin", "customer"} : AdminSetRole(c, u, r)
      PROVE  IdentityInv'
  BY <1>0, <1>6, RoleSteps DEF IdentityInv
<1> QED
  BY <1>1, <1>2, <1>3, <1>4, <1>5, <1>6 DEF IdentityNext

LEMMA IdentityInvariant == IdentitySpec => []IdentityInv
BY IdentityStart, IdentityStep, PTL DEF IdentitySpec

\* Whatever logins, registrations, address changes and role changes overlap: an
\* identity opens one account and goes on opening it (oauth FindOrCreateUser, with
\* email_hmac and the provider's identity unique), save where a lookup failed or the
\* address changed during a login; and the shop keeps an administrator (AdminSetRole's
\* count) save where two role changes were under way at once.
THEOREM AccountsStandAlways == IdentitySpec => []AccountsStand
<1>1. IdentityInv => AccountsStand
  BY DEF IdentityInv, LoginInv, GrantsFit, NoRow, Staffed, AccountsStand, OneAccountPerIdentity,
         AnAdminRemains
<1> QED
  BY <1>1, IdentityInvariant, PTL

-----------------------------------------------------------------------------
(* TwoFactor: setups, confirmations and codes                              *)

SetupSteps == {"setup_delete", "setup_store", "setup_codes"}

\* While setups kept apart from each other and from confirmations, there is one row at
\* most; one that is on, or that a confirmation is about to switch on, was confirmed.
Unmixed == ~mixed =>
    /\ \A c, d \in FactorCalls : fcall[c].pc \in SetupSteps /\ fcall[d].pc \in SetupSteps => c = d
    /\ \A c, d \in FactorCalls : fcall[c].pc \in SetupSteps => fcall[d].pc # "enable"
    /\ \A c \in FactorCalls : fcall[c].pc = "setup_store" => tfa = {}
    /\ \A s, t \in tfa : s = t
    /\ \A t \in tfa : t.enabled = TRUE => t.secret \in confirmed
    /\ \A c \in FactorCalls : fcall[c].pc = "enable" => \A t \in tfa : t.secret \in confirmed

\* The codes a setup is to store belong to its own secret, which nobody was shown;
\* those that were used belong to secrets that were.
Unshown ==
    /\ \A c \in FactorCalls : fcall[c].pc = "setup_codes" =>
           fcall[c].secret \in drawn \ shown /\ \A k \in fcall[c].codes : k[1] = fcall[c].secret
    /\ \A c, d \in FactorCalls :
           fcall[c].pc = "setup_codes" /\ fcall[d].pc = "setup_codes" /\ fcall[c].secret = fcall[d].secret => c = d
    /\ \A k \in Recovery : accepted[k] # 0 => k[1] \in shown
    /\ \A c \in FactorCalls : fcall[c].pc = "consume" =>
           \A k \in fcall[c].used : k[1] \in shown /\ k \notin fcall[c].codes

\* With one code being used at a time, the stored codes and the one in use are unused.
Unrushed == ~rushed =>
    /\ \A c, d \in FactorCalls : fcall[c].pc = "consume" /\ fcall[d].pc = "consume" => c = d
    /\ \A k \in Recovery : accepted[k] <= 1
    /\ \A t \in tfa : \A k \in t.codes : accepted[k] = 0
    /\ \A c \in FactorCalls : fcall[c].pc = "consume" =>
           \A k \in fcall[c].codes \cup fcall[c].used : accepted[k] = 0

FactorInv == FactorTypeOK /\ Unmixed /\ Unshown /\ Unrushed

LEMMA FactorIdle ==
    /\ NoFactorCall \in FactorRequests /\ NoFactorCall.pc = "idle"
    /\ \A p \in FactorSteps : /\ [NoFactorCall EXCEPT !.pc = p] \in FactorRequests
                              /\ [NoFactorCall EXCEPT !.pc = p].pc = p
BY DEF NoFactorCall, FactorRequests, FactorSteps

\* One request goes on.
LEMMA FactorMoves ==
    ASSUME FactorTypeOK, NEW c \in FactorCalls, NEW q \in FactorRequests, FactorStep(c, q)
    PROVE  /\ fcall' \in [FactorCalls -> FactorRequests]
           /\ \A d \in FactorCalls : fcall'[d] = IF d = c THEN q ELSE fcall[d]
BY DEF FactorTypeOK, FactorStep

\* The request that strikes a code off.
LEMMA ConsumeBegun ==
    ASSUME NEW codes \in SUBSET Recovery, NEW k \in codes, NEW off \in BOOLEAN,
           NEW c, FactorStep(c, [NoFactorCall EXCEPT !.pc = "consume", !.off = off,
                                     !.codes = codes \ {k}, !.used = {k}])
    PROVE  \E q \in FactorRequests :
              FactorStep(c, q) /\ q.pc = "consume" /\ q.codes = codes \ {k} /\ q.used = {k}
<1>1. PICK r : r = NoFactorCall
  OBVIOUS
<1>2. PICK q : q = [r EXCEPT !.pc = "consume", !.off = off, !.codes = codes \ {k}, !.used = {k}]
  OBVIOUS
<1>3. q = [pc |-> "consume", secret |-> NoSecret, codes |-> codes \ {k}, used |-> {k}, off |-> off]
  BY <1>1, <1>2 DEF NoFactorCall
<1>4. q \in FactorRequests /\ q.pc = "consume" /\ q.codes = codes \ {k} /\ q.used = {k}
  BY <1>3 DEF FactorRequests, FactorSteps
<1>5. FactorStep(c, q)
  BY <1>1, <1>2
<1> QED
  BY <1>4, <1>5

LEMMA SecretDrawn ==
    ASSUME NEW c \in FactorCalls, fcall[c] \in FactorRequests, NEW s \in Secrets,
           FactorStep(c, [fcall[c] EXCEPT !.pc = "setup_codes", !.secret = s, !.codes = {s} \X Codes])
    PROVE  \E q \in FactorRequests :
              FactorStep(c, q) /\ q.pc = "setup_codes" /\ q.secret = s /\ q.codes = {s} \X Codes
<1>1. PICK r \in FactorRequests : r = fcall[c]
  OBVIOUS
<1>6. PICK codes \in SUBSET Recovery : codes = {s} \X Codes
  BY DEF Recovery
<1>2. PICK q : q = [r EXCEPT !.pc = "setup_codes", !.secret = s, !.codes = codes]
  OBVIOUS
<1>3. q \in FactorRequests
  BY <1>2 DEF FactorRequests, FactorSteps
<1>4. q.pc = "setup_codes" /\ q.secret = s /\ q.codes = codes
  BY <1>2, <1>3 DEF FactorRequests
<1>5. FactorStep(c, q)
  BY <1>1, <1>2, <1>6
<1> QED
  BY <1>3, <1>4, <1>5, <1>6

\* The rows after codes are stored, and after the second factor is switched on.
LEMMA CodesStored ==
    ASSUME tfa \subseteq FactorRows, NEW codes \in SUBSET Recovery, StoreRecoveryCodes(codes)
    PROVE  /\ tfa' \subseteq FactorRows
           /\ \A t \in tfa' : t.codes = codes /\ \E s \in tfa : s.secret = t.secret /\ s.enabled = t.enabled
           /\ (\A s, t \in tfa : s = t) => \A s, t \in tfa' : s = t
<1>1. tfa' = {[t EXCEPT !.codes = codes] : t \in tfa}
  BY DEF StoreRecoveryCodes
<1>2. ASSUME NEW t \in tfa'
      PROVE  /\ t \in FactorRows /\ t.codes = codes
             /\ \E s \in tfa : s.secret = t.secret /\ s.enabled = t.enabled
  <2>1. PICK s \in tfa : t = [s EXCEPT !.codes = codes]
    BY <1>1
  <2>2. s \in FactorRows
    OBVIOUS
  <2>3. t \in FactorRows
    BY <2>1, <2>2 DEF FactorRows
  <2> QED
    BY <2>1, <2>2, <2>3 DEF FactorRows
<1>3. (\A s, t \in tfa : s = t) => \A s, t \in tfa' : s = t
  BY <1>1
<1> QED
  BY <1>2, <1>3

LEMMA SwitchedOn ==
    ASSUME tfa \subseteq FactorRows, tfa' = {[t EXCEPT !.enabled = TRUE] : t \in tfa}
    PROVE  /\ tfa' \subseteq FactorRows
           /\ \A t \in tfa' : \E s \in tfa : s.secret = t.secret /\ s.codes = t.codes
           /\ (\A s, t \in tfa : s = t) => \A s, t \in tfa' : s = t
<1>2. ASSUME NEW t \in tfa'
      PROVE  /\ t \in FactorRows
             /\ \E s \in tfa : s.secret = t.secret /\ s.codes = t.codes
  <2>1. PICK s \in tfa : t = [s EXCEPT !.enabled = TRUE]
    OBVIOUS
  <2>2. s \in FactorRows
    OBVIOUS
  <2>3. t \in FactorRows
    BY <2>1, <2>2 DEF FactorRows
  <2> QED
    BY <2>1, <2>2, <2>3 DEF FactorRows
<1>3. (\A s, t \in tfa : s = t) => \A s, t \in tfa' : s = t
  OBVIOUS
<1> QED
  BY <1>2, <1>3

\* A request goes on and no row, secret or use of a code is added.
LEMMA FactorGoesOn ==
    ASSUME FactorInv, NEW c \in FactorCalls, NEW q \in FactorRequests, FactorStep(c, q),
           tfa' \subseteq tfa, UNCHANGED <<drawn, shown, accepted>>,
           confirmed \subseteq confirmed', confirmed' \subseteq Secrets,
           mixed' \in BOOLEAN, rushed' \in BOOLEAN, ffaults' \in 0..MaxFactorFaults,
           mixed => mixed', rushed => rushed', q.pc # "setup_codes",
           ~mixed' /\ q.pc \in SetupSteps =>
               \A d \in FactorCalls \ {c} : fcall[d].pc \notin SetupSteps /\ fcall[d].pc # "enable",
           ~mixed' /\ q.pc = "setup_store" => tfa' = {},
           ~mixed' /\ q.pc = "enable" =>
               /\ \A d \in FactorCalls \ {c} : fcall[d].pc \notin SetupSteps
               /\ \A t \in tfa' : t.secret \in confirmed',
           q.pc = "consume" => \A k \in q.used : k[1] \in shown /\ k \notin q.codes,
           ~rushed' /\ q.pc = "consume" =>
               /\ \A d \in FactorCalls \ {c} : fcall[d].pc # "consume"
               /\ \A k \in q.codes \cup q.used : accepted[k] = 0
    PROVE  FactorInv'
<1>1. FactorTypeOK
  BY DEF FactorInv
<1>2. /\ fcall' \in [FactorCalls -> FactorRequests]
      /\ \A d \in FactorCalls : fcall'[d] = IF d = c THEN q ELSE fcall[d]
  BY <1>1, FactorMoves
<1>3. FactorTypeOK'
  BY <1>1, <1>2 DEF FactorTypeOK
<1>4. Unmixed'
  <2>1. SUFFICES ASSUME ~mixed' PROVE Unmixed'
    BY DEF Unmixed
  <2>2. Unmixed /\ ~mixed
    BY <2>1 DEF FactorInv
  <2>3. \A a, d \in FactorCalls : fcall'[a].pc \in SetupSteps /\ fcall'[d].pc \in SetupSteps => a = d
    BY <1>2, <2>1, <2>2 DEF Unmixed
  <2>4. \A a, d \in FactorCalls : fcall'[a].pc \in SetupSteps => fcall'[d].pc # "enable"
    BY <1>2, <2>1, <2>2 DEF Unmixed, SetupSteps
  <2>5. \A a \in FactorCalls : fcall'[a].pc = "setup_store" => tfa' = {}
    BY <1>2, <2>1, <2>2 DEF Unmixed
  <2>6. (\A s, t \in tfa' : s = t) /\ \A t \in tfa' : t.enabled = TRUE => t.secret \in confirmed'
    BY <2>2 DEF Unmixed
  <2>7. \A a \in FactorCalls : fcall'[a].pc = "enable" => \A t \in tfa' : t.secret \in confirmed'
    BY <1>2, <2>1, <2>2 DEF Unmixed
  <2> QED
    BY <2>1, <2>3, <2>4, <2>5, <2>6, <2>7 DEF Unmixed
<1>5. Unshown'
  BY <1>2 DEF FactorInv, Unshown
<1>6. Unrushed'
  <2>1. SUFFICES ASSUME ~rushed' PROVE Unrushed'
    BY DEF Unrushed
  <2>2. Unrushed /\ ~rushed
    BY <2>1 DEF FactorInv
  <2> QED
    BY <1>2, <2>1, <2>2 DEF Unrushed
<1> QED
  BY <1>3, <1>4, <1>5, <1>6 DEF FactorInv

\* Beginning requests.
LEMMA FactorBegins ==
    ASSUME FactorInv, NEW c \in FactorCalls,
           Setup2FA(c) \/ SetupReadFails(c) \/ Enable2FA(c) \/ Disable2FA(c)
    PROVE  FactorInv'
<1>1. /\ FactorTypeOK /\ ffaults \in 0..MaxFactorFaults /\ mixed \in BOOLEAN /\ rushed \in BOOLEAN
      /\ confirmed \subseteq Secrets /\ tfa \subseteq FactorRows
  BY DEF FactorInv, FactorTypeOK
<1>2. CASE Setup2FA(c)
  <2>1. /\ UNCHANGED <<tfa, drawn, shown, accepted, confirmed, rushed, ffaults>>
        /\ mixed' = (mixed \/ SettingUp \cup At({"enable"}) # {})
    BY <1>2 DEF Setup2FA
  <2>2. PICK p \in {"setup_store", "setup_delete"} :
          FactorStep(c, [NoFactorCall EXCEPT !.pc = p]) /\ (p = "setup_store" => tfa = {})
    BY <1>2 DEF Setup2FA
  <2>3. PICK q \in FactorRequests : q = [NoFactorCall EXCEPT !.pc = p] /\ q.pc = p
    BY FactorIdle DEF FactorSteps
  <2>4. ~mixed' => \A d \in FactorCalls : fcall[d].pc \notin SetupSteps /\ fcall[d].pc # "enable"
    BY <2>1 DEF SettingUp, At, SetupSteps
  <2> QED
    BY <1>1, <2>1, <2>2, <2>3, <2>4, FactorGoesOn
<1>3. CASE SetupReadFails(c)
  <2>1. /\ UNCHANGED <<tfa, drawn, shown, accepted, confirmed, rushed>> /\ mixed' = TRUE
        /\ ffaults' = ffaults + 1 /\ ffaults < MaxFactorFaults
        /\ FactorStep(c, [NoFactorCall EXCEPT !.pc = "setup_store"])
    BY <1>3 DEF SetupReadFails
  <2>2. ffaults' \in 0..MaxFactorFaults
    BY <1>1, <2>1, TwoFactorAssumption
  <2>3. PICK q \in FactorRequests : q = [NoFactorCall EXCEPT !.pc = "setup_store"] /\ q.pc = "setup_store"
    BY FactorIdle DEF FactorSteps
  <2> QED
    BY <1>1, <2>1, <2>2, <2>3, FactorGoesOn
<1>4. CASE Enable2FA(c)
  <2>1. /\ UNCHANGED <<tfa, drawn, shown, accepted, rushed, ffaults>> /\ mixed' = (mixed \/ SettingUp # {})
        /\ FactorStep(c, [NoFactorCall EXCEPT !.pc = "enable"])
    BY <1>4 DEF Enable2FA
  <2>2. PICK t \in tfa : confirmed' = confirmed \cup {t.secret}
    BY <1>4 DEF Enable2FA
  <2>3. t.secret \in Secrets
    BY <1>1 DEF FactorRows
  <2>4. PICK q \in FactorRequests : q = [NoFactorCall EXCEPT !.pc = "enable"] /\ q.pc = "enable"
    BY FactorIdle DEF FactorSteps
  <2>5. ~mixed' => \A d \in FactorCalls : fcall[d].pc \notin SetupSteps
    BY <2>1 DEF SettingUp, At, SetupSteps
  <2>6. ~mixed' => \A r \in tfa' : r.secret \in confirmed'
    BY <2>1, <2>2 DEF FactorInv, Unmixed
  <2> QED
    BY <1>1, <2>1, <2>2, <2>3, <2>4, <2>5, <2>6, FactorGoesOn DEF SetupSteps
<1>5. CASE Disable2FA(c)
  <2>1. /\ UNCHANGED <<tfa, drawn, shown, accepted, confirmed, mixed, rushed, ffaults>>
        /\ FactorStep(c, [NoFactorCall EXCEPT !.pc = "delete"])
    BY <1>5 DEF Disable2FA, factorGhosts
  <2>2. PICK q \in FactorRequests : q = [NoFactorCall EXCEPT !.pc = "delete"] /\ q.pc = "delete"
    BY FactorIdle DEF FactorSteps
  <2> QED
    BY <1>1, <2>1, <2>2, FactorGoesOn DEF SetupSteps
<1> QED
  BY <1>2, <1>3, <1>4, <1>5

\* Requests that end, fail or delete.
LEMMA FactorEnds ==
    ASSUME FactorInv, NEW c \in FactorCalls,
           \/ ConsumeFails(c) \/ Delete2FA(c) \/ FactorStatementFails(c)
           \/ \E ok \in BOOLEAN : SetupDelete(c, ok)
    PROVE  FactorInv'
<1>1. /\ FactorTypeOK /\ ffaults \in 0..MaxFactorFaults /\ mixed \in BOOLEAN /\ rushed \in BOOLEAN
      /\ confirmed \subseteq Secrets /\ fcall[c] \in FactorRequests
  BY DEF FactorInv, FactorTypeOK
<1>2. ASSUME ffaults' = ffaults + 1 /\ ffaults < MaxFactorFaults PROVE ffaults' \in 0..MaxFactorFaults
  BY <1>1, <1>2, TwoFactorAssumption
<1>3. CASE ConsumeFails(c) \/ FactorStatementFails(c)
  <2>1. /\ UNCHANGED <<tfa, drawn, shown, accepted, confirmed, mixed, rushed>>
        /\ ffaults' = ffaults + 1 /\ ffaults < MaxFactorFaults /\ FactorStep(c, NoFactorCall)
    BY <1>3 DEF ConsumeFails, FactorStatementFails, FactorDone, factorGhosts
  <2> QED
    BY <1>1, <1>2, <2>1, FactorIdle, FactorGoesOn DEF SetupSteps
<1>4. CASE Delete2FA(c)
  <2>1. /\ UNCHANGED <<drawn, shown, accepted, confirmed, mixed, rushed, ffaults>>
        /\ tfa' = {} /\ FactorStep(c, NoFactorCall)
    BY <1>4 DEF Delete2FA, FactorDone, factorGhosts
  <2> QED
    BY <1>1, <2>1, FactorIdle, FactorGoesOn DEF SetupSteps
<1>5. ASSUME NEW ok \in BOOLEAN, SetupDelete(c, ok)
      PROVE  FactorInv'
  <2>1. /\ UNCHANGED <<drawn, shown, accepted, confirmed, rushed>> /\ fcall[c].pc = "setup_delete"
        /\ FactorStep(c, [fcall[c] EXCEPT !.pc = "setup_store"])
        /\ \/ tfa' = {} /\ UNCHANGED <<ffaults, mixed>>
           \/ ffaults' = ffaults + 1 /\ ffaults < MaxFactorFaults /\ mixed' = TRUE /\ tfa' = tfa
    BY <1>5 DEF SetupDelete
  <2>2. [fcall[c] EXCEPT !.pc = "setup_store"] \in FactorRequests
    BY <1>1 DEF FactorRequests, FactorSteps
  <2>3. PICK q \in FactorRequests : q = [fcall[c] EXCEPT !.pc = "setup_store"]
    BY <2>2
  <2>4. q.pc = "setup_store"
    BY <1>1, <2>3 DEF FactorRequests
  <2>5. ~mixed' => tfa' = {} /\ ~mixed
    BY <2>1
  <2>6. ~mixed => \A d \in FactorCalls \ {c} : fcall[d].pc \notin SetupSteps /\ fcall[d].pc # "enable"
    BY <2>1 DEF FactorInv, Unmixed, SetupSteps
  <2>7. /\ tfa' \subseteq tfa /\ ffaults' \in 0..MaxFactorFaults /\ mixed' \in BOOLEAN /\ (mixed => mixed')
    <3>1. CASE tfa' = {} /\ UNCHANGED <<ffaults, mixed>>
      BY <1>1, <3>1
    <3>2. CASE ffaults' = ffaults + 1 /\ ffaults < MaxFactorFaults /\ mixed' = TRUE /\ tfa' = tfa
      BY <1>2, <3>2
    <3> QED
      BY <2>1, <3>1, <3>2
  <2> QED
    BY <1>1, <2>1, <2>3, <2>4, <2>5, <2>6, <2>7, FactorGoesOn
<1> QED
  BY <1>3, <1>4, <1>5

LEMMA UseRecoveryCodeStep ==
    ASSUME FactorInv, NEW c \in FactorCalls, NEW off \in BOOLEAN, useRecoveryCode(c, off)
    PROVE  FactorInv'
<1>1. /\ FactorTypeOK /\ ffaults \in 0..MaxFactorFaults /\ mixed \in BOOLEAN /\ rushed \in BOOLEAN
      /\ confirmed \subseteq Secrets /\ tfa \subseteq FactorRows
  BY DEF FactorInv, FactorTypeOK
<1>2. /\ UNCHANGED <<tfa, drawn, shown, accepted, confirmed, mixed, ffaults>>
      /\ rushed' = (rushed \/ At({"consume"}) # {})
  BY DEF useRecoveryCode
<1>3. PICK t \in tfa : \E k \in t.codes :
          /\ k[1] \in shown
          /\ FactorStep(c, [NoFactorCall EXCEPT !.pc = "consume", !.off = off,
                                !.codes = t.codes \ {k}, !.used = {k}])
  BY DEF useRecoveryCode
<1>4. PICK k \in t.codes :
          /\ k[1] \in shown
          /\ FactorStep(c, [NoFactorCall EXCEPT !.pc = "consume", !.off = off,
                                !.codes = t.codes \ {k}, !.used = {k}])
  BY <1>3
<1>5. t.codes \subseteq Recovery
  BY <1>1 DEF FactorRows
<1>6. t.codes \in SUBSET Recovery
  BY <1>5
<1>7. PICK q \in FactorRequests :
          FactorStep(c, q) /\ q.pc = "consume" /\ q.codes = t.codes \ {k} /\ q.used = {k}
  BY ZenonT(60), <1>4, <1>6, ConsumeBegun
<1>9. ~rushed' => /\ ~rushed /\ \A d \in FactorCalls : fcall[d].pc # "consume"
                  /\ \A j \in t.codes : accepted[j] = 0
  BY <1>2 DEF At, FactorInv, Unrushed
<1> QED
  BY <1>1, <1>2, <1>4, <1>7, <1>9, FactorGoesOn DEF SetupSteps

LEMMA Store2FAStep ==
    ASSUME FactorInv, NEW c \in FactorCalls, Store2FA(c)
    PROVE  FactorInv'
<1>1. /\ FactorTypeOK /\ Unmixed /\ Unshown /\ Unrushed /\ fcall[c] \in FactorRequests
      /\ fcall[c].pc = "setup_store" /\ UNCHANGED <<shown, accepted, confirmed, mixed, rushed, ffaults>>
  BY DEF FactorInv, FactorTypeOK, Store2FA, factorGhosts
<1>2. PICK s \in Secrets \ drawn :
          /\ tfa' = tfa \cup {[secret |-> s, enabled |-> FALSE, codes |-> {}]}
          /\ drawn' = drawn \cup {s}
          /\ FactorStep(c, [fcall[c] EXCEPT !.pc = "setup_codes", !.secret = s, !.codes = {s} \X Codes])
  BY DEF Store2FA
<1>3. PICK q \in FactorRequests :
          FactorStep(c, q) /\ q.pc = "setup_codes" /\ q.secret = s /\ q.codes = {s} \X Codes
  BY ZenonT(60), <1>1, <1>2, SecretDrawn
<1>4. /\ fcall' \in [FactorCalls -> FactorRequests]
      /\ \A d \in FactorCalls : fcall'[d] = IF d = c THEN q ELSE fcall[d]
  BY <1>1, <1>3, FactorMoves
<1>5. PICK row : row = [secret |-> s, enabled |-> FALSE, codes |-> {}]
  OBVIOUS
<1>6. row \in FactorRows /\ row.secret = s /\ row.enabled = FALSE /\ row.codes = {} /\ tfa' = tfa \cup {row}
  BY <1>2, <1>5 DEF FactorRows
<1>7. FactorTypeOK'
  BY <1>1, <1>2, <1>4, <1>6 DEF FactorTypeOK
<1>8. Unmixed'
  <2>1. SUFFICES ASSUME ~mixed PROVE Unmixed'
    BY <1>1 DEF Unmixed
  <2>2. tfa = {} /\ \A d \in FactorCalls : fcall[d].pc # "enable" /\ (d # c => fcall[d].pc \notin SetupSteps)
    BY <1>1, <2>1 DEF Unmixed, SetupSteps
  <2>3. \A d \in FactorCalls : fcall'[d].pc # "enable" /\ (d # c => fcall'[d].pc \notin SetupSteps)
                               /\ fcall'[d].pc # "setup_store"
    BY <1>3, <1>4, <2>2 DEF SetupSteps
  <2>4. \A t \in tfa' : t = row
    BY <1>6, <2>2
  <2> QED
    BY <1>6, <2>3, <2>4 DEF Unmixed
<1>9. Unshown'
  <2>1. \A k \in q.codes : k[1] = s
    BY <1>3
  <2>2. s \in drawn' \ shown'
    BY <1>1, <1>2 DEF FactorTypeOK
  <2>3. \A d \in FactorCalls : d # c /\ fcall[d].pc = "setup_codes" => fcall[d].secret # s
    BY <1>1, <1>2 DEF Unshown
  <2> QED
    BY <1>1, <1>2, <1>3, <1>4, <2>1, <2>2, <2>3 DEF Unshown
<1>10. Unrushed'
  BY <1>1, <1>3, <1>4, <1>6 DEF Unrushed
<1> QED
  BY <1>7, <1>8, <1>9, <1>10 DEF FactorInv

LEMMA SetupCodesStep ==
    ASSUME FactorInv, NEW c \in FactorCalls, SetupCodes(c)
    PROVE  FactorInv'
<1>1. /\ FactorTypeOK /\ Unmixed /\ Unshown /\ Unrushed /\ fcall[c] \in FactorRequests
      /\ fcall[c].pc = "setup_codes" /\ UNCHANGED <<drawn, accepted, confirmed, mixed, rushed, ffaults>>
      /\ shown' = shown \cup {fcall[c].secret} /\ FactorStep(c, NoFactorCall)
      /\ fcall[c].codes \in SUBSET Recovery /\ tfa \subseteq FactorRows
  BY DEF FactorInv, FactorTypeOK, FactorRequests, SetupCodes, factorGhosts, FactorDone
<1>2. PICK codes \in SUBSET Recovery : codes = fcall[c].codes
  BY <1>1
<1>3. StoreRecoveryCodes(codes)
  BY <1>2 DEF SetupCodes
<1>4. /\ tfa' \subseteq FactorRows
      /\ \A t \in tfa' : t.codes = codes /\ \E s \in tfa : s.secret = t.secret /\ s.enabled = t.enabled
      /\ (\A s, t \in tfa : s = t) => \A s, t \in tfa' : s = t
  BY <1>1, <1>3, CodesStored
<1>5. /\ fcall' \in [FactorCalls -> FactorRequests]
      /\ \A d \in FactorCalls : fcall'[d] = IF d = c THEN NoFactorCall ELSE fcall[d]
  BY <1>1, FactorIdle, FactorMoves
<1>6. fcall[c].secret \in drawn \ shown /\ \A k \in codes : k[1] = fcall[c].secret
  BY <1>1, <1>2 DEF Unshown
<1>7. FactorTypeOK'
  BY <1>1, <1>4, <1>5, <1>6 DEF FactorTypeOK
<1>8. Unmixed'
  <2>1. SUFFICES ASSUME ~mixed PROVE Unmixed'
    BY <1>1 DEF Unmixed
  <2>2. \A d \in FactorCalls : d # c => fcall[d].pc \notin SetupSteps
    BY <1>1, <2>1 DEF Unmixed, SetupSteps
  <2>3. \A d \in FactorCalls : fcall[d].pc # "enable"
    BY <1>1, <2>1 DEF Unmixed, SetupSteps
  <2>4. \A d \in FactorCalls : fcall'[d].pc # "enable" /\ fcall'[d].pc \notin SetupSteps
    BY <1>5, <2>2, <2>3, FactorIdle DEF SetupSteps
  <2>5. \A t \in tfa' : t.enabled = TRUE => t.secret \in confirmed
    BY <1>1, <1>4, <2>1 DEF Unmixed
  <2>6. \A s, t \in tfa' : s = t
    BY <1>1, <1>4, <2>1 DEF Unmixed
  <2> QED
    BY <1>1, <2>4, <2>5, <2>6 DEF Unmixed, SetupSteps
<1>9. Unshown'
  <2>1. \A d \in FactorCalls : fcall'[d].pc = "setup_codes" => d # c /\ fcall'[d] = fcall[d]
    BY <1>5, FactorIdle
  <2>2. \A d \in FactorCalls : d # c /\ fcall[d].pc = "setup_codes" => fcall[d].secret # fcall[c].secret
    BY <1>1 DEF Unshown
  <2>3. \A d \in FactorCalls : fcall'[d].pc = "consume" => fcall'[d] = fcall[d]
    BY <1>5, FactorIdle
  <2> QED
    BY <1>1, <2>1, <2>2, <2>3 DEF Unshown
<1>10. Unrushed'
  <2>1. SUFFICES ASSUME ~rushed PROVE Unrushed'
    BY <1>1 DEF Unrushed
  <2>2. \A k \in codes : accepted[k] = 0
    BY <1>1, <1>6 DEF Unshown
  <2>3. \A d \in FactorCalls : fcall'[d].pc = "consume" => fcall'[d] = fcall[d]
    BY <1>5, FactorIdle
  <2> QED
    BY <1>1, <1>4, <2>1, <2>2, <2>3 DEF Unrushed
<1> QED
  BY <1>7, <1>8, <1>9, <1>10 DEF FactorInv

LEMMA EnableUpdateStep ==
    ASSUME FactorInv, NEW c \in FactorCalls, EnableUpdate(c)
    PROVE  FactorInv'
<1>1. /\ FactorTypeOK /\ Unmixed /\ Unshown /\ Unrushed
      /\ fcall[c].pc = "enable" /\ UNCHANGED <<drawn, shown, accepted, confirmed, mixed, rushed, ffaults>>
      /\ FactorStep(c, NoFactorCall) /\ tfa \subseteq FactorRows
      /\ tfa' = {[t EXCEPT !.enabled = TRUE] : t \in tfa}
  BY DEF FactorInv, FactorTypeOK, EnableUpdate, factorGhosts, FactorDone
<1>2. /\ tfa' \subseteq FactorRows
      /\ \A t \in tfa' : \E s \in tfa : s.secret = t.secret /\ s.codes = t.codes
      /\ (\A s, t \in tfa : s = t) => \A s, t \in tfa' : s = t
  BY <1>1, SwitchedOn
<1>3. /\ fcall' \in [FactorCalls -> FactorRequests]
      /\ \A d \in FactorCalls : fcall'[d] = IF d = c THEN NoFactorCall ELSE fcall[d]
  BY <1>1, FactorIdle, FactorMoves
<1>4. FactorTypeOK'
  BY <1>1, <1>2, <1>3 DEF FactorTypeOK
<1>5. Unmixed'
  <2>1. SUFFICES ASSUME ~mixed PROVE Unmixed'
    BY <1>1 DEF Unmixed
  <2>2. \A d \in FactorCalls : fcall'[d].pc \notin SetupSteps
    BY <1>1, <1>3, <2>1, FactorIdle DEF Unmixed, SetupSteps
  <2>3. \A t \in tfa : t.secret \in confirmed
    BY <1>1, <2>1 DEF Unmixed
  <2>4. \A t \in tfa' : t.secret \in confirmed
    BY <1>2, <2>3
  <2>5. \A s, t \in tfa' : s = t
    BY <1>1, <1>2, <2>1 DEF Unmixed
  <2> QED
    BY <1>1, <2>2, <2>4, <2>5 DEF Unmixed, SetupSteps
<1>6. \A d \in FactorCalls : fcall'[d].pc \in {"setup_codes", "consume"} => fcall'[d] = fcall[d]
  BY <1>3, FactorIdle
<1>7. Unshown'
  BY <1>1, <1>6 DEF Unshown
<1>8. Unrushed'
  <2>1. SUFFICES ASSUME ~rushed PROVE Unrushed'
    BY <1>1 DEF Unrushed
  <2>2. \A t \in tfa' : \A k \in t.codes : accepted[k] = 0
    BY <1>1, <1>2, <2>1 DEF Unrushed
  <2> QED
    BY <1>1, <1>6, <2>1, <2>2 DEF Unrushed
<1> QED
  BY <1>4, <1>5, <1>7, <1>8 DEF FactorInv

LEMMA ConsumeCodeStep ==
    ASSUME FactorInv, NEW c \in FactorCalls, ConsumeCode(c)
    PROVE  FactorInv'
<1>1. /\ FactorTypeOK /\ Unmixed /\ Unshown /\ Unrushed
      /\ fcall[c].pc = "consume" /\ UNCHANGED <<drawn, shown, confirmed, mixed, rushed, ffaults>>
      /\ tfa \subseteq FactorRows /\ fcall[c].codes \in SUBSET Recovery
      /\ accepted \in [Recovery -> 0..2]
  BY DEF FactorInv, FactorTypeOK, FactorRequests, ConsumeCode
<1>2. PICK codes \in SUBSET Recovery : codes = fcall[c].codes
  BY <1>1
<1>3. StoreRecoveryCodes(codes)
  BY <1>2 DEF ConsumeCode
<1>4. /\ tfa' \subseteq FactorRows
      /\ \A t \in tfa' : t.codes = codes /\ \E s \in tfa : s.secret = t.secret /\ s.enabled = t.enabled
      /\ (\A s, t \in tfa : s = t) => \A s, t \in tfa' : s = t
  BY <1>1, <1>3, CodesStored
<1>5. PICK q \in FactorRequests : FactorStep(c, q) /\ q.pc \in {"idle", "delete"}
  <2>1. Accepted(c)
    BY DEF ConsumeCode
  <2> QED
    BY <2>1, FactorIdle DEF Accepted, FactorDone, FactorSteps
<1>6. /\ fcall' \in [FactorCalls -> FactorRequests]
      /\ \A d \in FactorCalls : fcall'[d] = IF d = c THEN q ELSE fcall[d]
  BY <1>1, <1>5, FactorMoves
<1>7. \A k \in Recovery : accepted'[k] = IF k \in fcall[c].used THEN Bumped(k) ELSE accepted[k]
  BY DEF ConsumeCode
<1>8. \A k \in Recovery : Bumped(k) \in 0..2 /\ (accepted[k] = 0 => Bumped(k) = 1)
  BY <1>1 DEF Bumped
<1>9. accepted' \in [Recovery -> 0..2]
  BY <1>1, <1>8 DEF ConsumeCode
<1>10. FactorTypeOK'
  BY <1>1, <1>4, <1>6, <1>9 DEF FactorTypeOK
<1>11. Unmixed'
  <2>1. SUFFICES ASSUME ~mixed PROVE Unmixed'
    BY <1>1 DEF Unmixed
  <2>2. \A d \in FactorCalls : fcall'[d].pc \in SetupSteps \cup {"enable"} => fcall'[d] = fcall[d]
    BY <1>5, <1>6 DEF SetupSteps
  <2>3. \A t \in tfa' : t.enabled = TRUE => t.secret \in confirmed
    BY <1>1, <1>4, <2>1 DEF Unmixed
  <2>4. tfa = {} => tfa' = {}
    BY <1>4
  <2>5. \A s, t \in tfa' : s = t
    BY <1>1, <1>4, <2>1 DEF Unmixed
  <2>6. \A a, d \in FactorCalls : fcall'[a].pc \in SetupSteps /\ fcall'[d].pc \in SetupSteps => a = d
    BY <1>1, <2>1, <2>2 DEF Unmixed
  <2>7. \A a, d \in FactorCalls : fcall'[a].pc \in SetupSteps => fcall'[d].pc # "enable"
    BY <1>1, <2>1, <2>2 DEF Unmixed
  <2>8. \A a \in FactorCalls : fcall'[a].pc = "setup_store" => tfa' = {}
    BY <1>1, <2>1, <2>2, <2>4 DEF Unmixed, SetupSteps
  <2>9. \A a \in FactorCalls : fcall'[a].pc = "enable" => \A t \in tfa' : t.secret \in confirmed
    BY <1>1, <1>4, <2>1, <2>2 DEF Unmixed
  <2> QED
    BY <1>1, <2>3, <2>5, <2>6, <2>7, <2>8, <2>9 DEF Unmixed
<1>12. \A d \in FactorCalls : fcall'[d].pc \in {"setup_codes", "consume"} => d # c /\ fcall'[d] = fcall[d]
  BY <1>5, <1>6
<1>13. Unshown'
  <2>1. \A k \in Recovery : accepted'[k] # 0 => k[1] \in shown
    BY <1>1, <1>7 DEF Unshown
  <2> QED
    BY <1>1, <1>12, <2>1 DEF Unshown
<1>14. Unrushed'
  <2>1. SUFFICES ASSUME ~rushed PROVE Unrushed'
    BY <1>1 DEF Unrushed
  <2>2. \A d \in FactorCalls : fcall'[d].pc # "consume"
    BY <1>1, <1>12, <2>1 DEF Unrushed
  <2>3. \A k \in Recovery : accepted'[k] <= 1
    BY <1>1, <1>7, <1>8, <2>1 DEF Unrushed
  <2>4. \A k \in codes : k \notin fcall[c].used /\ accepted[k] = 0
    BY <1>1, <1>2, <2>1 DEF Unshown, Unrushed
  <2>5. \A k \in codes : accepted'[k] = 0
    BY <1>7, <2>4
  <2>6. \A t \in tfa' : \A k \in t.codes : accepted'[k] = 0
    BY <1>4, <2>5
  <2> QED
    BY <2>2, <2>3, <2>6 DEF Unrushed
<1> QED
  BY <1>10, <1>11, <1>13, <1>14 DEF FactorInv

LEMMA FactorStart == FactorInit => FactorInv
<1> SUFFICES ASSUME FactorInit PROVE FactorInv
  OBVIOUS
<1>1. \A c \in FactorCalls : fcall[c] = NoFactorCall
  BY DEF FactorInit
<1>2. \A c \in FactorCalls : fcall[c].pc = "idle"
  BY <1>1, FactorIdle
<1>3. FactorTypeOK
  <2>1. ffaults \in 0..MaxFactorFaults /\ accepted \in [Recovery -> 0..2]
    BY TwoFactorAssumption DEF FactorInit
  <2> QED
    BY <2>1, FactorIdle DEF FactorInit, FactorTypeOK
<1>4. \A k \in Recovery : accepted[k] = 0
  BY DEF FactorInit
<1>5. Unmixed /\ Unshown /\ Unrushed
  BY <1>2, <1>4 DEF FactorInit, Unmixed, Unshown, Unrushed, SetupSteps
<1> QED
  BY <1>3, <1>5 DEF FactorInv

LEMMA FactorNextStep == FactorInv /\ [FactorNext]_factorVars => FactorInv'
<1> SUFFICES ASSUME FactorInv, [FactorNext]_factorVars PROVE FactorInv'
  OBVIOUS
<1>1. CASE UNCHANGED factorVars
  BY <1>1 DEF factorVars, FactorInv, FactorTypeOK, Unmixed, Unshown, Unrushed
<1>2. ASSUME NEW c \in FactorCalls,
             Setup2FA(c) \/ SetupReadFails(c) \/ Enable2FA(c) \/ Disable2FA(c)
      PROVE  FactorInv'
  BY <1>2, FactorBegins
<1>3. ASSUME NEW c \in FactorCalls,
             \/ ConsumeFails(c) \/ Delete2FA(c) \/ FactorStatementFails(c)
             \/ \E ok \in BOOLEAN : SetupDelete(c, ok)
      PROVE  FactorInv'
  BY <1>3, FactorEnds
<1>4. ASSUME NEW c \in FactorCalls, NEW off \in BOOLEAN, useRecoveryCode(c, off)
      PROVE  FactorInv'
  BY <1>4, UseRecoveryCodeStep
<1>5. ASSUME NEW c \in FactorCalls, Store2FA(c) \/ SetupCodes(c) \/ EnableUpdate(c) \/ ConsumeCode(c)
      PROVE  FactorInv'
  BY <1>5, Store2FAStep, SetupCodesStep, EnableUpdateStep, ConsumeCodeStep
<1> QED
  BY <1>1, <1>2, <1>3, <1>4, <1>5 DEF FactorNext

LEMMA FactorInvariant == FactorSpec => []FactorInv
BY FactorStart, FactorNextStep, PTL DEF FactorSpec

\* However many setups, confirmations, logins and faults overlap: a second factor that
\* is on was confirmed by its owner (Setup2FA, Enable2FA), save where setups ran beside
\* each other or could not read or delete, and a recovery code works once
\* (useRecoveryCode, also when writing the rest back fails), save where two were being
\* used at once.
THEOREM FactorHoldsAlways == FactorSpec => []FactorHolds
<1>1. FactorInv => FactorHolds
  <2> SUFFICES ASSUME FactorInv PROVE FactorHolds
    OBVIOUS
  <2>1. EnabledIsConfirmed
    BY DEF FactorInv, Unmixed, EnabledIsConfirmed
  <2>2. CodesWorkOnce
    BY DEF FactorInv, Unrushed, CodesWorkOnce
  <2> QED
    BY <2>1, <2>2 DEF FactorHolds
<1> QED
  BY <1>1, FactorInvariant, PTL

-----------------------------------------------------------------------------
(* AddressBook: one default address                                        *)

Defaults == {a \in Addresses : book[a] = "default"}

\* The row that the request is to write is gone, and with it what the request did.
Futile(t) == tx[t].new = FALSE /\ tx[t].id \notin Saved

\* A new address has its id to itself; a request that makes no default resets nothing;
\* what is locked is saved, and among it the address that is to become the default.
TxFits ==
    /\ \A t \in BookCalls : tx[t].new = TRUE =>
           tx[t].id \in Addresses /\ book[tx[t].id] = "none" /\ \A o \in BookCalls \ {t} : tx[o].id # tx[t].id
    /\ \A t \in BookCalls : tx[t].pc = "count" => tx[t].new = TRUE /\ tx[t].cleared = {}
    /\ \A t \in BookCalls : tx[t].pc \in {"reset", "lock"} => tx[t].default = TRUE
    /\ \A t \in BookCalls : tx[t].pc = "write" /\ tx[t].default = FALSE => tx[t].new = TRUE /\ tx[t].cleared = {}
    /\ \A t \in BookCalls : tx[t].pc = "write" => tx[t].cleared \subseteq Saved
    /\ \A t \in BookCalls : tx[t].pc \in {"lock", "write"} /\ tx[t].new = FALSE /\ tx[t].id \in Saved =>
                                tx[t].id \in tx[t].cleared

\* Unless a row was inserted past a reset: a reset that waits has every row, of the
\* requests about to write a default all but one are in vain, that one holds the
\* present default, and a book without a default never had one or lost it.
Uncrossed == ~crossed =>
    /\ \A t \in BookCalls : tx[t].pc = "lock" => Saved \subseteq tx[t].cleared
    /\ \A t, o \in BookCalls :
           /\ tx[t].pc = "write" /\ tx[t].default = TRUE
           /\ tx[o].pc = "write" /\ tx[o].default = TRUE
           /\ t # o
           => Futile(t) \/ Futile(o)
    /\ \A a, b \in Defaults : a = b
    /\ \A t \in BookCalls : tx[t].pc = "write" /\ tx[t].default = TRUE => Futile(t) \/ Defaults \subseteq tx[t].cleared
    /\ ~undefaulted /\ Saved # {} => Defaults # {}
    /\ ~undefaulted /\ Saved = {} => \A t \in BookCalls : tx[t].pc = "write" => tx[t].default = TRUE

BookInv == AddressTypeOK /\ TxFits /\ Uncrossed

LEMMA BookIdle ==
    /\ NoTx \in Transactions /\ NoTx.pc = "idle" /\ NoTx.new = FALSE /\ NoTx.default = FALSE
    /\ NoTx.cleared = {} /\ NoTx.id = NoAddress
BY DEF NoTx, Transactions

LEMMA TxMoves ==
    ASSUME AddressTypeOK, NEW t \in BookCalls, NEW q \in Transactions, TxStep(t, q)
    PROVE  /\ tx' \in [BookCalls -> Transactions]
           /\ \A o \in BookCalls : tx'[o] = IF o = t THEN q ELSE tx[o]
BY DEF AddressTypeOK, TxStep

\* How an address begins.
LEMMA TxBegun ==
    ASSUME NEW t \in BookCalls, NEW a \in Addresses, NEW isDefault \in BOOLEAN,
           TxStep(t, [NoTx EXCEPT !.pc = "count", !.id = a, !.new = TRUE, !.default = isDefault])
    PROVE  \E q \in Transactions : TxStep(t, q) /\ q.pc = "count" /\ q.id = a /\ q.new = TRUE /\ q.cleared = {}
<1>1. PICK r : r = NoTx
  OBVIOUS
<1>2. PICK q : q = [r EXCEPT !.pc = "count", !.id = a, !.new = TRUE, !.default = isDefault]
  OBVIOUS
<1>3. q = [pc |-> "count", id |-> a, new |-> TRUE, default |-> isDefault, cleared |-> {}]
  BY <1>1, <1>2 DEF NoTx
<1>4. q \in Transactions /\ q.pc = "count" /\ q.id = a /\ q.new = TRUE /\ q.cleared = {}
  BY <1>3 DEF Transactions
<1>5. TxStep(t, q)
  BY <1>1, <1>2
<1> QED
  BY <1>4, <1>5

\* A request goes on to state q and the book stays.
LEMMA BookGoesOn ==
    ASSUME BookInv, NEW t \in BookCalls, NEW q \in Transactions, TxStep(t, q),
           UNCHANGED <<book, undefaulted>>, crossed' \in BOOLEAN, crossed => crossed',
           bookEdits' \in 0..MaxBookEdits, bookFaults' \in 0..MaxBookFaults,
           q.new = TRUE => q.id \in Addresses /\ book[q.id] = "none" /\ \A o \in BookCalls \ {t} : tx[o].id # q.id,
           \A o \in BookCalls \ {t} : tx[o].new = TRUE => tx[o].id # q.id,
           q.pc = "count" => q.new = TRUE /\ q.cleared = {},
           q.pc \in {"reset", "lock"} => q.default = TRUE,
           q.pc = "write" /\ q.default = FALSE => q.new = TRUE /\ q.cleared = {},
           q.pc = "write" => q.cleared \subseteq Saved,
           q.pc \in {"lock", "write"} /\ q.new = FALSE /\ q.id \in Saved => q.id \in q.cleared,
           ~crossed' /\ q.pc = "lock" => Saved \subseteq q.cleared,
           ~crossed' /\ q.pc = "write" /\ q.default = TRUE =>
               /\ \A o \in BookCalls \ {t} : tx[o].pc = "write" /\ tx[o].default = TRUE => Futile(o)
               /\ Defaults \subseteq q.cleared,
           ~crossed' /\ ~undefaulted /\ Saved = {} /\ q.pc = "write" => q.default = TRUE
    PROVE  BookInv'
<1>1. AddressTypeOK /\ TxFits
  BY DEF BookInv
<1>2. /\ tx' \in [BookCalls -> Transactions]
      /\ \A o \in BookCalls : tx'[o] = IF o = t THEN q ELSE tx[o]
  BY <1>1, TxMoves
<1>3. Saved' = Saved /\ Defaults' = Defaults
  BY DEF Saved, Defaults
<1>4. AddressTypeOK'
  BY <1>1, <1>2 DEF AddressTypeOK
<1>5. TxFits'
  <2>1. ASSUME NEW o \in BookCalls, tx'[o].new = TRUE
        PROVE  tx'[o].id \in Addresses /\ book'[tx'[o].id] = "none" /\ \A p \in BookCalls \ {o} : tx'[p].id # tx'[o].id
    BY <1>1, <1>2, <2>1 DEF TxFits
  <2>2. \A o \in BookCalls : tx'[o].pc = "count" => tx'[o].new = TRUE /\ tx'[o].cleared = {}
    BY <1>1, <1>2 DEF TxFits
  <2>3. \A o \in BookCalls : tx'[o].pc \in {"reset", "lock"} => tx'[o].default = TRUE
    BY <1>1, <1>2 DEF TxFits
  <2>4. \A o \in BookCalls : tx'[o].pc = "write" /\ tx'[o].default = FALSE => tx'[o].new = TRUE /\ tx'[o].cleared = {}
    BY <1>1, <1>2 DEF TxFits
  <2>5. \A o \in BookCalls : tx'[o].pc = "write" => tx'[o].cleared \subseteq Saved
    BY <1>1, <1>2 DEF TxFits
  <2>6. \A o \in BookCalls : tx'[o].pc \in {"lock", "write"} /\ tx'[o].new = FALSE /\ tx'[o].id \in Saved =>
                                 tx'[o].id \in tx'[o].cleared
    BY <1>1, <1>2 DEF TxFits
  <2> QED
    BY <1>3, <2>1, <2>2, <2>3, <2>4, <2>5, <2>6 DEF TxFits
<1>6. Uncrossed'
  <2>1. SUFFICES ASSUME ~crossed' PROVE Uncrossed'
    BY DEF Uncrossed
  <2>2. Uncrossed /\ ~crossed
    BY <2>1 DEF BookInv
  <2>3. \A o \in BookCalls \ {t} : Futile(o) => Futile(o)'
    BY <1>2, <1>3 DEF Futile
  <2>4. \A o \in BookCalls : tx'[o].pc = "lock" => Saved \subseteq tx'[o].cleared
    BY <1>2, <2>1, <2>2 DEF Uncrossed
  <2>5. ASSUME NEW o \in BookCalls, NEW p \in BookCalls, o # p,
               tx'[o].pc = "write", tx'[o].default = TRUE, tx'[p].pc = "write", tx'[p].default = TRUE
        PROVE  Futile(o)' \/ Futile(p)'
    <3>1. CASE o = t
      BY <1>2, <2>1, <2>3, <2>5, <3>1
    <3>2. CASE p = t
      BY <1>2, <2>1, <2>3, <2>5, <3>2
    <3>3. CASE o # t /\ p # t
      BY <1>2, <2>2, <2>3, <2>5, <3>3 DEF Uncrossed
    <3> QED
      BY <3>1, <3>2, <3>3
  <2>6. ASSUME NEW o \in BookCalls, tx'[o].pc = "write", tx'[o].default = TRUE
        PROVE  Futile(o)' \/ Defaults \subseteq tx'[o].cleared
    <3>1. CASE o = t
      BY <1>2, <2>1, <2>6, <3>1
    <3>2. CASE o # t
      BY <1>2, <2>2, <2>3, <2>6, <3>2 DEF Uncrossed
    <3> QED
      BY <3>1, <3>2
  <2>7. /\ \A a, b \in Defaults : a = b
        /\ ~undefaulted /\ Saved # {} => Defaults # {}
    BY <2>2 DEF Uncrossed
  <2>8. ~undefaulted /\ Saved = {} => \A o \in BookCalls : tx'[o].pc = "write" => tx'[o].default = TRUE
    BY <1>2, <2>1, <2>2 DEF Uncrossed
  <2> QED
    BY <1>3, <2>1, <2>4, <2>5, <2>6, <2>7, <2>8 DEF Uncrossed
<1> QED
  BY <1>4, <1>5, <1>6 DEF BookInv

LEMMA BookBegun ==
    ASSUME BookInv, BookBegins
    PROVE  bookEdits' \in 0..MaxBookEdits /\ bookFaults' \in 0..MaxBookFaults
<1>1. /\ bookEdits \in 0..MaxBookEdits /\ bookEdits < MaxBookEdits /\ bookEdits' = bookEdits + 1
      /\ bookFaults' = bookFaults /\ bookFaults \in 0..MaxBookFaults
  BY DEF BookInv, AddressTypeOK, BookBegins
<1> QED
  BY <1>1, AddressAssumption

LEMMA BookOneStep ==
    ASSUME BookInv, NEW t \in BookCalls,
           \/ CountAddresses(t) \/ ResetDefaults(t) \/ LockRows(t) \/ NoSuchAddress(t) \/ BookFails(t)
           \/ \E a \in Addresses \cup {NoAddress} : SetDefault(t, a)
           \/ \E a \in Addresses, isDefault \in BOOLEAN : CreateAddress(t, a, isDefault)
    PROVE  BookInv'
<1>1. /\ AddressTypeOK /\ TxFits /\ Uncrossed /\ tx[t] \in Transactions /\ crossed \in BOOLEAN
      /\ bookEdits \in 0..MaxBookEdits /\ bookFaults \in 0..MaxBookFaults
      /\ NoAddress \notin Addresses
  BY AddressAssumption DEF BookInv, AddressTypeOK
<1>2. ASSUME TxEnds(t), UNCHANGED <<book, crossed, undefaulted>>,
             bookEdits' \in 0..MaxBookEdits, bookFaults' \in 0..MaxBookFaults
      PROVE  BookInv'
  <2>1. TxStep(t, NoTx)
    BY <1>2 DEF TxEnds
  <2>2. \A o \in BookCalls \ {t} : tx[o].new = TRUE => tx[o].id # NoTx.id
    BY <1>1, BookIdle DEF TxFits
  <2> QED
    BY <1>1, <1>2, <2>1, <2>2, BookIdle, BookGoesOn
<1>3. CASE NoSuchAddress(t)
  BY <1>1, <1>2, <1>3 DEF NoSuchAddress, BookGoes
<1>4. CASE BookFails(t)
  <2>1. bookFaults' \in 0..MaxBookFaults
    <3>1. bookFaults < MaxBookFaults /\ bookFaults' = bookFaults + 1
      BY <1>4 DEF BookFails
    <3> QED
      BY <1>1, <3>1, AddressAssumption
  <2> QED
    BY <1>1, <1>2, <1>4, <2>1 DEF BookFails
<1>5. ASSUME NEW a \in Addresses, NEW isDefault \in BOOLEAN, CreateAddress(t, a, isDefault)
      PROVE  BookInv'
  <2>1. /\ book[a] = "none" /\ \A o \in BookCalls : tx[o].id # a
        /\ UNCHANGED <<book, crossed, undefaulted>> /\ BookBegins
    BY <1>5 DEF CreateAddress
  <2>2. PICK q \in Transactions : TxStep(t, q) /\ q.pc = "count" /\ q.id = a /\ q.new = TRUE /\ q.cleared = {}
    BY ZenonT(60), <1>5, TxBegun DEF CreateAddress
  <2> QED
    BY <1>1, <2>1, <2>2, BookBegun, BookGoesOn
<1>6. ASSUME NEW a \in Addresses \cup {NoAddress}, SetDefault(t, a)
      PROVE  BookInv'
  <2>1. a \in Saved \cup {NoAddress} /\ UNCHANGED <<book, crossed, undefaulted>> /\ BookBegins
    BY <1>6 DEF SetDefault
  <2>2. PICK q \in Transactions :
              TxStep(t, q) /\ q.pc = "reset" /\ q.id = a /\ q.new = FALSE /\ q.default = TRUE /\ q.cleared = {}
    <3>1. PICK r : r = NoTx
      OBVIOUS
    <3>2. PICK q : q = [r EXCEPT !.pc = "reset", !.id = a, !.default = TRUE]
      OBVIOUS
    <3>3. q = [pc |-> "reset", id |-> a, new |-> FALSE, default |-> TRUE, cleared |-> {}]
      BY <3>1, <3>2 DEF NoTx
    <3>4. q \in Transactions /\ q.pc = "reset" /\ q.id = a /\ q.new = FALSE /\ q.default = TRUE /\ q.cleared = {}
      BY <3>3 DEF Transactions
    <3>5. TxStep(t, q)
      BY <1>6, <3>1, <3>2 DEF SetDefault
    <3> QED
      BY <3>4, <3>5
  <2>3. \A o \in BookCalls \ {t} : tx[o].new = TRUE => tx[o].id # q.id
    BY <1>1, <2>1, <2>2 DEF TxFits, Saved
  <2> QED
    BY <1>1, <2>1, <2>2, <2>3, BookBegun, BookGoesOn
<1>7. ASSUME NEW q \in Transactions, q.id = tx[t].id, q.new = tx[t].new
      PROVE  /\ q.new = TRUE => q.id \in Addresses /\ book[q.id] = "none" /\ \A o \in BookCalls \ {t} : tx[o].id # q.id
             /\ \A o \in BookCalls \ {t} : tx[o].new = TRUE => tx[o].id # q.id
  BY <1>1, <1>7 DEF TxFits
<1>8. CASE CountAddresses(t)
  <2>1. tx[t].pc = "count" /\ UNCHANGED <<book, crossed, undefaulted, bookEdits, bookFaults>>
    BY <1>8 DEF CountAddresses, BookGoes
  <2>2. PICK d \in BOOLEAN : d = MakeDefault(t)
    BY <1>1 DEF MakeDefault, Transactions
  <2>3. PICK p \in {"reset", "write"} : p = IF d THEN "reset" ELSE "write"
    OBVIOUS
  <2>4. TxStep(t, [tx[t] EXCEPT !.default = d, !.pc = p])
    BY <1>8, <2>2, <2>3 DEF CountAddresses
  <2>5. PICK q \in Transactions :
              /\ TxStep(t, q) /\ q.pc = p /\ q.default = d
              /\ q.id = tx[t].id /\ q.new = tx[t].new /\ q.cleared = tx[t].cleared
    <3>1. PICK r \in Transactions : r = tx[t]
      BY <1>1
    <3>2. PICK q : q = [r EXCEPT !.default = d, !.pc = p]
      OBVIOUS
    <3>3. q \in Transactions
      BY <3>2 DEF Transactions
    <3>4. q.pc = p /\ q.default = d /\ q.id = r.id /\ q.new = r.new /\ q.cleared = r.cleared
      BY <3>2, <3>3 DEF Transactions
    <3>5. TxStep(t, q)
      BY <2>4, <3>1, <3>2
    <3> QED
      BY <3>1, <3>3, <3>4, <3>5
  <2>6. q.new = TRUE /\ q.cleared = {}
    BY <1>1, <2>1, <2>5 DEF TxFits
  <2>7. d = FALSE => Saved # {}
    BY <2>2 DEF MakeDefault
  <2>8. (p = "reset" /\ d = TRUE) \/ (p = "write" /\ d = FALSE)
    BY <2>3
  <2> QED
    BY <1>1, <1>7, <2>1, <2>5, <2>6, <2>7, <2>8, BookGoesOn
<1>9. CASE ResetDefaults(t)
  <2>1. tx[t].pc = "reset" /\ UNCHANGED <<book, crossed, undefaulted, bookEdits, bookFaults>>
    BY <1>9 DEF ResetDefaults, BookGoes
  <2>2. PICK held \in SUBSET Addresses : held = Saved
    BY DEF Saved
  <2>3. TxStep(t, [tx[t] EXCEPT !.cleared = held, !.pc = "lock"])
    BY <1>9, <2>2 DEF ResetDefaults
  <2>4. PICK q \in Transactions :
              /\ TxStep(t, q) /\ q.pc = "lock" /\ q.default = tx[t].default
              /\ q.id = tx[t].id /\ q.new = tx[t].new /\ q.cleared = held
    <3>1. PICK r \in Transactions : r = tx[t]
      BY <1>1
    <3>2. PICK q : q = [r EXCEPT !.cleared = held, !.pc = "lock"]
      OBVIOUS
    <3>3. q \in Transactions
      BY <3>2 DEF Transactions
    <3>4. q.pc = "lock" /\ q.default = r.default /\ q.id = r.id /\ q.new = r.new /\ q.cleared = held
      BY <3>2, <3>3 DEF Transactions
    <3>5. TxStep(t, q)
      BY <2>3, <3>1, <3>2
    <3> QED
      BY <3>1, <3>3, <3>4, <3>5
  <2>5. q.default = TRUE
    BY <1>1, <2>1, <2>4 DEF TxFits
  <2> QED
    BY <1>1, <1>7, <2>1, <2>2, <2>4, <2>5, BookGoesOn
<1>10. CASE LockRows(t)
  <2>1. /\ tx[t].pc = "lock" /\ UNCHANGED <<book, undefaulted, bookEdits, bookFaults>>
        /\ tx[t].cleared \cap Held = {}
        /\ crossed' = (crossed \/ \E o \in BookCalls \ {t} : tx[o].pc = "write" /\ tx[o].new /\ tx[o].default)
    BY <1>10 DEF LockRows, BookGoes
  <2>2. PICK held \in SUBSET Addresses : held = tx[t].cleared \cap Saved
    BY DEF Saved
  <2>3. TxStep(t, [tx[t] EXCEPT !.cleared = held, !.pc = "write"])
    BY <1>10, <2>2 DEF LockRows
  <2>4. PICK q \in Transactions :
              /\ TxStep(t, q) /\ q.pc = "write" /\ q.default = tx[t].default
              /\ q.id = tx[t].id /\ q.new = tx[t].new /\ q.cleared = held
    <3>1. PICK r \in Transactions : r = tx[t]
      BY <1>1
    <3>2. PICK q : q = [r EXCEPT !.cleared = held, !.pc = "write"]
      OBVIOUS
    <3>3. q \in Transactions
      BY <3>2 DEF Transactions
    <3>4. q.pc = "write" /\ q.default = r.default /\ q.id = r.id /\ q.new = r.new /\ q.cleared = held
      BY <3>2, <3>3 DEF Transactions
    <3>5. TxStep(t, q)
      BY <2>3, <3>1, <3>2
    <3> QED
      BY <3>1, <3>3, <3>4, <3>5
  <2>5. q.default = TRUE /\ (q.new = FALSE /\ q.id \in Saved => q.id \in q.cleared)
    BY <1>1, <2>1, <2>2, <2>4 DEF TxFits
  <2>6. ASSUME ~crossed' PROVE Saved \subseteq q.cleared /\ Defaults \subseteq q.cleared
    BY <1>1, <2>1, <2>2, <2>4, <2>6 DEF Uncrossed, Defaults, Saved
  <2>7. ASSUME ~crossed', NEW o \in BookCalls \ {t}, tx[o].pc = "write", tx[o].default = TRUE
        PROVE  Futile(o)
    <3>1. tx[o].new = FALSE
      BY <1>1, <2>1, <2>7 DEF AddressTypeOK, Transactions
    <3>2. tx[o].id \in Saved => tx[o].id \in tx[o].cleared
      BY <1>1, <2>7, <3>1 DEF TxFits
    <3>3. tx[o].cleared \subseteq Held
      BY <2>7 DEF Held
    <3>4. tx[o].id \in Saved => tx[o].id \in tx[t].cleared
      BY <2>2, <2>4, <2>6, <2>7
    <3> QED
      BY <2>1, <3>1, <3>2, <3>3, <3>4 DEF Futile
  <2>8. q.pc = "write" => q.cleared \subseteq Saved
    BY <2>2, <2>4
  <2>9. crossed' \in BOOLEAN
    BY <1>1, <2>1
  <2> QED
    BY <1>1, <1>7, <2>1, <2>4, <2>5, <2>6, <2>7, <2>8, <2>9, BookGoesOn
<1> QED
  BY <1>3, <1>4, <1>5, <1>6, <1>8, <1>9, <1>10

LEMMA DeleteAddressStep ==
    ASSUME BookInv, NEW a \in Addresses, DeleteAddress(a)
    PROVE  BookInv'
<1>1. /\ AddressTypeOK /\ TxFits /\ Uncrossed /\ book \in [Addresses -> {"none", "plain", "default"}]
      /\ a \in Saved \ Held /\ book' = [book EXCEPT ![a] = "none"]
      /\ undefaulted' = (undefaulted \/ book[a] = "default") /\ BookBegins /\ UNCHANGED <<tx, crossed>>
  BY DEF BookInv, AddressTypeOK, DeleteAddress
<1>2. /\ book' \in [Addresses -> {"none", "plain", "default"}]
      /\ \A b \in Addresses : book'[b] = IF b = a THEN "none" ELSE book[b]
  BY <1>1
<1>3. Saved' = Saved \ {a} /\ Defaults' = Defaults \ {a}
  BY <1>2 DEF Saved, Defaults
<1>4. AddressTypeOK'
  BY <1>1, <1>2, BookBegun DEF AddressTypeOK
<1>5. TxFits'
  <2>1. ASSUME NEW o \in BookCalls, tx[o].pc = "write" PROVE tx[o].cleared \subseteq Saved \ {a}
    BY <1>1, <2>1 DEF TxFits, Held
  <2> QED
    BY <1>1, <1>2, <1>3, <2>1 DEF TxFits
<1>6. Uncrossed'
  <2>1. SUFFICES ASSUME ~crossed PROVE Uncrossed'
    BY <1>1 DEF Uncrossed
  <2>2. \A o \in BookCalls : Futile(o) => Futile(o)'
    BY <1>1, <1>3 DEF Futile
  <2>3. ~undefaulted' => ~undefaulted /\ a \notin Defaults
    BY <1>1 DEF Defaults
  <2>4. \A o \in BookCalls : tx[o].pc = "lock" => Saved' \subseteq tx[o].cleared
    BY <1>1, <1>3, <2>1 DEF Uncrossed
  <2>5. \A o, p \in BookCalls : /\ tx[o].pc = "write" /\ tx[o].default = TRUE
                                /\ tx[p].pc = "write" /\ tx[p].default = TRUE
                                /\ o # p
                                => Futile(o)' \/ Futile(p)'
    BY <1>1, <2>1, <2>2 DEF Uncrossed
  <2>6. \A o \in BookCalls : tx[o].pc = "write" /\ tx[o].default = TRUE => Futile(o)' \/ Defaults' \subseteq tx[o].cleared
    BY <1>1, <1>3, <2>1, <2>2 DEF Uncrossed
  <2>7. /\ \A b, d \in Defaults' : b = d
        /\ ~undefaulted' /\ Saved' # {} => Defaults' # {}
    BY <1>1, <1>3, <2>1, <2>3 DEF Uncrossed
  <2>8. ~undefaulted' => Saved' # {}
    <3>1. ASSUME ~undefaulted' PROVE \E d \in Defaults : d # a
      BY <1>1, <2>1, <2>3, <3>1 DEF Uncrossed
    <3> QED
      BY <1>3, <3>1 DEF Defaults, Saved
  <2> QED
    BY <1>1, <2>4, <2>5, <2>6, <2>7, <2>8 DEF Uncrossed
<1> QED
  BY <1>4, <1>5, <1>6 DEF BookInv

LEMMA WriteAddressStep ==
    ASSUME BookInv, NEW t \in BookCalls, WriteAddress(t)
    PROVE  BookInv'
<1>1. PICK r \in Transactions : r = tx[t]
  BY DEF BookInv, AddressTypeOK
<1>2. /\ AddressTypeOK /\ TxFits /\ Uncrossed /\ book \in [Addresses -> {"none", "plain", "default"}]
      /\ r.pc = "write" /\ (r.new = TRUE \/ r.id \in Saved) /\ UNCHANGED <<bookEdits, bookFaults>>
      /\ book' = [a \in Addresses |-> IF a = r.id THEN IF r.default THEN "default" ELSE "plain"
                                      ELSE IF a \in r.cleared THEN "plain" ELSE book[a]]
      /\ undefaulted' = (undefaulted /\ ~r.default)
      /\ crossed' = (crossed \/ (r.new /\ \E o \in BookCalls : tx[o].pc = "lock"))
      /\ TxStep(t, NoTx)
  BY <1>1 DEF BookInv, AddressTypeOK, WriteAddress, TxEnds, BookGoes
<1>3. /\ tx' \in [BookCalls -> Transactions]
      /\ \A o \in BookCalls : tx'[o] = IF o = t THEN NoTx ELSE tx[o]
  BY <1>2, BookIdle, TxMoves
<1>4. /\ r.new \in BOOLEAN /\ r.default \in BOOLEAN /\ r.id \in Addresses /\ r.cleared \subseteq Saved
      /\ r.new = TRUE => book[r.id] = "none"
      /\ r.default = FALSE => r.new = TRUE /\ r.cleared = {}
      /\ ~Futile(t)
  BY <1>1, <1>2 DEF TxFits, Transactions, Saved, Futile
<1>5. /\ book' \in [Addresses -> {"none", "plain", "default"}]
      /\ \A a \in Addresses : book'[a] = IF a = r.id THEN IF r.default THEN "default" ELSE "plain"
                                         ELSE IF a \in r.cleared THEN "plain" ELSE book[a]
  BY <1>2
<1>6. Saved' = Saved \cup {r.id} /\ (r.new = FALSE => Saved' = Saved)
  BY <1>2, <1>4, <1>5 DEF Saved
<1>7. AddressTypeOK'
  BY <1>2, <1>3, <1>4, <1>5 DEF AddressTypeOK
<1>8. \A o \in BookCalls \ {t} : /\ tx'[o] = tx[o]
                                 /\ r.new = TRUE \/ tx[o].new = TRUE => tx[o].id # r.id
  BY <1>1, <1>2, <1>3 DEF TxFits
<1>9. \A o \in BookCalls : tx'[o].pc # "idle" \/ tx'[o].new = TRUE => o # t
  BY <1>3, BookIdle
<1>10. TxFits'
  <2>1. ASSUME NEW o \in BookCalls, tx'[o].new = TRUE
        PROVE  tx'[o].id \in Addresses /\ book'[tx'[o].id] = "none" /\ \A p \in BookCalls \ {o} : tx'[p].id # tx'[o].id
    <3>1. o # t /\ tx'[o] = tx[o] /\ tx[o].id # r.id /\ tx[o].new = TRUE
      BY <1>8, <1>9, <2>1
    <3>2. tx[o].id \in Addresses /\ book[tx[o].id] = "none" /\ \A p \in BookCalls \ {o} : tx[p].id # tx[o].id
      BY <1>2, <3>1 DEF TxFits
    <3>3. book'[tx[o].id] = "none"
      BY <1>4, <1>5, <3>1, <3>2 DEF Saved
    <3>4. \A p \in BookCalls \ {o} : tx'[p].id # tx[o].id
      BY <1>3, <3>2, BookIdle, AddressAssumption
    <3> QED
      BY <3>1, <3>2, <3>3, <3>4
  <2>2. ASSUME NEW o \in BookCalls, tx'[o].pc \in {"lock", "write"}, tx'[o].new = FALSE, tx'[o].id \in Saved'
        PROVE  tx'[o].id \in tx'[o].cleared
    <3>1. o # t /\ tx'[o] = tx[o]
      BY <1>8, <1>9, <2>2
    <3>2. tx[o].id \in Saved
      BY <1>4, <1>6, <1>8, <2>2, <3>1
    <3> QED
      BY <1>2, <2>2, <3>1, <3>2 DEF TxFits
  <2>3. \A o \in BookCalls : tx'[o].pc = "write" => tx'[o].cleared \subseteq Saved'
    BY <1>2, <1>6, <1>8, <1>9 DEF TxFits
  <2>4. \A o \in BookCalls :
           /\ tx'[o].pc = "count" => tx'[o].new = TRUE /\ tx'[o].cleared = {}
           /\ tx'[o].pc \in {"reset", "lock"} => tx'[o].default = TRUE
           /\ tx'[o].pc = "write" /\ tx'[o].default = FALSE => tx'[o].new = TRUE /\ tx'[o].cleared = {}
    BY <1>2, <1>8, <1>9 DEF TxFits
  <2> QED
    BY <2>1, <2>2, <2>3, <2>4 DEF TxFits
<1>11. Uncrossed'
  <2>1. SUFFICES ASSUME ~crossed' PROVE Uncrossed'
    BY DEF Uncrossed
  <2>2. ~crossed /\ (r.new = TRUE => \A o \in BookCalls : tx[o].pc # "lock")
    BY <1>2, <2>1
  <2>3. \A o \in BookCalls \ {t} : Futile(o) => Futile(o)'
    BY <1>4, <1>6, <1>8 DEF Futile
  <2>4. \A o \in BookCalls : tx'[o].pc = "lock" => Saved' \subseteq tx'[o].cleared
    BY <1>2, <1>4, <1>6, <1>8, <1>9, <2>2 DEF Uncrossed
  <2>5. \A o, p \in BookCalls : /\ tx'[o].pc = "write" /\ tx'[o].default = TRUE
                                /\ tx'[p].pc = "write" /\ tx'[p].default = TRUE
                                /\ o # p
                                => Futile(o)' \/ Futile(p)'
    BY <1>2, <1>8, <1>9, <2>2, <2>3 DEF Uncrossed
  <2>6. CASE r.default = TRUE
    <3>1. Defaults \subseteq r.cleared
      BY <1>1, <1>2, <1>4, <2>2, <2>6 DEF Uncrossed
    <3>2. Defaults' = {r.id}
      BY <1>4, <1>5, <2>6, <3>1 DEF Defaults
    <3>3. \A o \in BookCalls : tx'[o].pc = "write" /\ tx'[o].default = TRUE => Futile(o)'
      BY <1>1, <1>2, <1>4, <1>8, <1>9, <2>2, <2>3, <2>6 DEF Uncrossed
    <3> QED
      BY <1>6, <2>1, <2>4, <2>5, <3>2, <3>3 DEF Uncrossed
  <2>7. CASE r.default = FALSE
    <3>1. Defaults' = Defaults
      BY <1>4, <1>5, <2>7 DEF Defaults
    <3>2. ~undefaulted' => ~undefaulted /\ Saved # {} /\ Defaults # {}
      BY <1>1, <1>2, <2>2, <2>7 DEF Uncrossed
    <3>3. \A o \in BookCalls : tx'[o].pc = "write" /\ tx'[o].default = TRUE => Futile(o)' \/ Defaults' \subseteq tx'[o].cleared
      BY <1>2, <1>8, <1>9, <2>2, <2>3, <3>1 DEF Uncrossed
    <3>4. \A a, b \in Defaults' : a = b
      BY <1>2, <2>2, <3>1 DEF Uncrossed
    <3> QED
      BY <1>6, <2>1, <2>4, <2>5, <3>1, <3>2, <3>3, <3>4 DEF Uncrossed
  <2> QED
    BY <1>4, <2>6, <2>7
<1> QED
  BY <1>7, <1>10, <1>11 DEF BookInv

LEMMA BookStart == AddressInit => BookInv
<1> SUFFICES ASSUME AddressInit PROVE BookInv
  OBVIOUS
<1>1. \A t \in BookCalls : tx[t] = NoTx
  BY DEF AddressInit
<1>2. Saved = {} /\ Defaults = {}
  BY DEF AddressInit, Saved, Defaults
<1>3. AddressTypeOK
  <2>1. bookEdits \in 0..MaxBookEdits /\ bookFaults \in 0..MaxBookFaults
    BY AddressAssumption DEF AddressInit
  <2>2. tx \in [BookCalls -> Transactions] /\ book \in [Addresses -> {"none", "plain", "default"}]
    BY BookIdle DEF AddressInit
  <2> QED
    BY <2>1, <2>2 DEF AddressInit, AddressTypeOK
<1>4. TxFits
  BY <1>1, BookIdle DEF TxFits
<1>5. Uncrossed
  BY <1>1, <1>2, BookIdle DEF Uncrossed
<1> QED
  BY <1>3, <1>4, <1>5 DEF BookInv

LEMMA BookStep == BookInv /\ [AddressNext]_bookVars => BookInv'
<1> SUFFICES ASSUME BookInv, [AddressNext]_bookVars PROVE BookInv'
  OBVIOUS
<1>1. CASE UNCHANGED bookVars
  BY <1>1 DEF bookVars, BookInv, AddressTypeOK, TxFits, Uncrossed, Saved, Defaults, Futile
<1>2. ASSUME NEW t \in BookCalls,
             \/ CountAddresses(t) \/ ResetDefaults(t) \/ LockRows(t) \/ NoSuchAddress(t) \/ BookFails(t)
             \/ \E a \in Addresses \cup {NoAddress} : SetDefault(t, a)
             \/ \E a \in Addresses, isDefault \in BOOLEAN : CreateAddress(t, a, isDefault)
      PROVE  BookInv'
  BY <1>2, BookOneStep
<1>3. ASSUME NEW t \in BookCalls, WriteAddress(t) PROVE BookInv'
  BY <1>3, WriteAddressStep
<1>4. ASSUME NEW a \in Addresses, DeleteAddress(a) PROVE BookInv'
  BY <1>4, DeleteAddressStep
<1> QED
  BY <1>1, <1>2, <1>3, <1>4 DEF AddressNext

LEMMA BookInvariant == AddressSpec => []BookInv
BY BookStart, BookStep, PTL DEF AddressSpec

\* However many requests overlap, fail or name an address that is gone: a user who has
\* addresses has exactly one default (Create, Update, SetDefault: the reset and the row
\* in one transaction), unless a row was inserted past a reset or the default deleted.
THEOREM OneDefaultAlways == AddressSpec => []OneDefaultAddress
<1>1. BookInv => OneDefaultAddress
  <2> SUFFICES ASSUME BookInv, ~crossed, ~undefaulted, Saved # {} PROVE Cardinality(Defaults) = 1
    BY DEF OneDefaultAddress, Defaults
  <2>1. PICK d \in Defaults : \A b \in Defaults : b = d
    BY DEF BookInv, Uncrossed
  <2>2. Defaults = {d}
    BY <2>1
  <2> QED
    BY <2>2, FS_Singleton
<1> QED
  BY <1>1, BookInvariant, PTL

-----------------------------------------------------------------------------
(* RateLimiter: what sweeping and expiry forget                            *)

\* The bucket of client i, unless an exception applies to him: it was used at most so
\* long after it was found that it is full again before it may be forgotten, it is the
\* one that a request under way has found, and it holds what an unforgotten one would.
Remembered(i) ==
    /\ bucket[i].made = TRUE => /\ bucket[i].at <= clock
                                /\ (bucket[i].at - bucket[i].seen) * Rate <= Ttl * Rate - Burst
    /\ bucket[i].made = TRUE /\ admitting[i].made = TRUE => admitting[i].seen <= bucket[i].seen
    /\ Refilled(bucket[i], clock) = ideal[i]

LimiterInv ==
    /\ LimiterTypeOK
    /\ \A i \in Clients : admitting[i].made = TRUE => admitting[i].seen <= clock
    /\ \A i \in Clients \ excused : Remembered(i)

LEMMA Scaled ==
    /\ \A a, b \in Int : a <= b => a * Rate <= b * Rate
    /\ \A a, b \in Int : (a - b) * Rate = a * Rate - b * Rate
    /\ \A a \in Int : (a + 1) * Rate = a * Rate + Rate
    /\ \A a \in Int : Rate * a = a * Rate
    /\ \A a \in Int : a * Rate \in Int
BY LimiterAssumption

LEMMA RefilledIs ==
    ASSUME NEW b \in Buckets, NEW t \in Times
    PROVE  /\ Refilled(b, t) \in 0..Burst
           /\ b.made = FALSE => Refilled(b, t) = Burst
           /\ b.made = TRUE /\ b.at <= t => Refilled(b, t) = Capped(b.tokens + (t - b.at) * Rate)
<1>1. /\ b.made \in BOOLEAN /\ b.tokens \in 0..Burst /\ b.at \in Int /\ t \in Int /\ Burst \in Nat
  BY LimiterAssumption DEF Buckets, Times
<1>2. PICK d \in Nat : d = IF t > b.at THEN t - b.at ELSE 0
  BY <1>1
<1>3. Rate * d \in Nat /\ Rate * d = d * Rate
  BY <1>2, LimiterAssumption
<1>4. Refilled(b, t) = IF ~b.made THEN Burst ELSE Capped(b.tokens + Rate * d)
  BY <1>2 DEF Refilled
<1>5. Capped(b.tokens + Rate * d) \in 0..Burst
  BY <1>1, <1>3 DEF Capped
<1>6. b.at <= t => d = t - b.at
  BY <1>1, <1>2
<1> QED
  BY <1>1, <1>3, <1>4, <1>5, <1>6

LEMMA NoBucketIs == NoBucket \in Buckets /\ NoBucket.made = FALSE
BY LimiterAssumption DEF NoBucket, Buckets, Times

\* A bucket left alone for longer than the ttl is full.
LEMMA IdleIsFull ==
    ASSUME LimiterTypeOK, NEW i \in Clients, Remembered(i), bucket[i].made = TRUE, Idle(i)
    PROVE  ideal[i] = Burst
<1>1. /\ bucket[i] \in Buckets /\ clock \in Times /\ clock \in Int
      /\ Ttl \in Nat /\ Burst \in Nat /\ Rate \in Nat
  BY LimiterAssumption DEF LimiterTypeOK, Times
<1>2. PICK at \in Int : at = bucket[i].at
  BY <1>1 DEF Buckets, Times
<1>3. PICK seen \in Int : seen = bucket[i].seen
  BY <1>1 DEF Buckets, Times
<1>4. PICK n \in Nat : n = bucket[i].tokens
  BY <1>1 DEF Buckets
<1>5. clock - seen >= Ttl + 1
  BY <1>1, <1>3 DEF Idle
<1>6. (Ttl + 1) * Rate <= (clock - seen) * Rate
  BY <1>1, <1>5, Scaled
<1>7. (at - seen) * Rate <= Ttl * Rate - Burst /\ at <= clock
  BY <1>2, <1>3 DEF Remembered
<1>8. /\ (clock - at) * Rate = clock * Rate - at * Rate /\ (clock - seen) * Rate = clock * Rate - seen * Rate
      /\ (at - seen) * Rate = at * Rate - seen * Rate /\ (Ttl + 1) * Rate = Ttl * Rate + Rate
      /\ clock * Rate \in Int /\ at * Rate \in Int /\ seen * Rate \in Int /\ Ttl * Rate \in Int
  BY <1>1, Scaled
<1>9. (clock - at) * Rate >= Burst
  BY <1>1, <1>6, <1>7, <1>8
<1>10. Refilled(bucket[i], clock) = Capped(n + (clock - at) * Rate)
  BY <1>1, <1>2, <1>4, <1>7, RefilledIs
<1>11. Capped(n + (clock - at) * Rate) = Burst
  BY <1>1, <1>8, <1>9 DEF Capped
<1> QED
  BY <1>10, <1>11 DEF Remembered

LEMMA LimiterTypes ==
    ASSUME LimiterTypeOK
    PROVE  /\ bucket \in [Clients -> Buckets] /\ admitting \in [Clients -> Buckets]
           /\ ideal \in [Clients -> 0..Burst] /\ excused \subseteq Clients
           /\ clock \in Times /\ clock \in Nat /\ clock <= MaxTicks
           /\ Burst \in Nat /\ Burst # 0 /\ Rate \in Nat /\ Ttl \in Nat /\ Skew \in Nat /\ MaxTicks \in Nat
           /\ Ttl * Rate \in Int /\ Ttl * Rate >= Burst
BY LimiterAssumption, Scaled DEF LimiterTypeOK, Times

LEMMA TickStep ==
    ASSUME LimiterInv, Tick
    PROVE  LimiterInv'
<1>1. /\ LimiterTypeOK /\ clock < MaxTicks /\ clock' = clock + 1
      /\ ideal' = [i \in Clients |-> Capped(ideal[i] + Rate)]
      /\ UNCHANGED <<store, bucket, admitting, excused, limiterFaults>>
  BY DEF LimiterInv, Tick
<1>2. clock' \in Times /\ clock' \in 0..MaxTicks
  BY <1>1, LimiterTypes DEF Times
<1>3. \A n \in Nat : Capped(n) \in 0..Burst
  BY LimiterAssumption DEF Capped
<1>4. ideal' \in [Clients -> 0..Burst] /\ \A i \in Clients : ideal'[i] = Capped(ideal[i] + Rate)
  BY <1>1, <1>3, LimiterTypes
<1>5. LimiterTypeOK'
  BY <1>1, <1>2, <1>4 DEF LimiterTypeOK
<1>6. ASSUME NEW i \in Clients, admitting[i].made = TRUE PROVE admitting[i].seen <= clock'
  BY <1>1, <1>6, LimiterTypes DEF LimiterInv, Buckets, Times
<1>7. ASSUME NEW i \in Clients \ excused PROVE Remembered(i)'
  <2>1. Remembered(i) /\ bucket[i] \in Buckets /\ clock \in Times
    BY <1>1, LimiterTypes DEF LimiterInv
  <2>2. PICK at \in Int : at = bucket[i].at
    BY <2>1 DEF Buckets, Times
  <2>3. PICK n \in Nat : n = bucket[i].tokens
    BY <2>1 DEF Buckets
  <2>4. Refilled(bucket[i], clock') = ideal'[i]
    <3>1. CASE bucket[i].made = FALSE
      <4>1. Refilled(bucket[i], clock') = Burst /\ ideal[i] = Burst
        BY <1>2, <2>1, <3>1, RefilledIs DEF Remembered
      <4> QED
        BY <1>1, <1>4, <4>1, LimiterTypes DEF Capped
    <3>2. CASE bucket[i].made = TRUE
      <4>1. at <= clock /\ at <= clock'
        BY <1>1, <2>1, <2>2, <3>2, LimiterTypes DEF Remembered
      <4>2. Refilled(bucket[i], clock') = Capped(n + (clock' - at) * Rate)
        BY <1>2, <2>1, <2>2, <2>3, <3>2, <4>1, RefilledIs
      <4>3. ideal[i] = Capped(n + (clock - at) * Rate)
        BY <2>1, <2>2, <2>3, <3>2, <4>1, RefilledIs DEF Remembered
      <4>4. PICK m \in Nat : m = (clock - at) * Rate
        BY <1>1, <4>1, LimiterTypes
      <4>5. (clock' - at) * Rate = m + Rate
        <5>1. clock' - at = (clock - at) + 1 /\ clock - at \in Int
          BY <1>1, LimiterTypes
        <5> QED
          BY <4>4, <5>1, Scaled
      <4>6. Capped(n + (m + Rate)) = Capped(Capped(n + m) + Rate)
        BY <1>1, LimiterTypes DEF Capped
      <4> QED
        BY <1>4, <4>2, <4>3, <4>4, <4>5, <4>6
    <3> QED
      BY <2>1, <3>1, <3>2 DEF Buckets
  <2>5. bucket[i].made = TRUE => at <= clock'
    BY <1>1, <2>1, <2>2, LimiterTypes DEF Remembered
  <2> QED
    BY <1>1, <2>1, <2>2, <2>4, <2>5 DEF Remembered
<1> QED
  BY <1>1, <1>5, <1>6, <1>7 DEF LimiterInv

LEMMA FindBucketStep ==
    ASSUME LimiterInv, NEW i \in Clients, FindBucket(i)
    PROVE  LimiterInv'
<1>1. /\ LimiterTypeOK /\ UNCHANGED <<store, clock, ideal, excused, limiterFaults>>
      /\ bucket[i] \in Buckets /\ clock \in Times
  BY LimiterTypes DEF LimiterInv, FindBucket
<1>2. PICK b \in Buckets :
          /\ bucket' = [bucket EXCEPT ![i] = b] /\ admitting' = [admitting EXCEPT ![i] = b]
          /\ b.made = TRUE /\ b.seen = clock
          /\ bucket[i].made = TRUE => b.tokens = bucket[i].tokens /\ b.at = bucket[i].at
          /\ bucket[i].made = FALSE => b.tokens = Burst /\ b.at = clock
  <2>1. CASE bucket[i].made = TRUE
    <3>1. [bucket[i] EXCEPT !.seen = clock] \in Buckets
      BY <1>1 DEF Buckets
    <3>2. PICK b \in Buckets : b = [bucket[i] EXCEPT !.seen = clock]
      BY <3>1
    <3>3. b.made = TRUE /\ b.seen = clock /\ b.tokens = bucket[i].tokens /\ b.at = bucket[i].at
      BY <1>1, <2>1, <3>2 DEF Buckets
    <3>4. bucket' = [bucket EXCEPT ![i] = b] /\ admitting' = [admitting EXCEPT ![i] = b]
      BY <2>1, <3>2 DEF FindBucket
    <3> QED
      BY <2>1, <3>3, <3>4
  <2>2. CASE bucket[i].made = FALSE
    <3>1. [made |-> TRUE, tokens |-> Burst, at |-> clock, seen |-> clock] \in Buckets
      BY <1>1, LimiterTypes DEF Buckets
    <3>2. PICK b \in Buckets : b = [made |-> TRUE, tokens |-> Burst, at |-> clock, seen |-> clock]
      BY <3>1
    <3>3. bucket' = [bucket EXCEPT ![i] = b] /\ admitting' = [admitting EXCEPT ![i] = b]
      BY <2>2, <3>2 DEF FindBucket
    <3> QED
      BY <2>2, <3>2, <3>3
  <2> QED
    BY <1>1, <2>1, <2>2 DEF Buckets
<1>3. /\ bucket' \in [Clients -> Buckets] /\ admitting' \in [Clients -> Buckets]
      /\ \A j \in Clients : bucket'[j] = IF j = i THEN b ELSE bucket[j]
      /\ \A j \in Clients : admitting'[j] = IF j = i THEN b ELSE admitting[j]
  BY <1>1, <1>2, LimiterTypes
<1>4. LimiterTypeOK'
  BY <1>1, <1>3 DEF LimiterTypeOK
<1>5. \A j \in Clients : admitting'[j].made = TRUE => admitting'[j].seen <= clock
  BY <1>1, <1>2, <1>3, LimiterTypes DEF LimiterInv
<1>6. ASSUME NEW j \in Clients \ excused PROVE Remembered(j)'
  <2>1. Remembered(j)
    BY DEF LimiterInv
  <2>2. CASE j # i
    BY <1>1, <1>3, <2>1, <2>2 DEF Remembered, Refilled, Capped
  <2>3. CASE j = i
    <3>1. Refilled(b, clock) = ideal[i]
      <4>1. CASE bucket[i].made = TRUE
        BY <1>1, <1>2, <2>1, <2>3, <4>1 DEF Remembered, Refilled
      <4>2. CASE bucket[i].made = FALSE
        <5>1. ideal[i] = Burst
          BY <1>1, <2>1, <2>3, <4>2, RefilledIs DEF Remembered
        <5>2. Refilled(b, clock) = Capped(Burst + (clock - clock) * Rate)
          <6>1. b.at <= clock /\ b.at = clock /\ b.tokens = Burst /\ b.made = TRUE
            BY <1>1, <1>2, <4>2, LimiterTypes
          <6>2. Refilled(b, clock) = Capped(b.tokens + (clock - b.at) * Rate)
            BY <1>1, <6>1, RefilledIs
          <6> QED
            BY <6>1, <6>2
        <5>3. (clock - clock) * Rate = 0
          BY <1>1, LimiterTypes
        <5> QED
          BY <1>1, <5>1, <5>2, <5>3, LimiterTypes DEF Capped
      <4> QED
        BY <1>1, <4>1, <4>2 DEF Buckets
    <3>2. b.at <= clock /\ (b.at - b.seen) * Rate <= Ttl * Rate - Burst
      <4>1. b.at \in Int /\ b.at <= clock
        BY <1>1, <1>2, <2>1, <2>3, LimiterTypes DEF Remembered, Buckets, Times
      <4>2. (b.at - clock) * Rate <= 0
        BY <1>1, <4>1, LimiterTypes
      <4> QED
        BY <1>1, <1>2, <4>1, <4>2, LimiterTypes
    <3> QED
      BY <1>1, <1>2, <1>3, <2>3, <3>1, <3>2, LimiterTypes DEF Remembered
  <2> QED
    BY <2>2, <2>3
<1> QED
  BY <1>1, <1>4, <1>5, <1>6 DEF LimiterInv

\* What is left when a request was let through or refused.
LEMMA SpentIs ==
    ASSUME LimiterTypeOK, NEW i \in Clients, NEW n \in 0..Burst, ideal' = Spent(i, n >= 1)
    PROVE  /\ ideal' \in [Clients -> 0..Burst]
           /\ \A j \in Clients \ {i} : ideal'[j] = ideal[j]
           /\ ideal[i] = n => ideal'[i] = IF n >= 1 THEN n - 1 ELSE n
<1>1. ideal \in [Clients -> 0..Burst] /\ Burst \in Nat
  BY LimiterTypes
<1>2. PICK m \in 0..Burst : m = IF n >= 1 /\ ideal[i] > 0 THEN ideal[i] - 1 ELSE ideal[i]
  <2>1. ideal[i] \in 0..Burst
    BY <1>1
  <2> QED
    BY <1>1, <2>1
<1>3. ideal' = [ideal EXCEPT ![i] = m]
  BY <1>1, <1>2 DEF Spent
<1>4. ideal[i] = n => m = IF n >= 1 THEN n - 1 ELSE n
  BY <1>1, <1>2
<1> QED
  BY <1>1, <1>3, <1>4

\* A bucket that was used at the time t holds what was left.
LEMMA UsedIs ==
    ASSUME LimiterTypeOK, NEW b \in Buckets, b.made = TRUE, b.at = clock
    PROVE  Refilled(b, clock) = b.tokens
<1>1. clock \in Times /\ clock \in Nat /\ b.tokens \in 0..Burst /\ Burst \in Nat
  BY LimiterTypes DEF Buckets
<1>2. b.at <= clock
  BY <1>1
<1>3. Refilled(b, clock) = Capped(b.tokens + (clock - b.at) * Rate)
  BY <1>1, <1>2, RefilledIs
<1>4. (clock - b.at) * Rate = 0
  <2>1. clock - b.at = 0
    BY <1>1
  <2> QED
    BY <2>1, LimiterTypes
<1> QED
  BY <1>1, <1>3, <1>4 DEF Capped

LEMMA AllowStep ==
    ASSUME LimiterInv, NEW i \in Clients, Allow(i)
    PROVE  LimiterInv'
<1>1. /\ LimiterTypeOK /\ UNCHANGED <<store, clock, limiterFaults>>
      /\ bucket[i] \in Buckets /\ admitting[i] \in Buckets /\ clock \in Times /\ clock \in Nat
      /\ Ttl * Rate \in Int /\ Rate \in Nat /\ Burst \in Nat
  BY LimiterTypes DEF LimiterInv, Allow
<1>2. PICK found \in Buckets : found = IF bucket[i].made THEN bucket[i] ELSE admitting[i]
  BY <1>1
<1>3. PICK tokens \in 0..Burst : tokens = Refilled(found, clock)
  BY <1>1, <1>2, RefilledIs
<1>4. PICK left \in 0..Burst : left = IF tokens >= 1 THEN tokens - 1 ELSE tokens
  BY <1>1
<1>5. /\ admitting[i].made = TRUE /\ admitting' = [admitting EXCEPT ![i] = NoBucket]
      /\ bucket' = IF bucket[i].made THEN [bucket EXCEPT ![i].tokens = left, ![i].at = clock] ELSE bucket
      /\ excused' = IF TooSlow(i) THEN excused \cup {i} ELSE excused
      /\ ideal' = Spent(i, tokens >= 1)
  BY <1>1, <1>2, <1>3, <1>4 DEF Allow, Buckets
<1>6. /\ ideal' \in [Clients -> 0..Burst] /\ \A j \in Clients \ {i} : ideal'[j] = ideal[j]
      /\ ideal[i] = tokens => ideal'[i] = left
  BY <1>1, <1>4, <1>5, SpentIs
<1>7. /\ admitting' \in [Clients -> Buckets]
      /\ \A j \in Clients : admitting'[j] = IF j = i THEN NoBucket ELSE admitting[j]
  BY <1>1, <1>5, NoBucketIs, LimiterTypes
<1>8. PICK b \in Buckets :
          /\ bucket' = [bucket EXCEPT ![i] = b] /\ b.made = bucket[i].made /\ b.seen = bucket[i].seen
          /\ bucket[i].made = TRUE => b.tokens = left /\ b.at = clock
  <2>1. CASE bucket[i].made = TRUE
    <3>1. PICK r \in Buckets : r = bucket[i]
      BY <1>1
    <3>2. PICK b : b = [made |-> r.made, tokens |-> left, at |-> clock, seen |-> r.seen]
      OBVIOUS
    <3>3. b \in Buckets /\ b.made = r.made /\ b.seen = r.seen /\ b.tokens = left /\ b.at = clock
      BY <1>1, <3>2 DEF Buckets
    <3>4. bucket' = [bucket EXCEPT ![i] = b]
      <4>1. bucket' = [bucket EXCEPT ![i].tokens = left, ![i].at = clock]
        BY <1>5, <2>1
      <4>2. bucket' \in [Clients -> Buckets]
        BY <1>1, <4>1, LimiterTypes DEF Buckets
      <4>3. \A j \in Clients : j # i => bucket'[j] = bucket[j]
        BY <4>1, LimiterTypes, <1>1
      <4>4. bucket'[i].made = r.made /\ bucket'[i].seen = r.seen /\ bucket'[i].tokens = left /\ bucket'[i].at = clock
        BY <1>1, <3>1, <4>1, LimiterTypes DEF Buckets
      <4>5. bucket'[i] = b
        BY <3>2, <4>2, <4>4 DEF Buckets
      <4> QED
        BY <1>1, <3>3, <4>2, <4>3, <4>5, LimiterTypes
    <3> QED
      BY <3>1, <3>3, <3>4
  <2>2. CASE bucket[i].made = FALSE
    BY <1>1, <1>5, <2>2, LimiterTypes
  <2> QED
    BY <1>1, <2>1, <2>2 DEF Buckets
<1>9. /\ bucket' \in [Clients -> Buckets]
      /\ \A j \in Clients : bucket'[j] = IF j = i THEN b ELSE bucket[j]
  BY <1>1, <1>8, LimiterTypes
<1>10. LimiterTypeOK'
  BY <1>1, <1>5, <1>6, <1>7, <1>9 DEF LimiterTypeOK
<1>11. \A j \in Clients : admitting'[j].made = TRUE => admitting'[j].seen <= clock
  BY <1>7, NoBucketIs DEF LimiterInv
<1>12. ASSUME NEW j \in Clients \ excused' PROVE Remembered(j)'
  <2>1. Remembered(j) /\ j \notin excused /\ excused \subseteq excused'
    BY <1>5, <1>12 DEF LimiterInv
  <2>2. CASE j # i
    BY <1>1, <1>6, <1>7, <1>9, <2>1, <2>2 DEF Remembered, Refilled, Capped
  <2>3. CASE j = i
    <3>1. ~TooSlow(i)
      BY <1>5, <1>12, <2>3
    <3>2. bucket[i].made = TRUE /\ ~((clock - admitting[i].seen) * Rate > Ttl * Rate - Burst)
      BY <1>1, <3>1 DEF TooSlow, Buckets
    <3>3. PICK seen \in Int : seen = bucket[i].seen
      BY <1>1 DEF Buckets, Times
    <3>4. PICK asked \in Int : asked = admitting[i].seen
      BY <1>1 DEF Buckets, Times
    <3>5. asked <= seen
      BY <1>5, <2>1, <2>3, <3>2, <3>3, <3>4 DEF Remembered
    <3>6. (clock - seen) * Rate <= (clock - asked) * Rate
      <4>1. clock - seen <= clock - asked /\ clock - seen \in Int /\ clock - asked \in Int
        BY <1>1, <3>5
      <4> QED
        BY <4>1, Scaled
    <3>7. (clock - seen) * Rate <= Ttl * Rate - Burst
      <4>1. (clock - asked) * Rate <= Ttl * Rate - Burst /\ (clock - asked) * Rate \in Int /\ (clock - seen) * Rate \in Int
        BY <1>1, <3>2, <3>4
      <4> QED
        BY <1>1, <3>6, <4>1
    <3>8. ideal[i] = tokens
      BY <1>1, <1>2, <1>3, <2>1, <2>3, <3>2 DEF Remembered
    <3>9. Refilled(b, clock) = left
      BY <1>1, <1>8, <3>2, UsedIs
    <3>10. Refilled(b, clock) = ideal'[i]
      BY <1>6, <3>8, <3>9
    <3>11. admitting'[i].made = FALSE
      BY <1>7, NoBucketIs
    <3>12. bucket'[i] = b /\ b.at = clock /\ b.seen = seen
      BY <1>8, <1>9, <3>2, <3>3
    <3> QED
      BY <1>1, <2>3, <3>7, <3>10, <3>11, <3>12 DEF Remembered
  <2> QED
    BY <2>2, <2>3
<1> QED
  BY <1>1, <1>10, <1>11, <1>12 DEF LimiterInv

\* Buckets of clients whose bucket is full are dropped.
LEMMA ForgetStep ==
    ASSUME LimiterInv, UNCHANGED <<store, clock, admitting, ideal, excused, limiterFaults>>,
           bucket' \in [Clients -> Buckets],
           \A i \in Clients : bucket'[i] = bucket[i]
                              \/ (bucket[i].made = TRUE /\ Idle(i) /\ bucket'[i] = NoBucket)
    PROVE  LimiterInv'
<1>1. LimiterTypeOK /\ LimiterTypeOK'
  BY DEF LimiterInv, LimiterTypeOK
<1>2. ASSUME NEW i \in Clients \ excused PROVE Remembered(i)'
  <2>1. Remembered(i)
    BY DEF LimiterInv
  <2>2. CASE bucket'[i] = bucket[i]
    BY <2>1, <2>2 DEF Remembered, Refilled, Capped
  <2>3. CASE bucket[i].made = TRUE /\ Idle(i) /\ bucket'[i] = NoBucket
    <3>1. ideal[i] = Burst
      BY <1>1, <2>1, <2>3, IdleIsFull
    <3>2. Refilled(NoBucket, clock) = Burst
      BY <1>1, NoBucketIs, RefilledIs, LimiterTypes
    <3> QED
      BY <2>3, <3>1, <3>2, NoBucketIs DEF Remembered
  <2> QED
    BY <2>2, <2>3
<1> QED
  BY <1>1, <1>2 DEF LimiterInv

LEMMA RedisStep ==
    ASSUME LimiterInv, NEW i \in Clients, NEW lag \in 0..Skew, RunScript(i, lag)
    PROVE  LimiterInv'
<1>1. /\ LimiterTypeOK /\ UNCHANGED <<store, clock, admitting, limiterFaults>>
      /\ bucket[i] \in Buckets /\ clock \in Times /\ clock \in Nat /\ clock <= MaxTicks
      /\ Ttl * Rate \in Int /\ Ttl * Rate >= Burst /\ Burst \in Nat /\ Skew \in Nat /\ Rate \in Nat
  BY LimiterTypes DEF LimiterInv, RunScript
<1>2. PICK now \in Times : now = clock - lag /\ (lag = 0 => now = clock)
  BY <1>1, LimiterAssumption DEF Times
<1>3. PICK tokens \in 0..Burst : tokens = Refilled(bucket[i], now)
  BY <1>1, <1>2, RefilledIs
<1>4. PICK left \in 0..Burst : left = IF tokens >= 1 THEN tokens - 1 ELSE tokens
  BY <1>1
<1>5. PICK b : b = [made |-> TRUE, tokens |-> left, at |-> now, seen |-> clock]
  OBVIOUS
<1>6. b \in Buckets /\ b.made = TRUE /\ b.tokens = left /\ b.at = now /\ b.seen = clock
  BY <1>1, <1>5 DEF Buckets
<1>7. /\ bucket' = [bucket EXCEPT ![i] = b]
      /\ excused' = IF lag > 0 THEN excused \cup {i} ELSE excused
      /\ ideal' = Spent(i, tokens >= 1)
  BY <1>2, <1>3, <1>4, <1>5 DEF RunScript
<1>8. /\ ideal' \in [Clients -> 0..Burst] /\ \A j \in Clients \ {i} : ideal'[j] = ideal[j]
      /\ ideal[i] = tokens => ideal'[i] = left
  BY <1>1, <1>4, <1>7, SpentIs
<1>9. /\ bucket' \in [Clients -> Buckets]
      /\ \A j \in Clients : bucket'[j] = IF j = i THEN b ELSE bucket[j]
  BY <1>1, <1>6, <1>7, LimiterTypes
<1>10. LimiterTypeOK'
  BY <1>1, <1>7, <1>8, <1>9 DEF LimiterTypeOK
<1>11. ASSUME NEW j \in Clients \ excused' PROVE Remembered(j)'
  <2>1. Remembered(j) /\ j \notin excused
    BY <1>7, <1>11 DEF LimiterInv
  <2>2. CASE j # i
    BY <1>1, <1>8, <1>9, <2>1, <2>2 DEF Remembered, Refilled, Capped
  <2>3. CASE j = i
    <3>1. lag = 0 /\ now = clock
      BY <1>2, <1>7, <1>11, <2>3
    <3>2. ideal[i] = tokens
      BY <1>3, <2>1, <2>3, <3>1 DEF Remembered
    <3>3. Refilled(b, clock) = ideal'[i]
      BY <1>1, <1>6, <1>8, <3>1, <3>2, UsedIs
    <3>4. (b.at - b.seen) * Rate <= Ttl * Rate - Burst
      <4>1. b.at - b.seen = 0
        BY <1>1, <1>6, <3>1
      <4>2. (b.at - b.seen) * Rate = 0
        BY <1>1, <4>1
      <4> QED
        BY <1>1, <4>2
    <3>5. admitting[i].made = TRUE => admitting[i].seen <= clock
      BY DEF LimiterInv
    <3> QED
      BY <1>1, <1>6, <1>9, <2>3, <3>1, <3>3, <3>4, <3>5 DEF Remembered
  <2> QED
    BY <2>2, <2>3
<1> QED
  BY <1>1, <1>10, <1>11 DEF LimiterInv

LEMMA LimiterStart == LimiterInit => LimiterInv
<1> SUFFICES ASSUME LimiterInit PROVE LimiterInv
  OBVIOUS
<1>1. /\ clock = 0 /\ excused = {} /\ limiterFaults = 0 /\ store \in {"memory", "redis"}
      /\ bucket = [i \in Clients |-> NoBucket] /\ admitting = [i \in Clients |-> NoBucket]
      /\ ideal = [i \in Clients |-> Burst]
  BY DEF LimiterInit
<1>2. clock \in 0..MaxTicks /\ clock \in Times /\ limiterFaults \in 0..MaxLimiterFaults /\ Burst \in 0..Burst
  BY <1>1, LimiterAssumption DEF Times
<1>3. LimiterTypeOK
  BY <1>1, <1>2, NoBucketIs DEF LimiterTypeOK
<1>4. Refilled(NoBucket, clock) = Burst
  BY <1>2, NoBucketIs, RefilledIs
<1> QED
  BY <1>1, <1>3, <1>4, NoBucketIs DEF LimiterInv, Remembered

LEMMA LimiterStep == LimiterInv /\ [LimiterNext]_limiterVars => LimiterInv'
<1> SUFFICES ASSUME LimiterInv, [LimiterNext]_limiterVars PROVE LimiterInv'
  OBVIOUS
<1>0. LimiterTypeOK
  BY DEF LimiterInv
<1>1. CASE UNCHANGED limiterVars
  BY <1>1 DEF limiterVars, LimiterInv, LimiterTypeOK, Remembered, Refilled, Capped
<1>2. CASE Tick
  BY <1>2, TickStep
<1>3. CASE Sweep
  <2>1. /\ UNCHANGED <<store, clock, admitting, ideal, excused, limiterFaults>>
        /\ bucket' = [i \in Clients |-> IF bucket[i].made /\ Idle(i) THEN NoBucket ELSE bucket[i]]
    BY <1>3 DEF Sweep
  <2>2. bucket' \in [Clients -> Buckets]
    BY <1>0, <2>1, NoBucketIs, LimiterTypes
  <2>3. \A i \in Clients : bucket[i].made \in BOOLEAN
    BY <1>0, LimiterTypes DEF Buckets
  <2>4. \A i \in Clients : bucket'[i] = bucket[i] \/ (bucket[i].made = TRUE /\ Idle(i) /\ bucket'[i] = NoBucket)
    BY <2>1, <2>3
  <2> QED
    BY <2>1, <2>2, <2>4, ForgetStep
<1>4. ASSUME NEW i \in Clients, KeyExpires(i) PROVE LimiterInv'
  <2>1. /\ UNCHANGED <<store, clock, admitting, ideal, excused, limiterFaults>>
        /\ bucket[i].made = TRUE /\ Idle(i) /\ bucket' = [bucket EXCEPT ![i] = NoBucket]
    BY <1>0, <1>4, LimiterTypes DEF KeyExpires, Buckets
  <2>2. /\ bucket' \in [Clients -> Buckets]
        /\ \A j \in Clients : bucket'[j] = IF j = i THEN NoBucket ELSE bucket[j]
    BY <1>0, <2>1, NoBucketIs, LimiterTypes
  <2> QED
    BY <2>1, <2>2, ForgetStep
<1>5. ASSUME NEW i \in Clients, FindBucket(i) PROVE LimiterInv'
  BY <1>5, FindBucketStep
<1>6. ASSUME NEW i \in Clients, Allow(i) PROVE LimiterInv'
  BY <1>6, AllowStep
<1>7. ASSUME NEW i \in Clients, NEW lag \in 0..Skew, RunScript(i, lag) PROVE LimiterInv'
  BY <1>7, RedisStep
<1>8. ASSUME NEW i \in Clients, FailsOpen(i) PROVE LimiterInv'
  <2>1. /\ UNCHANGED <<store, clock, bucket, admitting, ideal>> /\ excused' = excused \cup {i}
        /\ limiterFaults' = limiterFaults + 1 /\ limiterFaults < MaxLimiterFaults
    BY <1>8 DEF FailsOpen
  <2>2. limiterFaults' \in 0..MaxLimiterFaults
    <3>1. limiterFaults \in 0..MaxLimiterFaults
      BY <1>0 DEF LimiterTypeOK
    <3> QED
      BY <2>1, <3>1, LimiterAssumption
  <2>3. LimiterTypeOK'
    BY <1>0, <2>1, <2>2 DEF LimiterTypeOK
  <2> QED
    BY <2>1, <2>3 DEF LimiterInv, Remembered, Refilled, Capped
<1> QED
  BY <1>1, <1>2, <1>3, <1>4, <1>5, <1>6, <1>7, <1>8 DEF LimiterNext

LEMMA LimiterInvariant == LimiterSpec => []LimiterInv
BY LimiterStart, LimiterStep, PTL DEF LimiterSpec

\* Whatever the burst, the rate, the ttl and the order of requests, sweeps, expiries and
\* Redis errors: a client's bucket, or the full one he would get, holds what a bucket
\* never forgotten would (memoryStore.bucket and sweep; tokenBucketScript and EXPIRE),
\* unless the store failed open, a clock lagged or a request stalled for about a ttl.
THEOREM ForgettingIsAlwaysHarmless == LimiterSpec => []ForgettingIsHarmless
<1>1. LimiterInv => ForgettingIsHarmless
  BY DEF LimiterInv, Remembered, ForgettingIsHarmless
<1> QED
  BY <1>1, LimiterInvariant, PTL

-----------------------------------------------------------------------------
(* Access: tokens, the gate and the audit log                              *)

\* u has role r, or lost it no earlier than m.
Had(u, r, m) == roles[u] = r \/ lost[u][r] >= m

\* A device whose state is q: its request is young; the role read for a token to come
\* was held when the request began, the one in its token when that request could
\* have begun; a request behind the gate began while its token was valid.
Timely(q) ==
    /\ q.issued <= minute
    /\ q.pc # "idle" => q.began <= minute /\ minute - q.began <= RequestTime
    /\ q.pc = "issue" => Had(q.user, q.fresh, q.began)
    /\ q.pc # "issue" => q.issued = Never \/ Had(q.user, q.role, q.issued - RequestTime)
    /\ q.pc \in {"factor", "handle"} => q.issued # Never /\ q.began < q.issued + AccessTtl

AccessInv == AccessTypeOK /\ \A d \in Devices : Timely(device[d])

\* What the audit log tells apart.
LEMMA BothOutcomes == "done" \in Outcomes /\ "refused" \in Outcomes /\ "done" # "refused"
BY DEF Outcomes

LEMMA DoneCounts ==
    ASSUME acts \in [Staff -> [Outcomes -> Nat]], NEW u \in Staff, acts'[u].done > acts[u].done
    PROVE  acts' # acts
<1>1. acts[u] \in [Outcomes -> Nat]
  OBVIOUS
<1>2. acts[u]["done"] \in Nat
  BY <1>1, BothOutcomes
<1> QED
  BY <1>2

LEMMA AccessNumbers ==
    /\ Never \in Int /\ Never <= 0 /\ MaxMinutes \in Nat
    /\ \A q \in DeviceStates : q.issued \in Int /\ q.issued <= MaxMinutes /\ q.began \in Nat
    /\ AccessTypeOK => minute \in Nat /\ minute <= MaxMinutes /\ minute \in Never..MaxMinutes
BY AccessAssumption DEF Never, DeviceStates, AccessTypeOK

\* A request that begins now, and a device at rest.
LEMMA AskingState ==
    ASSUME AccessTypeOK, NEW d \in Devices, NEW r \in DeviceStates, Asks(d, r)
    PROVE  \E q \in DeviceStates :
              /\ device[d].pc = "idle" /\ device' = [device EXCEPT ![d] = q]
              /\ q.began = minute /\ q.pc = r.pc /\ q.user = r.user /\ q.role = r.role
              /\ q.issued = r.issued /\ q.fresh = r.fresh /\ q.outcome = r.outcome
<1> DEFINE q == [r EXCEPT !.began = minute, !.gone = FALSE]
<1>1. q \in DeviceStates
  BY DEF DeviceStates, AccessTypeOK
<1>2. /\ q.began = minute /\ q.pc = r.pc /\ q.user = r.user /\ q.role = r.role
      /\ q.issued = r.issued /\ q.fresh = r.fresh /\ q.outcome = r.outcome
  BY DEF DeviceStates
<1>3. device[d].pc = "idle" /\ device' = [device EXCEPT ![d] = q]
  BY DEF Asks
<1> HIDE DEF q
<1> QED
  BY <1>1, <1>2, <1>3

LEMMA RestedState ==
    ASSUME NEW r \in DeviceStates
    PROVE  /\ Rested(r) \in DeviceStates /\ Rested(r).pc = "idle" /\ Rested(r).user = r.user
           /\ Rested(r).role = r.role /\ Rested(r).issued = r.issued
<1>1. {"admin"} \in Areas /\ "done" \in Outcomes /\ "customer" \in AccessRoles /\ 0 \in 0..MaxMinutes
  BY AccessAssumption DEF Areas, Outcomes, AccessRoles
<1>2. Rested(r) \in DeviceStates
  BY <1>1 DEF Rested, DeviceStates
<1> QED
  BY <1>2 DEF Rested, DeviceStates

\* One device goes on and the rest of the world stands still.
LEMMA OneDevice ==
    ASSUME AccessInv, NEW d \in Devices, NEW q \in DeviceStates, device' = [device EXCEPT ![d] = q],
           UNCHANGED <<roles, factor, minute, lost, roleChanges>>, Timely(q),
           acts' \in [Staff -> [Outcomes -> Nat]], entries' \in [Staff -> [Outcomes -> Nat]],
           afaults' \in 0..MaxAccessFaults
    PROVE  AccessInv'
<1>1. device \in [Devices -> DeviceStates]
  BY DEF AccessInv, AccessTypeOK
<1>2. device' \in [Devices -> DeviceStates] /\ \A e \in Devices : device'[e] = IF e = d THEN q ELSE device[e]
  BY <1>1
<1>3. AccessTypeOK'
  BY <1>2 DEF AccessInv, AccessTypeOK
<1>4. ASSUME NEW e \in Devices PROVE Timely(device[e])'
  <2>1. CASE e = d
    BY <1>2, <2>1 DEF Timely, Had
  <2>2. CASE e # d
    BY <1>2, <2>2 DEF Timely, Had, AccessInv
  <2> QED
    BY <2>1, <2>2
<1> QED
  BY <1>3, <1>4 DEF AccessInv

LEMMA CountOK ==
    ASSUME NEW f \in [Staff -> [Outcomes -> Nat]], NEW u \in Staff, NEW o \in Outcomes
    PROVE  /\ Count(f, u, o) \in [Staff -> [Outcomes -> Nat]]
           /\ Count(f, u, o)[u][o] = f[u][o] + 1
           /\ \A v \in Staff, p \in Outcomes : v # u \/ p # o => Count(f, u, o)[v][p] = f[v][p]
BY DEF Count

LEMMA TokenSteps ==
    ASSUME AccessInv, NEW d \in Devices,
           (\E u \in Staff : LogIn(d, u)) \/ RefreshAccess(d) \/ GenerateTokenPair(d)
    PROVE  AccessInv'
<1>1. /\ AccessTypeOK /\ device[d] \in DeviceStates /\ roles \in [Staff -> AccessRoles]
      /\ minute \in Nat /\ minute \in Never..MaxMinutes /\ Timely(device[d])
  BY AccessNumbers DEF AccessInv, AccessTypeOK
<1>2. ASSUME NEW u \in Staff, UNCHANGED <<roles, factor, minute, acts, entries, lost, roleChanges, afaults>>,
             NEW r \in DeviceStates, Asks(d, r), r.pc = "issue", r.user = u, r.fresh = roles[u],
             r.issued = device[d].issued
      PROVE  AccessInv'
  <2>1. PICK q \in DeviceStates :
           /\ device[d].pc = "idle" /\ device' = [device EXCEPT ![d] = q]
           /\ q.began = minute /\ q.pc = "issue" /\ q.user = u /\ q.issued = r.issued /\ q.fresh = roles[u]
    BY <1>1, <1>2, AskingState
  <2>2. Timely(q)
    BY <1>1, <1>2, <2>1, AccessAssumption DEF Timely, Had
  <2> QED
    BY <1>1, <1>2, <2>1, <2>2, OneDevice DEF AccessTypeOK
<1>3. ASSUME NEW u \in Staff, LogIn(d, u) PROVE AccessInv'
  <2> DEFINE r == [device[d] EXCEPT !.pc = "issue", !.user = u, !.fresh = roles[u]]
  <2>1. r \in DeviceStates
    BY <1>1 DEF DeviceStates
  <2>2. r.pc = "issue" /\ r.user = u /\ r.fresh = roles[u] /\ r.issued = device[d].issued
    BY <1>1 DEF DeviceStates
  <2>3. Asks(d, r) /\ UNCHANGED <<roles, factor, minute, acts, entries, lost, roleChanges, afaults>>
    BY <1>3 DEF LogIn
  <2> HIDE DEF r
  <2> QED
    BY <1>2, <2>1, <2>2, <2>3
<1>4. CASE RefreshAccess(d)
  <2> DEFINE u == device[d].user
             r == [device[d] EXCEPT !.pc = "issue", !.fresh = roles[u]]
  <2>1. u \in Staff
    BY <1>1 DEF DeviceStates
  <2>2. r \in DeviceStates
    BY <1>1, <2>1 DEF DeviceStates
  <2>3. r.pc = "issue" /\ r.user = u /\ r.fresh = roles[u] /\ r.issued = device[d].issued
    BY <1>1 DEF DeviceStates
  <2>4. Asks(d, r) /\ UNCHANGED <<roles, factor, minute, acts, entries, lost, roleChanges, afaults>>
    BY <1>4 DEF RefreshAccess
  <2> HIDE DEF r, u
  <2> QED
    BY <1>2, <2>1, <2>2, <2>3, <2>4
<1>5. CASE GenerateTokenPair(d)
  <2> DEFINE r == [device[d] EXCEPT !.role = device[d].fresh, !.issued = minute]
             q == Rested(r)
  <2>1. r \in DeviceStates
    BY <1>1 DEF DeviceStates
  <2>2. r.user = device[d].user /\ r.role = device[d].fresh /\ r.issued = minute
    BY <1>1 DEF DeviceStates
  <2>3. /\ device' = [device EXCEPT ![d] = q] /\ device[d].pc = "issue"
        /\ UNCHANGED <<roles, factor, minute, acts, entries, lost, roleChanges, afaults>>
    BY <1>5 DEF GenerateTokenPair
  <2> HIDE DEF r
  <2>4. /\ q \in DeviceStates /\ q.pc = "idle" /\ q.user = device[d].user /\ q.role = device[d].fresh
        /\ q.issued = minute
    BY <2>1, <2>2, RestedState
  <2> HIDE DEF q
  <2>5. lost \in [Staff -> [AccessRoles -> Never..MaxMinutes]] /\ device[d].user \in Staff
        /\ device[d].fresh \in AccessRoles /\ device[d].began \in Nat
    BY <1>1 DEF AccessTypeOK, DeviceStates
  <2>6. Timely(q)
    <3>1. Had(q.user, q.role, device[d].began)
      BY <1>1, <2>3, <2>4 DEF Timely, Had
    <3>2. lost[q.user][q.role] \in Int
      BY <2>4, <2>5, AccessNumbers
    <3>3. minute - RequestTime <= device[d].began
      BY <1>1, <2>3, <2>5, AccessAssumption DEF Timely
    <3>4. Had(q.user, q.role, minute - RequestTime)
      BY <1>1, <2>5, <3>1, <3>2, <3>3, AccessAssumption DEF Had
    <3> QED
      BY <1>1, <2>4, <3>4 DEF Timely
  <2> QED
    BY <1>1, <2>3, <2>4, <2>6, OneDevice DEF AccessTypeOK
<1> QED
  BY <1>3, <1>4, <1>5

\* The steps of a request behind the gate.
LEMMA GateSteps ==
    ASSUME AccessInv, NEW d \in Devices,
           \/ \E a \in Areas : Auth(d, a)
           \/ \E o \in Outcomes : Handle(d, o)
           \/ RequireStaff2FA(d) \/ Record(d) \/ ClientGone(d) \/ RecordFails(d) \/ HandlerDies(d)
    PROVE  AccessInv'
<1>1. /\ AccessTypeOK /\ device[d] \in DeviceStates /\ Timely(device[d]) /\ device \in [Devices -> DeviceStates]
      /\ minute \in Nat /\ minute <= MaxMinutes
      /\ acts \in [Staff -> [Outcomes -> Nat]] /\ entries \in [Staff -> [Outcomes -> Nat]]
      /\ device[d].user \in Staff /\ device[d].outcome \in Outcomes /\ device[d].issued \in Int
      /\ afaults \in 0..MaxAccessFaults
  BY SMTT(60), AccessNumbers DEF AccessInv, AccessTypeOK, DeviceStates
<1>2. UNCHANGED <<roles, factor, minute, lost, roleChanges>>
  BY DEF Auth, Handle, RequireStaff2FA, Record, ClientGone, RecordFails, HandlerDies
<1>3. /\ acts' \in [Staff -> [Outcomes -> Nat]] /\ entries' \in [Staff -> [Outcomes -> Nat]]
      /\ afaults' \in 0..MaxAccessFaults
  <2>1. "done" \in Outcomes /\ "refused" \in Outcomes
    BY BothOutcomes
  <2>2. UNCHANGED acts \/ \E o \in Outcomes : acts' = Count(acts, device[d].user, o)
    BY ZenonT(60), <2>1 DEF Auth, Handle, RequireStaff2FA, Record, ClientGone, RecordFails, HandlerDies
  <2>3. UNCHANGED entries \/ entries' = Count(entries, device[d].user, device[d].outcome)
    BY ZenonT(60) DEF Auth, Handle, RequireStaff2FA, Record, ClientGone, RecordFails, HandlerDies
  <2>4. UNCHANGED afaults \/ AccessFault
    BY DEF Auth, Handle, RequireStaff2FA, Record, ClientGone, RecordFails, HandlerDies
  <2>5. afaults' \in 0..MaxAccessFaults
    BY <1>1, <2>4, AccessAssumption DEF AccessFault
  <2>6. acts' \in [Staff -> [Outcomes -> Nat]]
    <3>1. \A o \in Outcomes : Count(acts, device[d].user, o) \in [Staff -> [Outcomes -> Nat]]
      BY <1>1, CountOK
    <3> QED
      BY <1>1, <2>2, <3>1
  <2>7. entries' \in [Staff -> [Outcomes -> Nat]]
    BY <1>1, <2>3, CountOK
  <2> QED
    BY <2>5, <2>6, <2>7
<1>4. ASSUME NEW q \in DeviceStates, device' = [device EXCEPT ![d] = q], device[d].pc # "issue",
             q.user = device[d].user, q.role = device[d].role, q.issued = device[d].issued,
             \/ q.pc = "idle"
             \/ device[d].pc # "idle" /\ q.pc \in {"record", device[d].pc} /\ q.began = device[d].began
             \/ device[d].pc = "factor" /\ q.pc = "handle" /\ q.began = device[d].began
             \/ q.pc = "factor" /\ q.began = minute /\ q.issued # Never /\ minute < q.issued + AccessTtl
      PROVE  AccessInv'
  <2>1. Timely(q)
    <3>1. q.issued <= minute /\ (q.issued = Never \/ Had(q.user, q.role, q.issued - RequestTime))
      BY <1>1, <1>4 DEF Timely
    <3>2. q.pc # "idle" => q.began <= minute /\ minute - q.began <= RequestTime
      BY <1>1, <1>4, AccessAssumption DEF Timely
    <3>3. q.pc \in {"factor", "handle"} => q.issued # Never /\ q.began < q.issued + AccessTtl
      BY <1>1, <1>4, AccessAssumption DEF Timely
    <3> QED
      BY <1>4, <3>1, <3>2, <3>3 DEF Timely
  <2> QED
    BY <1>2, <1>3, <1>4, <2>1, OneDevice
<1>5. ASSUME Leaves(d), device[d].pc # "issue" PROVE AccessInv'
  <2>1. device' = [device EXCEPT ![d] = Rested(device[d])]
    BY <1>1, <1>5 DEF Leaves
  <2> QED
    BY <1>1, <1>4, <1>5, <2>1, RestedState
<1>6. ASSUME NEW pc \in {"handle", "record"}, NEW o \in Outcomes, NEW q,
             q = [device[d] EXCEPT !.pc = pc, !.outcome = o], device' = [device EXCEPT ![d] = q],
             device[d].pc \in {"factor", "handle"}, pc = "handle" => device[d].pc = "factor"
      PROVE  AccessInv'
  <2>1. q \in DeviceStates
    BY <1>1, <1>6 DEF DeviceStates
  <2>2. q.pc = pc /\ q.user = device[d].user /\ q.role = device[d].role /\ q.issued = device[d].issued
        /\ q.began = device[d].began
    BY <1>1, <1>6 DEF DeviceStates
  <2> QED
    BY <1>4, <1>6, <2>1, <2>2
<1>7. ASSUME NEW a \in Areas, Auth(d, a) PROVE AccessInv'
  <2> DEFINE r == [device[d] EXCEPT !.pc = "factor", !.area = a]
  <2>1. r \in DeviceStates
    BY <1>1 DEF DeviceStates
  <2>2. r.pc = "factor" /\ r.user = device[d].user /\ r.role = device[d].role /\ r.issued = device[d].issued
    BY <1>1 DEF DeviceStates
  <2>3. Asks(d, r) /\ minute < device[d].issued + AccessTtl
    BY <1>7 DEF Auth, Valid
  <2> HIDE DEF r
  <2>4. PICK q \in DeviceStates :
           /\ device[d].pc = "idle" /\ device' = [device EXCEPT ![d] = q]
           /\ q.began = minute /\ q.pc = "factor" /\ q.user = device[d].user /\ q.role = device[d].role
           /\ q.issued = device[d].issued
    BY <1>1, <2>1, <2>2, <2>3, AskingState
  <2>5. q.issued # Never
    BY <1>1, <2>3, <2>4, AccessAssumption DEF Never
  <2> QED
    BY <1>4, <2>3, <2>4, <2>5
<1>8. CASE RequireStaff2FA(d)
  <2>1. CASE Leaves(d)
    BY <1>5, <1>8, <2>1 DEF RequireStaff2FA
  <2>2. CASE device' = [device EXCEPT ![d].pc = "handle"]
    <3> DEFINE q == [device[d] EXCEPT !.pc = "handle", !.outcome = device[d].outcome]
    <3>1. device' = [device EXCEPT ![d] = q]
      BY <1>1, <2>2 DEF DeviceStates
    <3> HIDE DEF q
    <3> QED
      BY <1>1, <1>6, <1>8, <3>1 DEF RequireStaff2FA, q
  <2> QED
    BY <1>8, <2>1, <2>2 DEF RequireStaff2FA
<1>9. ASSUME NEW o \in Outcomes, Handle(d, o) PROVE AccessInv'
  <2> DEFINE q == [device[d] EXCEPT !.pc = "record", !.outcome = o]
  <2>1. device' = [device EXCEPT ![d] = q]
    BY <1>1, <1>9 DEF Handle
  <2> HIDE DEF q
  <2> QED
    BY <1>6, <1>9, <2>1 DEF Handle, q
<1>10. CASE ClientGone(d)
  <2> DEFINE q == [device[d] EXCEPT !.gone = TRUE]
  <2>1. q \in DeviceStates
    BY <1>1 DEF DeviceStates
  <2>2. q.pc = device[d].pc /\ q.user = device[d].user /\ q.role = device[d].role /\ q.issued = device[d].issued
        /\ q.began = device[d].began
    BY <1>1 DEF DeviceStates
  <2>3. device' = [device EXCEPT ![d] = q] /\ device[d].pc \in {"factor", "handle", "record"}
    BY <1>1, <1>10 DEF ClientGone
  <2> HIDE DEF q
  <2> QED
    BY <1>4, <2>1, <2>2, <2>3
<1>11. CASE Record(d) \/ RecordFails(d) \/ HandlerDies(d)
  BY <1>5, <1>11 DEF Record, RecordFails, HandlerDies
<1> QED
  BY <1>7, <1>8, <1>9, <1>10, <1>11
\* Time, roles and second factors.
LEMMA WorldSteps ==
    ASSUME AccessInv,
           \/ \E u \in Staff : SetFactor(u) \/ \E r \in AccessRoles : SetRole(u, r)
           \/ TimePasses
    PROVE  AccessInv'
<1>1. /\ AccessTypeOK /\ device \in [Devices -> DeviceStates] /\ roles \in [Staff -> AccessRoles]
      /\ minute \in Nat /\ minute <= MaxMinutes /\ minute \in Never..MaxMinutes
      /\ lost \in [Staff -> [AccessRoles -> Never..MaxMinutes]]
      /\ \A d \in Devices : device[d] \in DeviceStates /\ Timely(device[d])
  BY AccessNumbers DEF AccessInv, AccessTypeOK
<1>2. ASSUME NEW u \in Staff, SetFactor(u) PROVE AccessInv'
  <2>1. factor' \in [Staff -> BOOLEAN] /\ roleChanges' \in 0..MaxRoleChanges
    BY <1>1, <1>2, AccessAssumption DEF SetFactor, AccessTypeOK
  <2>2. UNCHANGED <<roles, device, minute, acts, entries, lost, afaults>>
    BY <1>2 DEF SetFactor
  <2> QED
    BY <1>1, <2>1, <2>2 DEF AccessInv, AccessTypeOK, Timely, Had
<1>3. ASSUME NEW u \in Staff, NEW r \in AccessRoles, SetRole(u, r) PROVE AccessInv'
  <2>1. UNCHANGED <<factor, device, minute, acts, entries, afaults>>
    BY <1>3 DEF SetRole
  <2>2. roles' = [roles EXCEPT ![u] = r] /\ roleChanges' \in 0..MaxRoleChanges
    BY <1>1, <1>3, AccessAssumption DEF SetRole, AccessTypeOK
  <2>3. lost' = [lost EXCEPT ![u] = [lost[u] EXCEPT ![roles[u]] = minute]] /\ roles[u] \in AccessRoles
    BY <1>1, <1>3 DEF SetRole
  <2>4. lost' \in [Staff -> [AccessRoles -> Never..MaxMinutes]] /\ roles' \in [Staff -> AccessRoles]
    BY <1>1, <2>2, <2>3
  <2>5. AccessTypeOK'
    BY <1>1, <2>1, <2>2, <2>4 DEF AccessTypeOK
  <2>6. ASSUME NEW v \in Staff, NEW x \in AccessRoles, NEW m \in Int, m <= minute, Had(v, x, m)
        PROVE  roles'[v] = x \/ lost'[v][x] >= m
    <3>1. CASE v = u /\ x = roles[u]
      BY <1>1, <2>3, <2>6, <3>1
    <3>2. CASE v # u \/ x # roles[u]
      <4>1. lost'[v][x] = lost[v][x]
        BY <1>1, <2>3, <3>2
      <4>2. v # u => roles'[v] = roles[v]
        BY <1>1, <2>2
      <4> QED
        BY <2>6, <3>2, <4>1, <4>2 DEF Had
    <3> QED
      BY <3>1, <3>2
  <2>7. ASSUME NEW q \in DeviceStates, Timely(q) PROVE Timely(q)'
    <3>1. /\ q.user \in Staff /\ q.fresh \in AccessRoles /\ q.role \in AccessRoles /\ q.began \in Nat
          /\ q.issued \in Int
      BY AccessNumbers DEF DeviceStates
    <3>2. q.pc = "issue" => roles'[q.user] = q.fresh \/ lost'[q.user][q.fresh] >= q.began
      BY <2>6, <2>7, <3>1 DEF Timely
    <3>3. q.issued - RequestTime \in Int /\ q.issued - RequestTime <= minute
      BY <1>1, <2>7, <3>1, AccessAssumption DEF Timely
    <3>4. q.pc # "issue" => q.issued = Never \/ roles'[q.user] = q.role
                                           \/ lost'[q.user][q.role] >= q.issued - RequestTime
      BY <2>6, <2>7, <3>1, <3>3 DEF Timely
    <3> QED
      BY <2>1, <2>7, <3>2, <3>4 DEF Timely, Had
  <2>8. ASSUME NEW d \in Devices PROVE Timely(device[d])'
    <3> DEFINE q == device[d]
    <3>1. q \in DeviceStates /\ Timely(q) /\ device'[d] = q
      BY <1>1, <2>1
    <3> QED
      BY <2>1, <2>2, <2>7, <3>1 DEF Timely, Had
  <2> QED
    BY <2>5, <2>8 DEF AccessInv
<1>4. CASE TimePasses
  <2>1. /\ minute' = minute + 1 /\ minute < MaxMinutes
        /\ UNCHANGED <<roles, factor, device, acts, entries, lost, roleChanges, afaults>>
        /\ \A d \in Devices : device[d].pc # "idle" => minute - device[d].began < RequestTime
    BY <1>4 DEF TimePasses
  <2>2. AccessTypeOK'
    BY <1>1, <2>1, AccessNumbers DEF AccessTypeOK
  <2>3. ASSUME NEW d \in Devices PROVE Timely(device[d])'
    <3>1. device[d].began \in Nat /\ device[d].issued \in Int
      BY <1>1, AccessNumbers
    <3> QED
      BY <1>1, <2>1, <3>1, AccessAssumption DEF Timely, Had
  <2> QED
    BY <2>2, <2>3 DEF AccessInv
<1> QED
  BY <1>2, <1>3, <1>4

LEMMA AccessStands == ASSUME AccessInv, [AccessNext]_accessVars PROVE AccessInv'
<1>1. CASE UNCHANGED accessVars
  BY <1>1 DEF accessVars, AccessInv, AccessTypeOK, Timely, Had
<1>2. CASE AccessNext
  BY <1>2, TokenSteps, GateSteps, WorldSteps DEF AccessNext
<1> QED
  BY <1>1, <1>2

LEMMA AccessAtStart == AccessInit => AccessInv
<1> SUFFICES ASSUME AccessInit PROVE AccessInv
  OBVIOUS
<1>1. PICK u \in Staff :
        device = [d \in Devices |->
            [pc |-> "idle", user |-> u, role |-> "customer", issued |-> Never, fresh |-> "customer",
             area |-> {"admin"}, began |-> 0, outcome |-> "done", gone |-> FALSE]]
  BY DEF AccessInit
<1>2. Never \in Never..MaxMinutes /\ 0 \in 0..MaxMinutes /\ Never <= 0
  BY AccessNumbers, AccessAssumption
<1>3. device \in [Devices -> DeviceStates]
  BY <1>1, <1>2 DEF DeviceStates, AccessRoles, Areas, Outcomes
<1>4. /\ roles \in [Staff -> AccessRoles] /\ factor \in [Staff -> BOOLEAN] /\ minute = 0
      /\ acts \in [Staff -> [Outcomes -> Nat]] /\ entries \in [Staff -> [Outcomes -> Nat]]
      /\ lost \in [Staff -> [AccessRoles -> Never..MaxMinutes]] /\ roleChanges = 0 /\ afaults = 0
  BY <1>2 DEF AccessInit, AccessRoles, StaffRoles
<1>5. AccessTypeOK
  BY <1>2, <1>3, <1>4, AccessAssumption DEF AccessTypeOK
<1>6. \A d \in Devices : Timely(device[d])
  BY <1>1, <1>2, <1>4 DEF Timely
<1> QED
  BY <1>5, <1>6 DEF AccessInv

LEMMA AccessInvariant == AccessSpec => []AccessInv
BY AccessAtStart, AccessStands, PTL DEF AccessSpec

\* However often a session is refreshed, nobody changes anything behind the gate with a
\* role lost longer ago than a token's life and the two requests that issue and use it.
\* (RequireRole reads the token's claims; Login, RefreshTokens and middleware.Timeout.)
THEOREM Demotion == AccessSpec => DemotionTakesHold
<1>1. ASSUME AccessInv, [AccessNext]_accessVars
      PROVE  [\A d \in Devices :
                 (/\ device[d].pc = "handle" /\ device'[d] # device[d]
                  /\ acts'[device[d].user].done > acts[device[d].user].done) =>
                     \E r \in device[d].area :
                         \/ roles[device[d].user] = r
                         \/ minute - lost[device[d].user][r] < AccessTtl + 2 * RequestTime]_accessVars
  <2> SUFFICES ASSUME NEW d \in Devices, AccessNext, device[d].pc = "handle", device'[d] # device[d],
                      acts'[device[d].user].done > acts[device[d].user].done
               PROVE  \E r \in device[d].area :
                         \/ roles[device[d].user] = r
                         \/ minute - lost[device[d].user][r] < AccessTtl + 2 * RequestTime
    BY <1>1
  <2> DEFINE q == device[d]
  <2>1. /\ AccessTypeOK /\ device \in [Devices -> DeviceStates] /\ q \in DeviceStates /\ Timely(q)
        /\ minute \in Nat /\ acts \in [Staff -> [Outcomes -> Nat]]
        /\ lost \in [Staff -> [AccessRoles -> Never..MaxMinutes]]
    BY <1>1, AccessNumbers DEF AccessInv, AccessTypeOK
  <2>2. /\ q.user \in Staff /\ q.role \in AccessRoles /\ q.began \in Nat /\ q.issued \in Int
    BY <2>1, AccessNumbers DEF DeviceStates
  <2>3. acts' # acts
    BY ZenonT(60), <2>1, <2>2, DoneCounts
  <2>4. PICK e \in Devices : (\E o \in Outcomes : Handle(e, o)) \/ HandlerDies(e)
    BY <2>3 DEF AccessNext, LogIn, Auth, RefreshAccess, GenerateTokenPair, RequireStaff2FA, Record,
       ClientGone, RecordFails, SetFactor, SetRole, TimePasses
  <2>5. e = d
    BY <2>1, <2>4 DEF Handle, HandlerDies, Leaves
  <2>6. q.role \in q.area
    <3>1. "done" \in Outcomes /\ "refused" \in Outcomes /\ "done" # "refused"
      BY BothOutcomes
    <3>2. ASSUME NEW o \in Outcomes, Handle(d, o) PROVE o = "done"
      <4>1. acts' = Count(acts, q.user, o)
        BY <3>2 DEF Handle
      <4>2. o # "done" => acts'[q.user]["done"] = acts[q.user]["done"]
        BY <2>1, <2>2, <3>1, <4>1, CountOK
      <4>3. acts[q.user]["done"] \in Nat
        BY <2>1, <2>2, <3>1
      <4> QED
        BY <4>2, <4>3
    <3> QED
      BY <2>4, <2>5, <3>1, <3>2 DEF Handle, HandlerDies
  <2>7. Had(q.user, q.role, q.issued - RequestTime)
    BY <2>1 DEF Timely
  <2>8. minute - q.began <= RequestTime /\ q.began < q.issued + AccessTtl
    BY <2>1 DEF Timely
  <2>9. lost[q.user][q.role] \in Int
    BY <2>1, <2>2, AccessNumbers
  <2> HIDE DEF q
  <2>10. CASE roles[q.user] = q.role
    BY <2>6, <2>10 DEF q
  <2>11. CASE lost[q.user][q.role] >= q.issued - RequestTime
    <3>1. minute - lost[q.user][q.role] < AccessTtl + 2 * RequestTime
      BY <2>1, <2>2, <2>8, <2>9, <2>11, AccessAssumption
    <3> QED
      BY <2>6, <3>1 DEF q
  <2> QED
    BY <2>7, <2>10, <2>11 DEF Had
<1> QED
  BY <1>1, AccessInvariant, PTL DEF AccessSpec, DemotionTakesHold

\* The devices whose entry is about to be written.
Recording(u, o) == {d \in Devices : /\ device[d].pc = "record"
                                    /\ device[d].user = u /\ device[d].outcome = o}

\* Without a fault the log is complete, and finitely many entries are outstanding.
Audited == afaults = 0 => \A u \in Staff, o \in Outcomes :
    IsFiniteSet(Recording(u, o)) /\ acts[u][o] = entries[u][o] + Cardinality(Recording(u, o))

\* A device that neither becomes nor ceases to be about to write an entry.
LEMMA SameRecording ==
    ASSUME Audited, UNCHANGED <<acts, entries, afaults>>,
           \A d \in Devices : \/ device'[d] = device[d]
                              \/ device'[d].pc # "record" /\ device[d].pc # "record"
                              \/ /\ device'[d].pc = device[d].pc /\ device'[d].user = device[d].user
                                 /\ device'[d].outcome = device[d].outcome
    PROVE  Audited'
<1>1. \A u \in Staff, o \in Outcomes : Recording(u, o)' = Recording(u, o)
  BY DEF Recording
<1> QED
  BY <1>1 DEF Audited

LEMMA AuditStands == ASSUME AccessInv, Audited, [AccessNext]_accessVars PROVE Audited'
<1> SUFFICES ASSUME afaults' = 0 PROVE Audited'
  BY DEF Audited
<1>1. /\ AccessTypeOK /\ device \in [Devices -> DeviceStates] /\ roles \in [Staff -> AccessRoles]
      /\ acts \in [Staff -> [Outcomes -> Nat]] /\ entries \in [Staff -> [Outcomes -> Nat]]
      /\ afaults \in Nat /\ minute \in Never..MaxMinutes
  BY AccessNumbers, AccessAssumption DEF AccessInv, AccessTypeOK
<1>2. CASE UNCHANGED accessVars
  BY <1>2, SameRecording DEF accessVars
<1>3. ASSUME NEW d \in Devices, NEW q, device' = [device EXCEPT ![d] = q], UNCHANGED <<acts, entries, afaults>>,
             device[d].pc # "record", q.pc # "record"
      PROVE  Audited'
  <2>1. \A e \in Devices : device'[e] = IF e = d THEN q ELSE device[e]
    BY <1>1, <1>3
  <2> QED
    BY <1>3, <2>1, SameRecording
<1>4. ASSUME NEW d \in Devices, NEW r \in DeviceStates, Asks(d, r), UNCHANGED <<acts, entries, afaults>>,
             r.pc # "record"
      PROVE  Audited'
  <2>1. PICK q \in DeviceStates :
           device[d].pc = "idle" /\ device' = [device EXCEPT ![d] = q] /\ q.pc = r.pc
    BY <1>1, <1>4, AskingState
  <2> QED
    BY <1>3, <1>4, <2>1
<1>5. ASSUME NEW d \in Devices, NEW u \in Staff, LogIn(d, u) PROVE Audited'
  <2> DEFINE r == [device[d] EXCEPT !.pc = "issue", !.user = u, !.fresh = roles[u]]
  <2>1. r \in DeviceStates /\ r.pc = "issue"
    BY ZenonT(60), <1>1 DEF DeviceStates
  <2>2. Asks(d, r) /\ UNCHANGED <<acts, entries, afaults>>
    BY <1>5 DEF LogIn
  <2> HIDE DEF r
  <2> QED
    BY <1>4, <2>1, <2>2
<1>6. ASSUME NEW d \in Devices, RefreshAccess(d) PROVE Audited'
  <2> DEFINE r == [device[d] EXCEPT !.pc = "issue", !.fresh = roles[device[d].user]]
  <2>1. roles[device[d].user] \in AccessRoles
    BY <1>1 DEF DeviceStates
  <2>2. r \in DeviceStates /\ r.pc = "issue"
    BY ZenonT(60), <1>1, <2>1 DEF DeviceStates
  <2>3. Asks(d, r) /\ UNCHANGED <<acts, entries, afaults>>
    BY <1>6 DEF RefreshAccess
  <2> HIDE DEF r
  <2> QED
    BY <1>4, <2>2, <2>3
<1>7. ASSUME NEW d \in Devices, NEW a \in Areas, Auth(d, a) PROVE Audited'
  <2> DEFINE r == [device[d] EXCEPT !.pc = "factor", !.area = a]
  <2>1. r \in DeviceStates /\ r.pc = "factor"
    BY ZenonT(60), <1>1 DEF DeviceStates
  <2>2. Asks(d, r) /\ UNCHANGED <<acts, entries, afaults>>
    BY <1>7 DEF Auth
  <2> HIDE DEF r
  <2> QED
    BY <1>4, <2>1, <2>2
<1>8. ASSUME NEW d \in Devices, GenerateTokenPair(d) PROVE Audited'
  <2> DEFINE r == [device[d] EXCEPT !.role = device[d].fresh, !.issued = minute]
  <2>1. r \in DeviceStates
    BY ZenonT(60), <1>1 DEF DeviceStates
  <2>2. device' = [device EXCEPT ![d] = Rested(r)] /\ UNCHANGED <<acts, entries, afaults>>
        /\ device[d].pc = "issue"
    BY <1>8 DEF GenerateTokenPair
  <2> HIDE DEF r
  <2>3. Rested(r).pc = "idle"
    BY <2>1, RestedState
  <2> QED
    BY <1>3, <2>2, <2>3
<1>9. ASSUME NEW d \in Devices, RequireStaff2FA(d) PROVE Audited'
  <2>1. device[d].pc = "factor" /\ UNCHANGED <<acts, entries, afaults>> /\ device[d] \in DeviceStates
    BY <1>1, <1>9 DEF RequireStaff2FA
  <2>2. \E q : device' = [device EXCEPT ![d] = q] /\ q.pc # "record"
    <3> DEFINE q == [device[d] EXCEPT !.pc = "handle"]
    <3>1. q.pc = "handle" /\ Rested(device[d]).pc = "idle"
      BY <2>1, RestedState DEF DeviceStates
    <3>2. device' = [device EXCEPT ![d] = q] \/ device' = [device EXCEPT ![d] = Rested(device[d])]
      BY <1>1, <1>9 DEF RequireStaff2FA, Leaves
    <3> HIDE DEF q
    <3> QED
      BY <3>1, <3>2
  <2> QED
    BY <1>3, <2>1, <2>2
<1>10. ASSUME NEW d \in Devices, NEW o \in Outcomes, Handle(d, o) PROVE Audited'
  <2>0. PICK w \in Staff : w = device[d].user
    BY <1>1 DEF DeviceStates
  <2> DEFINE q == [device[d] EXCEPT !.pc = "record", !.outcome = o]
  <2>1. q.pc = "record" /\ q.user = w /\ q.outcome = o /\ w \in Staff
    BY <1>1, <2>0 DEF DeviceStates
  <2>2. device' = [device EXCEPT ![d] = q] /\ device[d].pc = "handle" /\ UNCHANGED <<entries, afaults>>
        /\ acts' = Count(acts, w, o)
    BY <1>1, <1>10, <2>0 DEF Handle
  <2> HIDE DEF q
  <2>3. \A e \in Devices : device'[e] = IF e = d THEN q ELSE device[e]
    BY <1>1, <2>2
  <2>4. Recording(w, o)' = Recording(w, o) \cup {d} /\ d \notin Recording(w, o)
    BY <2>1, <2>2, <2>3 DEF Recording
  <2>5. ASSUME NEW u \in Staff, NEW p \in Outcomes, u # w \/ p # o PROVE Recording(u, p)' = Recording(u, p)
    BY <2>0, <2>1, <2>2, <2>3, <2>5 DEF Recording
  <2>6. IsFiniteSet(Recording(w, o)) /\ acts[w][o] = entries[w][o] + Cardinality(Recording(w, o))
    BY <2>1, <2>2 DEF Audited
  <2>7. IsFiniteSet(Recording(w, o)') /\ Cardinality(Recording(w, o)') = Cardinality(Recording(w, o)) + 1
    BY <2>4, <2>6, FS_AddElement
  <2>8. /\ Cardinality(Recording(w, o)) \in Nat /\ acts'[w][o] = acts[w][o] + 1
        /\ \A u \in Staff, p \in Outcomes : u # w \/ p # o => acts'[u][p] = acts[u][p]
    <3>1. Cardinality(Recording(w, o)) \in Nat
      BY <2>6, FS_CardinalityType
    <3>2. /\ Count(acts, w, o)[w][o] = acts[w][o] + 1
          /\ \A u \in Staff, p \in Outcomes : u # w \/ p # o => Count(acts, w, o)[u][p] = acts[u][p]
      BY <1>1, CountOK
    <3> QED
      BY <2>2, <3>1, <3>2
  <2>9. entries[w][o] \in Nat
    BY <1>1, <2>1
  <2>10. IsFiniteSet(Recording(w, o)') /\ acts'[w][o] = entries'[w][o] + Cardinality(Recording(w, o)')
    BY <2>2, <2>6, <2>7, <2>8, <2>9
  <2>11. ASSUME NEW u \in Staff, NEW p \in Outcomes
         PROVE  IsFiniteSet(Recording(u, p)') /\ acts'[u][p] = entries'[u][p] + Cardinality(Recording(u, p)')
    <3>1. CASE u = w /\ p = o
      BY <2>10, <3>1
    <3>2. CASE u # w \/ p # o
      BY <2>2, <2>5, <2>8, <3>2 DEF Audited
    <3> QED
      BY <3>1, <3>2
  <2> QED
    BY <2>11 DEF Audited
<1>11. ASSUME NEW d \in Devices, Record(d) PROVE Audited'
  <2>0. PICK w \in Staff, o \in Outcomes : w = device[d].user /\ o = device[d].outcome
    BY <1>1 DEF DeviceStates
  <2> DEFINE q == Rested(device[d])
  <2>1. q.pc = "idle" /\ w \in Staff /\ o \in Outcomes
    BY <1>1, RestedState DEF DeviceStates
  <2>2. device' = [device EXCEPT ![d] = q] /\ device[d].pc = "record" /\ UNCHANGED <<acts, afaults>>
        /\ entries' = Count(entries, w, o)
    BY <1>1, <1>11, <2>0 DEF Record, Leaves
  <2>3. \A e \in Devices : device'[e] = IF e = d THEN q ELSE device[e]
    BY <1>1, <2>2
  <2>4. Recording(w, o)' = Recording(w, o) \ {d} /\ d \in Recording(w, o)
    BY <2>0, <2>1, <2>2, <2>3 DEF Recording
  <2>5. ASSUME NEW u \in Staff, NEW p \in Outcomes, u # w \/ p # o PROVE Recording(u, p)' = Recording(u, p)
    BY <2>0, <2>1, <2>2, <2>3, <2>5 DEF Recording
  <2>6. IsFiniteSet(Recording(w, o)) /\ acts[w][o] = entries[w][o] + Cardinality(Recording(w, o))
    BY <2>1, <2>2 DEF Audited
  <2>7. IsFiniteSet(Recording(w, o)') /\ Cardinality(Recording(w, o)') = Cardinality(Recording(w, o)) - 1
    BY <2>4, <2>6, FS_RemoveElement
  <2>8. /\ Cardinality(Recording(w, o)) \in Nat /\ entries'[w][o] = entries[w][o] + 1
        /\ \A u \in Staff, p \in Outcomes : u # w \/ p # o => entries'[u][p] = entries[u][p]
    <3>1. Cardinality(Recording(w, o)) \in Nat
      BY <2>6, FS_CardinalityType
    <3> QED
      BY <1>1, <2>1, <2>2, <3>1, CountOK
  <2>9. entries[w][o] \in Nat
    BY <1>1, <2>1
  <2>10. IsFiniteSet(Recording(w, o)') /\ acts'[w][o] = entries'[w][o] + Cardinality(Recording(w, o)')
    BY <2>2, <2>6, <2>7, <2>8, <2>9
  <2> HIDE DEF q
  <2>11. ASSUME NEW u \in Staff, NEW p \in Outcomes
         PROVE  IsFiniteSet(Recording(u, p)') /\ acts'[u][p] = entries'[u][p] + Cardinality(Recording(u, p)')
    <3>1. CASE u = w /\ p = o
      BY <2>10, <3>1
    <3>2. CASE u # w \/ p # o
      BY <2>2, <2>5, <2>8, <3>2 DEF Audited
    <3> QED
      BY <3>1, <3>2
  <2> QED
    BY <2>11 DEF Audited
<1>12. ASSUME NEW d \in Devices, ClientGone(d) PROVE Audited'
  <2> DEFINE q == [device[d] EXCEPT !.gone = TRUE]
  <2>1. q.pc = device[d].pc /\ q.user = device[d].user /\ q.outcome = device[d].outcome
    BY <1>1 DEF DeviceStates
  <2>2. device' = [device EXCEPT ![d] = q] /\ UNCHANGED <<acts, entries, afaults>>
    BY <1>1, <1>12 DEF ClientGone
  <2> HIDE DEF q
  <2>3. \A e \in Devices : device'[e] = IF e = d THEN q ELSE device[e]
    BY <1>1, <2>2
  <2> QED
    BY <2>1, <2>2, <2>3, SameRecording
<1>13. ASSUME NEW d \in Devices, RecordFails(d) \/ HandlerDies(d) PROVE FALSE
  BY <1>1, <1>13 DEF RecordFails, HandlerDies, AccessFault
<1>14. ASSUME \/ \E u \in Staff : SetFactor(u) \/ \E r \in AccessRoles : SetRole(u, r)
              \/ TimePasses
       PROVE  Audited'
  BY <1>14, SameRecording DEF SetFactor, SetRole, TimePasses
<1> QED
  BY <1>2, <1>5, <1>6, <1>7, <1>8, <1>9, <1>10, <1>11, <1>12, <1>13, <1>14 DEF AccessNext

\* Mutations leave their trace: what happened behind the gate is in the log with its
\* actor and outcome or about to be, clients hanging up included.  (Audit's detached
\* context; a failed insert, a panic or a crash is a fault.)
THEOREM AuditComplete == AccessSpec => []AuditMissesNothing
<1>1. AccessInit => Audited
  <2> SUFFICES ASSUME AccessInit PROVE Audited
    OBVIOUS
  <2>1. \A d \in Devices : device[d].pc # "record"
    BY DEF AccessInit
  <2>2. \A u \in Staff, o \in Outcomes : Recording(u, o) = {}
    BY <2>1 DEF Recording
  <2>3. \A u \in Staff, o \in Outcomes : acts[u][o] = 0 /\ entries[u][o] = 0
    BY DEF AccessInit
  <2> QED
    BY <2>2, <2>3, FS_EmptySet DEF Audited
<1>2. Audited => AuditMissesNothing
  BY DEF Audited, AuditMissesNothing, Recording
<1> QED
  BY <1>1, <1>2, AuditStands, AccessInvariant, PTL DEF AccessSpec

-----------------------------------------------------------------------------
(* All of them                                                             *)

\* Every step of every account component keeps every variable in its type.
THEOREM AccountsTypesCorrect ==
    /\ SessionSpec /\ IdentitySpec /\ FactorSpec
    /\ AddressSpec /\ LimiterSpec /\ AccessSpec
    => []AccountsTypeOK
<1>1. /\ SessionTypeOK /\ IdentityInv /\ FactorInv /\ BookInv /\ LimiterInv /\ AccessInv
      => AccountsTypeOK
  BY DEF AccountsTypeOK, IdentityInv, LoginInv, FactorInv, BookInv, LimiterInv, AccessInv
<1> QED
  BY <1>1, SessionTypeCorrect, IdentityInvariant, FactorInvariant, BookInvariant, LimiterInvariant,
     AccessInvariant, PTL
=============================================================================
