---------------------------- MODULE SessionsProofs ----------------------------
(***************************************************************************)
(* A login never has two refresh tokens that can be exchanged and does not   *)
(* vanish, a password change ends the sessions before it, and nobody who     *)
(* follows the rules is taken for a thief: for any number of browsers,       *)
(* requests in flight, tokens and failures.                                  *)
(***************************************************************************)
EXTENDS Sessions, TLAPS

-----------------------------------------------------------------------------
(* The inductive invariant                                                 *)

Born(t) == token[t].st # "unborn"

\* Not exchanged yet: revoked and expired tokens too, since one that was live when
\* it was read may be marked used after it was revoked.
Unspent(t) == token[t].st \in {"live", "void"}

\* A row that was stored goes back to a login whose first row was stored.
Rooted == \A t \in Tokens :
    IF Born(t) THEN token[t].root \in Tokens /\ Born(token[t].root)
    ELSE token[t].root = NoToken

\* Cookies, answers and requests carry tokens that were stored.
Presented ==
    /\ \A b \in Browsers : cookie[b] \in Tokens => Born(cookie[b])
    /\ \A c \in SessionCalls :
          /\ scall[c].out \in Tokens => Born(scall[c].out)
          /\ scall[c].pc = "mark" => scall[c].tok \in Tokens /\ Born(scall[c].tok)
          /\ scall[c].pc = "issue" => scall[c].tok \in Tokens /\ token[scall[c].tok].st = "spent"

\* A login is continued by one unexchanged token, or by one request that has
\* exchanged a token and not stored the next, never by two of these.
Issuing(c, r) == scall[c].pc = "issue" /\ token[scall[c].tok].root = r
OneHeir ==
    \A r \in Tokens :
        /\ \A t, u \in Tokens : (Unspent(t) /\ Unspent(u) /\ token[t].root = r /\ token[u].root = r) => t = u
        /\ \A c, d \in SessionCalls : Issuing(c, r) /\ Issuing(d, r) => c = d
        /\ \A c \in SessionCalls, t \in Tokens : Issuing(c, r) /\ token[t].root = r => ~Unspent(t)

SessionInv == SessionTypeOK /\ Rooted /\ Presented /\ OneHeir

-----------------------------------------------------------------------------
(* Records                                                                 *)

\* The row a token becomes when it is exchanged, revoked or expires.
LEMMA RetiredRow ==
    ASSUME SessionTypeOK, NEW t \in Tokens, NEW st \in {"spent", "void"}
    PROVE  Retired(t, st) \in TokenRows /\ Retired(t, st).st = st /\ Retired(t, st).root = token[t].root
<1>1. token[t] \in TokenRows /\ 0 \in 0..MaxPasswords
  BY SessionsAssumption DEF SessionTypeOK
<1> QED
  BY <1>1 DEF Retired, TokenRows

\* The next row is one that was not used before.
LEMMA FreshRow == ASSUME Spare PROVE Fresh \in Tokens /\ ~Born(Fresh)
BY DEF Spare, Fresh, Born

LEMMA IdleCall ==
    /\ NoCall \in Calls /\ NoCall.pc = "idle" /\ NoCall.out = "keep" /\ NoCall.out \notin Tokens
BY SessionsAssumption DEF NoCall, Calls, Steps

\* A request about to answer.
LEMMA AnsweringCall ==
    ASSUME SessionTypeOK, NEW c \in SessionCalls, NEW out \in Tokens \cup {"clear", "keep"}
    PROVE  /\ Answering(c, out) \in Calls
           /\ Answering(c, out).pc = "answer" /\ Answering(c, out).out = out
<1>1. scall[c] \in Calls
  BY DEF SessionTypeOK
<1>2. scall[c].by \in Browsers \cup {NoToken} /\ scall[c].refresh \in BOOLEAN /\ "answer" \in Steps
  BY <1>1 DEF Calls, Steps
<1> QED
  BY <1>2, IdleCall DEF Answering, Calls

\* A request that goes on to its next step.
LEMMA GoneTo ==
    ASSUME SessionTypeOK, NEW c \in SessionCalls, NEW pc \in Steps, Goto(c, pc)
    PROVE  \E r \in Calls : /\ scall' = [scall EXCEPT ![c] = r]
                            /\ r.pc = pc /\ r.tok = scall[c].tok /\ r.out = scall[c].out
<1>1. scall \in [SessionCalls -> Calls] /\ scall[c] \in Calls
  BY DEF SessionTypeOK
<1> DEFINE r == [scall[c] EXCEPT !.pc = pc]
<1>2. r \in Calls /\ r.pc = pc /\ r.tok = scall[c].tok /\ r.out = scall[c].out
  BY <1>1 DEF Calls
<1>3. scall' = [scall EXCEPT ![c] = r]
  BY <1>1 DEF Goto
<1> HIDE DEF r
<1> QED
  BY <1>2, <1>3

\* A request that begins.
LEMMA Begun ==
    ASSUME NEW c \in SessionCalls, NEW b \in Browsers, NEW q \in Calls, Begin(c, b, q)
    PROVE  \E r \in Calls : /\ scall' = [scall EXCEPT ![c] = r]
                            /\ r.pc = q.pc /\ r.tok = q.tok /\ r.out = q.out
<1> DEFINE r == [q EXCEPT !.by = b]
<1>1. r \in Calls /\ r.pc = q.pc /\ r.tok = q.tok /\ r.out = q.out
  BY DEF Calls
<1>2. scall' = [scall EXCEPT ![c] = r]
  BY DEF Begin
<1> HIDE DEF r
<1> QED
  BY <1>1, <1>2

-----------------------------------------------------------------------------
(* What a step leaves alone                                                *)

\* Everything but the tokens and the requests is as it should be.
Side ==
    /\ reset' \in [ResetTokens -> {"unborn", "valid", "used", "expired"}]
    /\ password' \in 0..MaxPasswords
    /\ cookie' \in [Browsers -> Tokens \cup {NoToken}]
    /\ \A b \in Browsers : cookie'[b] \in Tokens => Born(cookie'[b])
    /\ overlap' \in BOOLEAN
    /\ sfaults' \in 0..MaxSessionFaults

\* The requests have their types, and none begins or goes on to store a token.
Requests ==
    /\ scall' \in [SessionCalls -> Calls]
    /\ \A c \in SessionCalls :
          /\ scall'[c].out \in Tokens => Born(scall'[c].out)
          /\ scall'[c].pc = "mark" => scall'[c].tok \in Tokens /\ Born(scall'[c].tok)
          /\ scall'[c].pc = "issue" => scall[c].pc = "issue" /\ scall'[c].tok = scall[c].tok

\* Rows are at most retired, not used again.
Retiring ==
    /\ token' \in [Tokens -> TokenRows]
    /\ \A t \in Tokens :
          /\ token'[t].root = token[t].root
          /\ Born(t)' <=> Born(t)
          /\ Unspent(t)' => Unspent(t)
          /\ token[t].st = "spent" => token'[t].st = "spent"

\* Steps of this kind preserve the invariant.
LEMMA Undisturbed == ASSUME SessionInv, Side, Requests, Retiring PROVE SessionInv'
<1>1. SessionTypeOK'
  BY DEF SessionTypeOK, Side, Requests, Retiring
<1>2. Rooted'
  BY DEF SessionInv, Rooted, Retiring
<1>3. Presented'
  <2>1. ASSUME NEW b \in Browsers, cookie'[b] \in Tokens PROVE token'[cookie'[b]].st # "unborn"
    BY <2>1 DEF Side, Retiring, Born
  <2>2. ASSUME NEW c \in SessionCalls
        PROVE  /\ scall'[c].out \in Tokens => token'[scall'[c].out].st # "unborn"
               /\ scall'[c].pc = "mark" => scall'[c].tok \in Tokens /\ token'[scall'[c].tok].st # "unborn"
               /\ scall'[c].pc = "issue" => scall'[c].tok \in Tokens /\ token'[scall'[c].tok].st = "spent"
    BY DEF Requests, Retiring, Born, SessionInv, Presented
  <2> QED
    BY <2>1, <2>2 DEF Presented, Born
<1>4. OneHeir'
  <2>1. ASSUME NEW c \in SessionCalls, NEW r \in Tokens, Issuing(c, r)' PROVE Issuing(c, r)
    BY <2>1 DEF Issuing, Requests, Retiring, SessionInv, Presented
  <2>2. \A t \in Tokens : token'[t].root = token[t].root /\ (Unspent(t)' => Unspent(t))
    BY DEF Retiring
  <2> QED
    BY <2>1, <2>2 DEF OneHeir, SessionInv
<1> QED
  BY <1>1, <1>2, <1>3, <1>4 DEF SessionInv

\* One request goes on and the tokens stay as they are.
LEMMA OnlyRequest ==
    ASSUME SessionInv, Side, UNCHANGED token, NEW c \in SessionCalls, NEW r \in Calls,
           scall' = [scall EXCEPT ![c] = r],
           r.out \in Tokens => Born(r.out),
           r.pc = "mark" => r.tok \in Tokens /\ Born(r.tok),
           r.pc # "issue"
    PROVE  SessionInv'
<1>1. scall \in [SessionCalls -> Calls] /\ token \in [Tokens -> TokenRows]
  BY DEF SessionInv, SessionTypeOK
<1>2. scall' \in [SessionCalls -> Calls] /\ \A d \in SessionCalls : scall'[d] = IF d = c THEN r ELSE scall[d]
  BY <1>1
<1>3. Requests
  BY <1>2 DEF Requests, SessionInv, Presented
<1>4. Retiring
  BY <1>1 DEF Retiring, Born, Unspent
<1> QED
  BY <1>3, <1>4, Undisturbed

\* Cookies, passwords and reset links, whatever the step.
LEMMA SideStands == ASSUME SessionInv, SessionNext PROVE Side
<1> USE DEF SessionInv, SessionTypeOK
<1>1. reset' \in [ResetTokens -> {"unborn", "valid", "used", "expired"}]
  <2>1. UNCHANGED reset \/ \E r, st : st \in {"valid", "used", "expired"} /\ reset' = [reset EXCEPT ![r] = st]
    BY ZenonT(60) DEF SessionNext, LoginStore, RefreshMark, RefreshIssue, Revoke, ChangeUpdate, ResetUpdate,
           MarkResetTokenUsed, StatementFails, AnswerLost, SessionFault, Login, RefreshRead, Logout,
           ChangePassword, ResetPassword, Expire, ForgotPassword, ResetExpires, Answer
  <2> QED
    BY SMTT(60), <2>1
<1>2. password' \in 0..MaxPasswords
  <2>1. UNCHANGED password \/ (password < MaxPasswords /\ password' = password + 1)
    BY ZenonT(60) DEF SessionNext, LoginStore, RefreshMark, RefreshIssue, Revoke, ChangeUpdate, ResetUpdate,
           MarkResetTokenUsed, StatementFails, AnswerLost, SessionFault, Login, RefreshRead, Logout,
           ChangePassword, ResetPassword, Expire, ForgotPassword, ResetExpires, Answer
  <2> QED
    BY <2>1, SessionsAssumption
<1>3. sfaults' \in 0..MaxSessionFaults
  <2>1. UNCHANGED sfaults \/ (sfaults < MaxSessionFaults /\ sfaults' = sfaults + 1)
    BY ZenonT(60) DEF SessionNext, LoginStore, RefreshMark, RefreshIssue, Revoke, ChangeUpdate, ResetUpdate,
           MarkResetTokenUsed, StatementFails, AnswerLost, SessionFault, Login, RefreshRead, Logout,
           ChangePassword, ResetPassword, Expire, ForgotPassword, ResetExpires, Answer
  <2> QED
    BY <2>1, SessionsAssumption
<1>4. overlap' \in BOOLEAN
  <2>1. UNCHANGED overlap \/ \E b \in Browsers : overlap' = (overlap \/ Refreshing(b))
    BY ZenonT(60) DEF SessionNext, LoginStore, RefreshMark, RefreshIssue, Revoke, ChangeUpdate, ResetUpdate,
           MarkResetTokenUsed, StatementFails, AnswerLost, SessionFault, Login, RefreshRead, Logout,
           ChangePassword, ResetPassword, Expire, ForgotPassword, ResetExpires, Answer
  <2> QED
    BY <2>1
<1>5. /\ cookie' \in [Browsers -> Tokens \cup {NoToken}]
      /\ \A b \in Browsers : cookie'[b] \in Tokens => Born(cookie'[b])
  <2>1. UNCHANGED cookie \/ \E c \in SessionCalls : Answer(c)
    BY DEF SessionNext, LoginStore, RefreshMark, RefreshIssue, Revoke, ChangeUpdate, ResetUpdate,
           MarkResetTokenUsed, StatementFails, AnswerLost, SessionFault, Login, RefreshRead, Logout,
           ChangePassword, ResetPassword, Expire, ForgotPassword, ResetExpires
  <2>2. CASE UNCHANGED cookie
    BY <2>2 DEF Presented
  <2>3. ASSUME NEW c \in SessionCalls, Answer(c)
        PROVE  /\ cookie' \in [Browsers -> Tokens \cup {NoToken}]
               /\ \A b \in Browsers : cookie'[b] \in Tokens => Born(cookie'[b])
    <3>1. PICK v : /\ v = NoToken \/ (v \in Tokens /\ Born(v))
                   /\ UNCHANGED cookie \/ cookie' = [cookie EXCEPT ![scall[c].by] = v]
      BY <2>3 DEF Answer, Presented
    <3> QED
      BY <3>1, SessionsAssumption DEF Presented
  <2> QED
    BY <2>1, <2>2, <2>3
<1> QED
  BY <1>1, <1>2, <1>3, <1>4, <1>5 DEF Side

-----------------------------------------------------------------------------
(* Steps that store no token                                               *)

LEMMA BeginSteps ==
    ASSUME SessionInv, Side, NEW c \in SessionCalls, NEW b \in Browsers,
           \/ Login(c, b) \/ RefreshRead(c, b) \/ ChangePassword(c, b)
           \/ \E r \in ResetTokens : ResetPassword(c, b, r)
    PROVE  SessionInv'
<1>1. /\ token \in [Tokens -> TokenRows] /\ cookie \in [Browsers -> Tokens \cup {NoToken}]
      /\ password \in 0..MaxPasswords
  BY DEF SessionInv, SessionTypeOK
<1>2. ASSUME NEW q \in Calls, Begin(c, b, q), UNCHANGED token, q.out \notin Tokens,
             q.pc = "mark" => q.tok \in Tokens /\ Born(q.tok), q.pc # "issue"
      PROVE  SessionInv'
  <2>1. PICK r \in Calls : /\ scall' = [scall EXCEPT ![c] = r]
                           /\ r.pc = q.pc /\ r.tok = q.tok /\ r.out = q.out
    BY <1>2, Begun
  <2> QED
    BY <1>2, <2>1, OnlyRequest
<1>3. CASE Login(c, b) \/ ChangePassword(c, b)
  <2> DEFINE q(pc) == [NoCall EXCEPT !.pc = pc, !.pw = password]
  <2>1. ASSUME NEW pc \in {"login_store", "change_update"}
        PROVE  q(pc) \in Calls /\ q(pc).pc = pc /\ q(pc).out = "keep"
    BY <1>1, IdleCall DEF Calls, Steps
  <2>2. \E pc \in {"login_store", "change_update"} : Begin(c, b, q(pc)) /\ UNCHANGED token
    BY <1>3 DEF Login, ChangePassword
  <2> HIDE DEF q
  <2> QED
    BY <1>2, <2>1, <2>2, SessionsAssumption
<1>4. ASSUME NEW r \in ResetTokens, ResetPassword(c, b, r) PROVE SessionInv'
  <2> DEFINE q == [NoCall EXCEPT !.pc = "reset_update", !.tok = r]
  <2>1. q \in Calls /\ q.pc = "reset_update" /\ q.out = "keep"
    BY IdleCall DEF Calls, Steps
  <2>2. Begin(c, b, q) /\ UNCHANGED token
    BY <1>4 DEF ResetPassword
  <2> HIDE DEF q
  <2> QED
    BY <1>2, <2>1, <2>2, SessionsAssumption
<1>5. CASE RefreshRead(c, b)
  <2> DEFINE t == cookie[b]
             pc == CASE token[t].st = "live" -> "mark"
                     [] token[t].st = "spent" -> "revoke"
                     [] token[t].st = "void" -> "answer"
             out == IF token[t].st = "void" THEN "clear" ELSE "keep"
             q == [NoCall EXCEPT !.pc = pc, !.out = out, !.tok = t, !.pw = token[t].pw,
                                 !.crossed = token[t].late, !.refresh = TRUE]
  <2>1. t \in Tokens /\ Born(t) /\ token[t] \in TokenRows
    BY <1>1, <1>5 DEF RefreshRead, SessionInv, Presented
  <2>2. token[t].pw \in 0..MaxPasswords /\ token[t].late \in BOOLEAN
        /\ token[t].st \in {"live", "spent", "void"}
    BY <2>1 DEF TokenRows, Born
  <2>3. pc \in {"mark", "revoke", "answer"} /\ out \in {"clear", "keep"}
    BY <2>2
  <2>4. Begin(c, b, q) /\ UNCHANGED token
    BY <1>5 DEF RefreshRead
  <2> HIDE DEF pc, out
  <2>5. q \in Calls /\ q.pc = pc /\ q.out = out /\ q.tok = t
    BY <2>1, <2>2, <2>3, IdleCall DEF Calls, Steps
  <2> HIDE DEF q
  <2> QED
    BY <1>2, <2>1, <2>3, <2>4, <2>5, SessionsAssumption
<1> QED
  BY <1>3, <1>4, <1>5

LEMMA CallSteps ==
    ASSUME SessionInv, Side, NEW c \in SessionCalls,
           \/ Answer(c) \/ AnswerLost(c) \/ StatementFails(c)
           \/ ChangeUpdate(c) \/ ResetUpdate(c) \/ MarkResetTokenUsed(c)
           \/ (RefreshMark(c) /\ token[scall[c].tok].st = "spent")
    PROVE  SessionInv'
<1>1. SessionTypeOK /\ scall[c] \in Calls /\ (scall[c].out \in Tokens => Born(scall[c].out))
  BY DEF SessionInv, SessionTypeOK, Presented
<1>2. CASE Answer(c) \/ AnswerLost(c)
  <2>1. scall' = [scall EXCEPT ![c] = NoCall] /\ UNCHANGED token
    BY <1>2 DEF Answer, AnswerLost
  <2>2. NoCall.pc # "mark" /\ NoCall.pc # "issue"
    BY IdleCall
  <2> QED
    BY <2>1, <2>2, IdleCall, OnlyRequest
<1>3. CASE StatementFails(c)
  <2>1. PICK out \in {"clear", "keep"} : scall' = [scall EXCEPT ![c] = Answering(c, out)] /\ UNCHANGED token
    BY <1>3 DEF StatementFails, Answers
  <2>2. /\ Answering(c, out) \in Calls /\ Answering(c, out).pc = "answer" /\ Answering(c, out).out = out
        /\ out \notin Tokens
    BY <1>1, AnsweringCall, SessionsAssumption
  <2> QED
    BY <2>1, <2>2, OnlyRequest
<1>4. ASSUME NEW pc \in {"revoke", "reset_mark"}, Goto(c, pc), UNCHANGED token PROVE SessionInv'
  <2>1. PICK r \in Calls : scall' = [scall EXCEPT ![c] = r] /\ r.pc = pc /\ r.out = scall[c].out
    BY <1>1, <1>4, GoneTo DEF Steps
  <2> QED
    BY <1>1, <1>4, <2>1, OnlyRequest
<1>5. CASE ChangeUpdate(c) \/ ResetUpdate(c) \/ MarkResetTokenUsed(c)
  BY <1>4, <1>5 DEF ChangeUpdate, ResetUpdate, MarkResetTokenUsed
<1>6. CASE RefreshMark(c) /\ token[scall[c].tok].st = "spent"
  BY <1>4, <1>6 DEF RefreshMark, MarkRefreshTokenUsed
<1> QED
  BY <1>2, <1>3, <1>5, <1>6

\* A reset mail is sent, or its token expires.
LEMMA ResetSteps ==
    ASSUME SessionInv, Side, NEW r \in ResetTokens, ForgotPassword(r) \/ ResetExpires(r)
    PROVE  SessionInv'
<1>1. UNCHANGED <<token, scall>>
  BY DEF ForgotPassword, ResetExpires
<1>2. Requests /\ Retiring
  BY <1>1 DEF Requests, Retiring, SessionInv, SessionTypeOK, Presented, Born, Unspent
<1> QED
  BY <1>2, Undisturbed

\* All the user's live tokens are revoked, or one expires.
LEMMA RetireSteps ==
    ASSUME SessionInv, Side,
           \/ \E c \in SessionCalls : Revoke(c) \/ \E b \in Browsers : Logout(c, b)
           \/ \E t \in Tokens : Expire(t)
    PROVE  SessionInv'
<1>1. /\ SessionTypeOK /\ token \in [Tokens -> TokenRows] /\ scall \in [SessionCalls -> Calls]
  BY DEF SessionInv, SessionTypeOK
<1>2. ASSUME NEW S \in SUBSET Tokens, \A t \in S : Active(t),
             \A t \in Tokens : token'[t] = IF t \in S THEN Retired(t, "void") ELSE token[t],
             token' \in [Tokens -> TokenRows]
      PROVE  Retiring
  <2>1. ASSUME NEW t \in Tokens
        PROVE  /\ token'[t].root = token[t].root
               /\ Born(t)' <=> Born(t)
               /\ Unspent(t)' => Unspent(t)
               /\ token[t].st = "spent" => token'[t].st = "spent"
    BY <1>1, <1>2, RetiredRow DEF Active, Born, Unspent
  <2> QED
    BY <1>2, <2>1 DEF Retiring
<1>3. ASSUME RevokeAllUserTokens PROVE Retiring
  <2> DEFINE S == {t \in Tokens : Active(t)}
  <2>1. token' = [t \in Tokens |-> IF t \in S THEN Retired(t, "void") ELSE token[t]]
    BY <1>3 DEF RevokeAllUserTokens
  <2>2. token' \in [Tokens -> TokenRows]
    BY <1>1, <2>1, RetiredRow
  <2> QED
    BY <1>2, <2>1, <2>2
<1>4. ASSUME NEW c \in SessionCalls, NEW r \in Calls, Crossing(c, r), RevokeAllUserTokens,
             r.pc = "answer", r.out \notin Tokens
      PROVE  SessionInv'
  <2>1. ASSUME NEW d \in SessionCalls, d # c
        PROVE  /\ scall'[d] \in Calls /\ scall'[d].pc = scall[d].pc
               /\ scall'[d].out = scall[d].out /\ scall'[d].tok = scall[d].tok
    <3> DEFINE x == scall[d].crossed \/ scall[d].pc \notin {"idle", "answer"}
               e == [scall[d] EXCEPT !.crossed = x]
    <3>1. e \in Calls /\ e.pc = scall[d].pc /\ e.out = scall[d].out /\ e.tok = scall[d].tok
      BY <1>1 DEF Calls
    <3>2. scall'[d] = e
      BY <1>4, <2>1 DEF Crossing
    <3> QED
      BY <3>1, <3>2
  <2>2. scall'[c] = r
    BY <1>4 DEF Crossing
  <2>3. scall' \in [SessionCalls -> Calls]
    <3> DEFINE x(d) == scall[d].crossed \/ scall[d].pc \notin {"idle", "answer"}
               e(d) == IF d = c THEN r ELSE [scall[d] EXCEPT !.crossed = x(d)]
    <3>1. scall' = [d \in SessionCalls |-> e(d)]
      BY <1>4 DEF Crossing
    <3> HIDE DEF e
    <3>2. \A d \in SessionCalls : e(d) \in Calls
      BY <1>4, <2>1, <2>2, <3>1
    <3> QED
      BY <3>1, <3>2
  <2>4. Requests
    BY <1>4, <2>1, <2>2, <2>3 DEF Requests, SessionInv, Presented
  <2> QED
    BY <1>3, <1>4, <2>4, Undisturbed
<1>5. ASSUME NEW c \in SessionCalls, Revoke(c) PROVE SessionInv'
  <2>1. PICK out \in {"clear", "keep"} : Crossing(c, Answering(c, out))
    BY <1>5 DEF Revoke
  <2> QED
    BY <1>1, <1>4, <1>5, <2>1, AnsweringCall, SessionsAssumption DEF Revoke
<1>6. ASSUME NEW c \in SessionCalls, NEW b \in Browsers, Logout(c, b) PROVE SessionInv'
  <2> DEFINE r == [NoCall EXCEPT !.pc = "answer", !.out = "clear", !.by = b]
  <2>1. r \in Calls /\ r.pc = "answer" /\ r.out = "clear"
    BY IdleCall DEF Calls, Steps
  <2>2. Crossing(c, r) /\ RevokeAllUserTokens
    BY <1>6 DEF Logout
  <2> HIDE DEF r
  <2> QED
    BY <1>4, <2>1, <2>2, SessionsAssumption
<1>7. ASSUME NEW t \in Tokens, Expire(t) PROVE SessionInv'
  <2>1. token' = [token EXCEPT ![t] = Retired(t, "void")] /\ Active(t) /\ UNCHANGED scall
    BY <1>7 DEF Expire
  <2>2. /\ token' \in [Tokens -> TokenRows]
        /\ \A u \in Tokens : token'[u] = IF u \in {t} THEN Retired(u, "void") ELSE token[u]
    BY <1>1, <2>1, RetiredRow
  <2>3. Retiring
    BY <1>2, <2>1, <2>2
  <2>4. Requests
    BY <1>1, <2>1 DEF Requests, SessionInv, Presented
  <2> QED
    BY <2>3, <2>4, Undisturbed
<1> QED
  BY <1>5, <1>6, <1>7

-----------------------------------------------------------------------------
(* Steps that carry a login on                                             *)

\* A new row for login r, stored by a request that then answers with it.
LEMMA StoreStep ==
    ASSUME SessionInv, Side, NEW c \in SessionCalls, NEW r \in Tokens, Spare,
           StoreRefreshToken(c, r), Answers(c, Fresh),
           r = Fresh \/ Issuing(c, r)
    PROVE  SessionInv'
<1>1. /\ SessionTypeOK /\ scall \in [SessionCalls -> Calls] /\ token \in [Tokens -> TokenRows]
      /\ scall[c] \in Calls
  BY DEF SessionInv, SessionTypeOK
<1>2. Fresh \in Tokens /\ ~Born(Fresh)
  BY FreshRow
<1> DEFINE n == Fresh
           row == [st |-> "live", root |-> r, pw |-> scall[c].pw, late |-> scall[c].crossed]
           a == Answering(c, n)
<1> HIDE DEF n
<1>3. row \in TokenRows /\ row.st = "live" /\ row.root = r
  BY <1>1 DEF TokenRows, Calls
<1>4. token' = [token EXCEPT ![n] = row]
  BY DEF StoreRefreshToken, n
<1>5. a \in Calls /\ a.pc = "answer" /\ a.out = n /\ scall' = [scall EXCEPT ![c] = a] /\ n \in Tokens /\ ~Born(n)
  BY <1>1, <1>2, AnsweringCall DEF Answers, n
<1> HIDE DEF row, a
<1>6. /\ token' \in [Tokens -> TokenRows]
      /\ \A t \in Tokens : token'[t] = IF t = n THEN row ELSE token[t]
  BY <1>1, <1>3, <1>4, <1>5
<1>7. /\ scall' \in [SessionCalls -> Calls]
      /\ \A d \in SessionCalls : scall'[d] = IF d = c THEN a ELSE scall[d]
  BY <1>1, <1>5
<1>8. SessionTypeOK'
  BY <1>6, <1>7 DEF SessionTypeOK, Side
<1>9. \A t \in Tokens : Born(t) => token'[t] = token[t] /\ t # n
  BY <1>5, <1>6
<1>10. r = n \/ Born(r)
  BY <1>1 DEF n, Issuing, SessionInv, Presented, Rooted, Born
<1>11. Rooted'
  BY <1>3, <1>5, <1>6, <1>9, <1>10 DEF Rooted, SessionInv, Born
<1>12. Presented'
  <2>1. ASSUME NEW b \in Browsers, cookie'[b] \in Tokens PROVE token'[cookie'[b]].st # "unborn"
    BY <1>9, <2>1 DEF Side, Born
  <2>2. ASSUME NEW d \in SessionCalls
        PROVE  /\ scall'[d].out \in Tokens => token'[scall'[d].out].st # "unborn"
               /\ scall'[d].pc = "mark" => scall'[d].tok \in Tokens /\ token'[scall'[d].tok].st # "unborn"
               /\ scall'[d].pc = "issue" => scall'[d].tok \in Tokens /\ token'[scall'[d].tok].st = "spent"
    <3>1. CASE d = c
      BY <1>3, <1>5, <1>6, <1>7, <3>1
    <3>2. CASE d # c
      BY <1>7, <1>9, <3>2 DEF SessionInv, Presented, Born
    <3> QED
      BY <3>1, <3>2
  <2> QED
    BY <2>1, <2>2 DEF Presented, Born
<1>13. ASSUME NEW d \in SessionCalls, NEW q \in Tokens, Issuing(d, q)'
       PROVE  Issuing(d, q) /\ d # c /\ Born(q)
  <2>1. d # c /\ scall'[d] = scall[d]
    BY <1>5, <1>7, <1>13 DEF Issuing
  <2>2. scall[d].tok \in Tokens /\ Born(scall[d].tok)
    BY <1>13, <2>1 DEF Issuing, SessionInv, Presented, Born
  <2>3. token[scall[d].tok].root = q
    BY <1>9, <1>13, <2>1, <2>2 DEF Issuing
  <2> QED
    BY <1>13, <2>1, <2>2, <2>3 DEF Issuing, SessionInv, Rooted
<1>14. ASSUME NEW t \in Tokens, t # n, Unspent(t)
       PROVE  token[t].root # r /\ Born(token[t].root)
  <2>1. Born(t) /\ Born(token[t].root)
    BY <1>14 DEF Unspent, Born, SessionInv, Rooted
  <2>2. CASE r = n
    BY <1>5, <2>1, <2>2
  <2>3. CASE Issuing(c, r)
    BY <1>14, <2>1, <2>3 DEF SessionInv, OneHeir
  <2> QED
    BY <2>1, <2>2, <2>3 DEF n
<1>15. ASSUME NEW t \in Tokens, Unspent(t)' PROVE t = n \/ Unspent(t)
  BY <1>6, <1>15 DEF Unspent
<1>16. OneHeir'
  <2>1. ASSUME NEW q \in Tokens, NEW t \in Tokens, NEW u \in Tokens, Unspent(t)', Unspent(u)',
               token'[t].root = q, token'[u].root = q
        PROVE  t = u
    BY <1>3, <1>6, <1>14, <1>15, <2>1 DEF SessionInv, OneHeir
  <2>2. ASSUME NEW q \in Tokens, NEW d \in SessionCalls, NEW e \in SessionCalls,
               Issuing(d, q)', Issuing(e, q)'
        PROVE  d = e
    BY <1>13, <2>2 DEF SessionInv, OneHeir
  <2>3. ASSUME NEW q \in Tokens, NEW d \in SessionCalls, NEW t \in Tokens,
               Issuing(d, q)', token'[t].root = q, Unspent(t)'
        PROVE  FALSE
    <3>1. Issuing(d, q) /\ d # c /\ Born(q)
      BY <1>13, <2>3
    <3>2. CASE t = n
      <4>1. q = r
        BY <1>3, <1>6, <2>3, <3>2
      <4> QED
        BY <1>5, <3>1, <4>1 DEF n, SessionInv, OneHeir
    <3>3. CASE t # n
      BY <1>6, <1>15, <2>3, <3>1, <3>3 DEF SessionInv, OneHeir
    <3> QED
      BY <3>2, <3>3
  <2> QED
    BY <2>1, <2>2, <2>3 DEF OneHeir
<1> QED
  BY <1>8, <1>11, <1>12, <1>16 DEF SessionInv

\* The exchange of an unspent token: its request alone carries the login on.
LEMMA MarkStep ==
    ASSUME SessionInv, Side, NEW c \in SessionCalls, RefreshMark(c), token[scall[c].tok].st # "spent"
    PROVE  SessionInv'
<1> DEFINE t == scall[c].tok
           q == token[t].root
<1>1. /\ SessionTypeOK /\ scall \in [SessionCalls -> Calls] /\ token \in [Tokens -> TokenRows]
      /\ t \in Tokens /\ Born(t)
      /\ scall[c].out \in Tokens => Born(scall[c].out)
  BY DEF SessionInv, SessionTypeOK, Presented, RefreshMark
<1>2. Unspent(t) /\ q \in Tokens /\ scall[c].pc = "mark"
  BY <1>1 DEF Unspent, Born, TokenRows, SessionInv, Rooted, RefreshMark
<1>3. /\ token' \in [Tokens -> TokenRows]
      /\ \A u \in Tokens \ {t} : token'[u] = token[u]
      /\ token'[t].st = "spent" /\ token'[t].root = q
  BY <1>1, RetiredRow DEF RefreshMark, MarkRefreshTokenUsed
<1>4. PICK r \in Calls : /\ scall' = [scall EXCEPT ![c] = r]
                         /\ r.pc = "issue" /\ r.tok = t /\ r.out = scall[c].out
  BY <1>1, GoneTo DEF RefreshMark, MarkRefreshTokenUsed, Steps
<1> HIDE DEF t, q
<1>5. /\ scall' \in [SessionCalls -> Calls] /\ scall'[c] = r
      /\ \A d \in SessionCalls \ {c} : scall'[d] = scall[d]
  BY <1>1, <1>4
<1>6. SessionTypeOK'
  BY <1>3, <1>5 DEF SessionTypeOK, Side
<1>7. \A u \in Tokens : /\ token'[u].root = token[u].root /\ (token'[u].st # "unborn" <=> Born(u))
                        /\ (Unspent(u)' => Unspent(u) /\ u # t)
                        /\ (token[u].st = "spent" => token'[u].st = "spent")
  BY <1>1, <1>3 DEF q, Born, Unspent
<1>8. Rooted'
  BY <1>7 DEF Rooted, SessionInv, Born
<1>9. Presented'
  <2>1. ASSUME NEW b \in Browsers, cookie'[b] \in Tokens PROVE token'[cookie'[b]].st # "unborn"
    BY <1>7, <2>1 DEF Side
  <2>2. ASSUME NEW d \in SessionCalls
        PROVE  /\ scall'[d].out \in Tokens => token'[scall'[d].out].st # "unborn"
               /\ scall'[d].pc = "mark" => scall'[d].tok \in Tokens /\ token'[scall'[d].tok].st # "unborn"
               /\ scall'[d].pc = "issue" => scall'[d].tok \in Tokens /\ token'[scall'[d].tok].st = "spent"
    <3>1. CASE d = c
      BY <1>1, <1>3, <1>4, <1>5, <1>7, <3>1
    <3>2. CASE d # c
      BY <1>5, <1>7, <3>2 DEF SessionInv, Presented
    <3> QED
      BY <3>1, <3>2
  <2> QED
    BY <2>1, <2>2 DEF Presented, Born
<1>10. ASSUME NEW d \in SessionCalls, NEW p \in Tokens, Issuing(d, p)'
       PROVE  (d = c /\ p = q) \/ (d # c /\ Issuing(d, p) /\ p # q)
  <2>1. CASE d = c
    BY <1>3, <1>4, <1>5, <1>10, <2>1 DEF Issuing
  <2>2. CASE d # c
    <3>1. scall[d].pc = "issue" /\ scall[d].tok \in Tokens
      BY <1>5, <1>10, <2>2 DEF Issuing, SessionInv, Presented
    <3>2. Issuing(d, p)
      BY <1>5, <1>7, <1>10, <2>2, <3>1 DEF Issuing
    <3>3. p # q
      BY <1>1, <1>2, <3>2 DEF q, SessionInv, OneHeir
    <3> QED
      BY <2>2, <3>2, <3>3
  <2> QED
    BY <2>1, <2>2
<1>11. \A u \in Tokens : Unspent(u)' => Unspent(u) /\ token[u].root # q
  BY <1>1, <1>2, <1>7 DEF q, SessionInv, OneHeir
<1>12. OneHeir'
  BY <1>7, <1>10, <1>11 DEF OneHeir, SessionInv
<1> QED
  BY <1>6, <1>8, <1>9, <1>12 DEF SessionInv

-----------------------------------------------------------------------------
(* The theorem                                                             *)

LEMMA SessionStands == ASSUME SessionInv, [SessionNext]_sessionVars PROVE SessionInv'
<1>1. CASE UNCHANGED sessionVars
  BY <1>1 DEF sessionVars, SessionInv, SessionTypeOK, Rooted, Presented, OneHeir, Issuing, Born, Unspent
<1>2. CASE SessionNext
  <2>1. Side
    BY <1>2, SideStands
  <2>2. ASSUME NEW c \in SessionCalls, LoginStore(c) PROVE SessionInv'
    BY <2>1, <2>2, FreshRow, StoreStep DEF LoginStore
  <2>3. ASSUME NEW c \in SessionCalls, RefreshIssue(c) PROVE SessionInv'
    <3> DEFINE r == token[scall[c].tok].root
    <3>1. r \in Tokens /\ Issuing(c, r)
      BY <2>3 DEF RefreshIssue, Issuing, SessionInv, Presented, Rooted, Born
    <3> QED
      BY <2>1, <2>3, <3>1, StoreStep DEF RefreshIssue
  <2>4. ASSUME NEW c \in SessionCalls, RefreshMark(c) PROVE SessionInv'
    BY <2>1, <2>4, CallSteps, MarkStep
  <2> QED
    BY <1>2, <2>1, <2>2, <2>3, <2>4, BeginSteps, CallSteps, RetireSteps, ResetSteps DEF SessionNext
<1> QED
  BY <1>1, <1>2

LEMMA SessionAtStart == SessionInit => SessionInv
<1> SUFFICES ASSUME SessionInit PROVE SessionInv
  OBVIOUS
<1>1. Unborn \in TokenRows /\ Unborn.st = "unborn" /\ Unborn.root = NoToken
  BY SessionsAssumption DEF Unborn, TokenRows
<1>2. SessionTypeOK
  <2>1. token \in [Tokens -> TokenRows]
    BY <1>1 DEF SessionInit
  <2>2. reset \in [ResetTokens -> {"unborn", "valid", "used", "expired"}]
    BY DEF SessionInit
  <2>3. password \in 0..MaxPasswords /\ sfaults \in 0..MaxSessionFaults
    BY SessionsAssumption DEF SessionInit
  <2>4. cookie \in [Browsers -> Tokens \cup {NoToken}] /\ overlap \in BOOLEAN
    BY DEF SessionInit
  <2>5. scall \in [SessionCalls -> Calls]
    BY IdleCall DEF SessionInit
  <2> QED
    BY <2>1, <2>2, <2>3, <2>4, <2>5 DEF SessionTypeOK
<1>3. /\ \A t \in Tokens : token[t] = Unborn
      /\ \A c \in SessionCalls : scall[c] = NoCall
      /\ \A b \in Browsers : cookie[b] = NoToken
  BY DEF SessionInit
<1>4. Rooted /\ Presented
  BY <1>1, <1>3, IdleCall, SessionsAssumption DEF Rooted, Presented, Born
<1>5. OneHeir
  BY <1>1, <1>3, IdleCall DEF OneHeir, Issuing, Unspent
<1> QED
  BY <1>2, <1>4, <1>5 DEF SessionInv

\* However a refresh token is presented, raced, replayed, revoked or lost on the way,
\* its login has at most one token that can still be exchanged.
\* (MarkRefreshTokenUsed, RefreshTokens, RevokeAllUserTokens.)
THEOREM OneSession == SessionSpec => []OneSessionPerLogin
<1>1. SessionInv => OneSessionPerLogin
  <2> SUFFICES ASSUME SessionInv, NEW t \in Tokens, NEW u \in Tokens, Active(t), Active(u),
                      token[t].root = token[u].root
               PROVE  t = u
    BY DEF OneSessionPerLogin
  <2>1. Unspent(t) /\ Unspent(u) /\ token[t].root \in Tokens
    BY DEF Active, Unspent, Born, SessionInv, Rooted
  <2> QED
    BY <2>1 DEF SessionInv, OneHeir
<1> QED
  BY <1>1, SessionAtStart, SessionStands, PTL DEF SessionSpec

-----------------------------------------------------------------------------
(* What each step does to its request                                      *)

\* r has everything of q but its step.
Onward(r, q) ==
    /\ r.by = q.by /\ r.tok = q.tok /\ r.out = q.out /\ r.pw = q.pw
    /\ r.crossed = q.crossed /\ r.refresh = q.refresh

\* A request that begins, as the log in and the password calls do.
LEMMA NewCall ==
    ASSUME SessionInv, NEW c \in SessionCalls, NEW b \in Browsers,
           Login(c, b) \/ ChangePassword(c, b) \/ \E t \in ResetTokens : ResetPassword(c, b, t)
    PROVE  /\ UNCHANGED <<token, password, cookie, overlap, sfaults>>
           /\ \E r \in Calls : /\ scall' = [scall EXCEPT ![c] = r]
                               /\ r.refresh = FALSE /\ r.out = "keep"
                               /\ r.pc \in {"login_store", "change_update", "reset_update"}
                               /\ r.pc = "login_store" => r.pw = password
<1>1. password \in 0..MaxPasswords
  BY DEF SessionInv, SessionTypeOK
<1>2. CASE Login(c, b)
  <2> DEFINE q == [NoCall EXCEPT !.pc = "login_store", !.pw = password]
             r == [q EXCEPT !.by = b]
  <2>1. q \in Calls /\ q.pc = "login_store" /\ q.out = "keep" /\ q.refresh = FALSE /\ q.pw = password
    BY <1>1, IdleCall DEF Calls, Steps, NoCall
  <2>2. scall' = [scall EXCEPT ![c] = r] /\ UNCHANGED <<token, password, cookie, overlap, sfaults>>
    BY <1>2 DEF Login, Begin
  <2> HIDE DEF q
  <2>3. r \in Calls /\ r.pc = q.pc /\ r.out = q.out /\ r.refresh = q.refresh /\ r.pw = q.pw
    BY <2>1 DEF Calls
  <2> HIDE DEF r
  <2> QED
    BY <2>1, <2>2, <2>3
<1>3. CASE ChangePassword(c, b)
  <2> DEFINE q == [NoCall EXCEPT !.pc = "change_update", !.pw = password]
             r == [q EXCEPT !.by = b]
  <2>1. q \in Calls /\ q.pc = "change_update" /\ q.out = "keep" /\ q.refresh = FALSE
    BY <1>1, IdleCall DEF Calls, Steps, NoCall
  <2>2. scall' = [scall EXCEPT ![c] = r] /\ UNCHANGED <<token, password, cookie, overlap, sfaults>>
    BY <1>3 DEF ChangePassword, Begin
  <2> HIDE DEF q
  <2>3. r \in Calls /\ r.pc = q.pc /\ r.out = q.out /\ r.refresh = q.refresh
    BY <2>1 DEF Calls
  <2> HIDE DEF r
  <2> QED
    BY <2>1, <2>2, <2>3
<1>4. ASSUME NEW t \in ResetTokens, ResetPassword(c, b, t)
      PROVE  /\ UNCHANGED <<token, password, cookie, overlap, sfaults>>
             /\ \E r \in Calls : /\ scall' = [scall EXCEPT ![c] = r]
                                 /\ r.refresh = FALSE /\ r.out = "keep" /\ r.pc = "reset_update"
  <2> DEFINE q == [NoCall EXCEPT !.pc = "reset_update", !.tok = t]
             r == [q EXCEPT !.by = b]
  <2>1. q \in Calls /\ q.pc = "reset_update" /\ q.out = "keep" /\ q.refresh = FALSE
    BY IdleCall DEF Calls, Steps, NoCall
  <2>2. scall' = [scall EXCEPT ![c] = r] /\ UNCHANGED <<token, password, cookie, overlap, sfaults>>
    BY <1>4 DEF ResetPassword, Begin
  <2> HIDE DEF q
  <2>3. r \in Calls /\ r.pc = q.pc /\ r.out = q.out /\ r.refresh = q.refresh
    BY <2>1 DEF Calls
  <2> HIDE DEF r
  <2> QED
    BY <2>1, <2>2, <2>3
<1> QED
  BY <1>2, <1>3, <1>4

\* r is a refresh, by browser b, that has read token t.
HasRead(r, b, t) ==
    /\ r.refresh = TRUE /\ r.by = b /\ r.tok = t
    /\ r.pw = token[t].pw /\ r.crossed = token[t].late
    /\ \/ token[t].st = "live" /\ r.pc = "mark" /\ r.out = "keep"
       \/ token[t].st = "spent" /\ r.pc = "revoke" /\ r.out = "keep"
       \/ token[t].st = "void" /\ r.pc = "answer" /\ r.out = "clear"

\* A refresh that has read the token of its browser's cookie.
LEMMA ReadCall ==
    ASSUME SessionInv, NEW c \in SessionCalls, NEW b \in Browsers, RefreshRead(c, b),
           NEW t, t = cookie[b]
    PROVE  /\ t \in Tokens /\ Born(t) /\ scall[c].pc = "idle"
           /\ UNCHANGED <<token, password, cookie, sfaults>> /\ overlap' = (overlap \/ Refreshing(b))
           /\ \E r \in Calls : scall' = [scall EXCEPT ![c] = r] /\ HasRead(r, b, t)
<1> DEFINE pc == CASE token[t].st = "live" -> "mark"
                   [] token[t].st = "spent" -> "revoke"
                   [] token[t].st = "void" -> "answer"
           out == IF token[t].st = "void" THEN "clear" ELSE "keep"
           q == [NoCall EXCEPT !.pc = pc, !.out = out, !.tok = t, !.pw = token[t].pw,
                               !.crossed = token[t].late, !.refresh = TRUE]
           r == [q EXCEPT !.by = b]
<1>1. /\ token \in [Tokens -> TokenRows] /\ cookie \in [Browsers -> Tokens \cup {NoToken}]
  BY DEF SessionInv, SessionTypeOK
<1>2. t \in Tokens /\ Born(t) /\ token[t] \in TokenRows
  BY <1>1 DEF RefreshRead, SessionInv, Presented
<1>3. /\ token[t].pw \in 0..MaxPasswords /\ token[t].late \in BOOLEAN
      /\ token[t].st \in {"live", "spent", "void"}
  BY <1>2 DEF TokenRows, Born
<1>4. \/ token[t].st = "live" /\ pc = "mark" /\ out = "keep"
      \/ token[t].st = "spent" /\ pc = "revoke" /\ out = "keep"
      \/ token[t].st = "void" /\ pc = "answer" /\ out = "clear"
  BY <1>3
<1>5. /\ scall' = [scall EXCEPT ![c] = r] /\ scall[c].pc = "idle"
      /\ UNCHANGED <<token, password, cookie, sfaults>> /\ overlap' = (overlap \/ Refreshing(b))
  BY DEF RefreshRead, Begin
<1> HIDE DEF pc, out
<1>6. q \in Calls
  BY <1>2, <1>3, <1>4, IdleCall DEF Calls, Steps
<1>7. q.pc = pc /\ q.out = out /\ q.tok = t /\ q.refresh = TRUE /\ q.pw = token[t].pw /\ q.crossed = token[t].late
  BY IdleCall DEF Calls
<1> HIDE DEF q
<1>8. r \in Calls /\ r.by = b /\ r.pc = q.pc /\ r.out = q.out /\ r.tok = q.tok /\ r.refresh = q.refresh
      /\ r.pw = q.pw /\ r.crossed = q.crossed
  BY <1>6 DEF Calls
<1> HIDE DEF r
<1>9. HasRead(r, b, t)
  BY <1>4, <1>7, <1>8 DEF HasRead
<1> QED
  BY <1>2, <1>5, <1>8, <1>9

\* A request that goes on to its next statement.
LEMMA NextCall ==
    ASSUME SessionInv, NEW c \in SessionCalls, NEW pc \in Steps, Goto(c, pc)
    PROVE  \E r \in Calls : scall' = [scall EXCEPT ![c] = r] /\ r.pc = pc /\ Onward(r, scall[c])
<1>1. scall \in [SessionCalls -> Calls] /\ scall[c] \in Calls
  BY DEF SessionInv, SessionTypeOK
<1> DEFINE r == [scall[c] EXCEPT !.pc = pc]
<1>2. r \in Calls /\ r.pc = pc /\ Onward(r, scall[c])
  BY <1>1 DEF Calls, Onward
<1>3. scall' = [scall EXCEPT ![c] = r]
  BY <1>1 DEF Goto
<1> HIDE DEF r
<1> QED
  BY <1>2, <1>3

\* A request that answers.
LEMMA AnswerForm ==
    ASSUME SessionInv, NEW c \in SessionCalls, NEW out \in Tokens \cup {"clear", "keep"}
    PROVE  LET r == Answering(c, out) IN
           /\ r \in Calls /\ r.pc = "answer" /\ r.out = out
           /\ r.by = scall[c].by /\ r.refresh = scall[c].refresh
<1>1. scall[c] \in Calls /\ SessionTypeOK
  BY DEF SessionInv, SessionTypeOK
<1>2. scall[c].by \in Browsers \cup {NoToken} /\ scall[c].refresh \in BOOLEAN /\ "answer" \in Steps
  BY <1>1 DEF Calls, Steps
<1> QED
  BY <1>2, IdleCall DEF Answering, Calls

\* All live tokens are revoked by c, and the other requests have been crossed.
LEMMA RevokeForm ==
    ASSUME SessionInv, NEW c \in SessionCalls,
           Revoke(c) \/ \E b \in Browsers : Logout(c, b)
    PROVE  /\ UNCHANGED <<password, cookie, overlap, sfaults>>
           /\ \A t \in Tokens : ~Active(t)' /\ token'[t].root = token[t].root
                                /\ (token'[t].st = "spent" <=> token[t].st = "spent")
                                /\ (Unspent(t)' <=> Unspent(t))
           /\ scall'[c].pc = "answer" /\ scall'[c].out \in {"keep", "clear"}
           /\ \/ Revoke(c) /\ scall'[c].by = scall[c].by /\ scall'[c].refresh = scall[c].refresh
              \/ scall[c].pc = "idle" /\ scall'[c].refresh = FALSE
           /\ \A d \in SessionCalls \ {c} :
                 /\ scall'[d].pc = scall[d].pc /\ scall'[d].by = scall[d].by
                 /\ scall'[d].tok = scall[d].tok /\ scall'[d].out = scall[d].out
                 /\ scall'[d].refresh = scall[d].refresh
                 /\ scall[d].pc \notin {"idle", "answer"} => scall'[d].crossed = TRUE
<1>1. SessionTypeOK /\ token \in [Tokens -> TokenRows] /\ scall \in [SessionCalls -> Calls]
  BY DEF SessionInv, SessionTypeOK
<1>2. RevokeAllUserTokens /\ UNCHANGED <<password, cookie, overlap, sfaults>>
  BY DEF Revoke, Logout
<1>3. ASSUME NEW t \in Tokens
      PROVE  /\ ~Active(t)' /\ token'[t].root = token[t].root
             /\ (token'[t].st = "spent" <=> token[t].st = "spent")
             /\ (Unspent(t)' <=> Unspent(t))
  BY <1>1, <1>2, RetiredRow DEF RevokeAllUserTokens, Active, Unspent
<1>4. ASSUME NEW r, Crossing(c, r), NEW d \in SessionCalls \ {c}
      PROVE  /\ scall'[d].pc = scall[d].pc /\ scall'[d].by = scall[d].by
             /\ scall'[d].tok = scall[d].tok /\ scall'[d].out = scall[d].out
             /\ scall'[d].refresh = scall[d].refresh
             /\ scall[d].pc \notin {"idle", "answer"} => scall'[d].crossed = TRUE
  <2> DEFINE x == scall[d].crossed \/ scall[d].pc \notin {"idle", "answer"}
             e == [scall[d] EXCEPT !.crossed = x]
  <2>1. /\ e.pc = scall[d].pc /\ e.out = scall[d].out /\ e.tok = scall[d].tok /\ e.by = scall[d].by
        /\ e.refresh = scall[d].refresh /\ e.crossed = x
    BY <1>1 DEF Calls
  <2>2. scall'[d] = e
    BY <1>4 DEF Crossing
  <2> QED
    BY <2>1, <2>2
<1>5. CASE Revoke(c)
  <2> DEFINE out == IF scall[c].refresh THEN "clear" ELSE "keep"
  <2>1. Crossing(c, Answering(c, out)) /\ out \in {"keep", "clear"}
    BY <1>5 DEF Revoke
  <2> HIDE DEF out
  <2>2. scall'[c] = Answering(c, out)
    BY <2>1 DEF Crossing
  <2>3. /\ scall'[c].pc = "answer" /\ scall'[c].out \in {"keep", "clear"}
        /\ scall'[c].by = scall[c].by /\ scall'[c].refresh = scall[c].refresh
    BY <2>1, <2>2, AnswerForm
  <2> QED
    BY <1>2, <1>3, <1>4, <1>5, <2>1, <2>3
<1>6. ASSUME NEW b \in Browsers, Logout(c, b)
      PROVE  /\ scall'[c].pc = "answer" /\ scall'[c].out = "clear" /\ scall'[c].refresh = FALSE
             /\ scall[c].pc = "idle" /\ \E r : Crossing(c, r)
  <2> DEFINE r == [NoCall EXCEPT !.pc = "answer", !.out = "clear", !.by = b]
  <2>1. Crossing(c, r) /\ scall[c].pc = "idle"
    BY <1>6 DEF Logout
  <2>2. scall'[c] = r
    BY <2>1 DEF Crossing
  <2>3. r.pc = "answer" /\ r.out = "clear" /\ r.refresh = FALSE
    BY DEF NoCall
  <2> HIDE DEF r
  <2> QED
    BY <2>1, <2>2, <2>3
<1> QED
  BY <1>2, <1>3, <1>4, <1>5, <1>6

\* A request that stores the next row of its login and answers with it.
LEMMA StoreForm ==
    ASSUME SessionInv, NEW c \in SessionCalls, LoginStore(c) \/ RefreshIssue(c)
    PROVE  LET n == Fresh IN
           /\ UNCHANGED <<password, cookie, overlap, sfaults>>
           /\ n \in Tokens /\ ~Born(n) /\ scall[c].pc \in {"login_store", "issue"}
           /\ \A t \in Tokens \ {n} : token'[t] = token[t]
           /\ token'[n].st = "live" /\ token'[n].pw = scall[c].pw /\ token'[n].late = scall[c].crossed
           /\ token'[n].root = IF scall[c].pc = "issue" THEN token[scall[c].tok].root ELSE n
           /\ \E r \in Calls : /\ scall' = [scall EXCEPT ![c] = r] /\ r.pc = "answer" /\ r.out = n
                               /\ r.by = scall[c].by /\ r.refresh = scall[c].refresh
<1> DEFINE n == Fresh
           root == IF scall[c].pc = "issue" THEN token[scall[c].tok].root ELSE n
           row == [st |-> "live", root |-> root, pw |-> scall[c].pw, late |-> scall[c].crossed]
<1>1. n \in Tokens /\ ~Born(n)
  BY FreshRow DEF LoginStore, RefreshIssue
<1>2. token' = [token EXCEPT ![n] = row] /\ scall' = [scall EXCEPT ![c] = Answering(c, n)]
  BY DEF LoginStore, RefreshIssue, StoreRefreshToken, Answers
<1>3. UNCHANGED <<password, cookie, overlap, sfaults>> /\ scall[c].pc \in {"login_store", "issue"}
  BY DEF LoginStore, RefreshIssue
<1>4. row.st = "live" /\ row.root = root /\ row.pw = scall[c].pw /\ row.late = scall[c].crossed
  OBVIOUS
<1> HIDE DEF n, root, row
<1>5. token \in [Tokens -> TokenRows]
  BY DEF SessionInv, SessionTypeOK
<1>6. token'[n] = row /\ \A t \in Tokens \ {n} : token'[t] = token[t]
  BY <1>1, <1>2, <1>5
<1>7. LET r == Answering(c, n) IN
      /\ r \in Calls /\ r.pc = "answer" /\ r.out = n
      /\ r.by = scall[c].by /\ r.refresh = scall[c].refresh
  BY <1>1, AnswerForm
<1>8. \E r \in Calls : /\ scall' = [scall EXCEPT ![c] = r] /\ r.pc = "answer" /\ r.out = n
                       /\ r.by = scall[c].by /\ r.refresh = scall[c].refresh
  BY <1>2, <1>7
<1> QED
  BY <1>1, <1>3, <1>4, <1>6, <1>8 DEF n, root

\* The exchange of an unspent token.
LEMMA MarkForm ==
    ASSUME SessionInv, NEW c \in SessionCalls, RefreshMark(c), token[scall[c].tok].st # "spent"
    PROVE  LET t == scall[c].tok IN
           /\ UNCHANGED <<password, cookie, overlap, sfaults>>
           /\ t \in Tokens /\ scall[c].pc = "mark" /\ Unspent(t)
           /\ \A u \in Tokens \ {t} : token'[u] = token[u]
           /\ token'[t].st = "spent" /\ token'[t].root = token[t].root
           /\ \E r \in Calls : scall' = [scall EXCEPT ![c] = r] /\ r.pc = "issue" /\ Onward(r, scall[c])
<1> DEFINE t == scall[c].tok
<1>1. /\ SessionTypeOK /\ token \in [Tokens -> TokenRows] /\ t \in Tokens /\ Born(t) /\ scall[c].pc = "mark"
  BY DEF SessionInv, SessionTypeOK, Presented, RefreshMark
<1>2. Unspent(t)
  BY <1>1 DEF Unspent, Born, TokenRows
<1>3. /\ token' = [token EXCEPT ![t] = Retired(t, "spent")] /\ Goto(c, "issue")
      /\ UNCHANGED <<password, cookie, overlap, sfaults>>
  BY DEF RefreshMark, MarkRefreshTokenUsed
<1>4. \E r \in Calls : scall' = [scall EXCEPT ![c] = r] /\ r.pc = "issue" /\ Onward(r, scall[c])
  BY <1>3, NextCall DEF Steps
<1>5. Retired(t, "spent").st = "spent" /\ Retired(t, "spent").root = token[t].root
  BY <1>1, RetiredRow
<1> HIDE DEF t
<1>6. token'[t] = Retired(t, "spent") /\ \A u \in Tokens \ {t} : token'[u] = token[u]
  BY <1>1, <1>3
<1> QED
  BY <1>1, <1>2, <1>3, <1>4, <1>5, <1>6 DEF t

\* The statements of a request that neither exchange nor store a token.
LEMMA GoForm ==
    ASSUME SessionInv, NEW c \in SessionCalls,
           \/ ChangeUpdate(c) \/ ResetUpdate(c) \/ MarkResetTokenUsed(c)
           \/ (RefreshMark(c) /\ token[scall[c].tok].st = "spent")
    PROVE  /\ UNCHANGED <<token, cookie, overlap, sfaults>>
           /\ scall[c].pc \in {"change_update", "reset_update", "reset_mark", "mark"}
           /\ scall[c].pc \in {"reset_mark", "mark"} => UNCHANGED password
           /\ scall[c].pc = "mark" => RefreshMark(c) /\ token[scall[c].tok].st = "spent"
           /\ \E r \in Calls : /\ scall' = [scall EXCEPT ![c] = r] /\ Onward(r, scall[c])
                               /\ r.pc \in {"revoke", "reset_mark"}
<1>1. /\ UNCHANGED <<token, cookie, overlap, sfaults>>
      /\ scall[c].pc \in {"change_update", "reset_update", "reset_mark", "mark"}
      /\ scall[c].pc \in {"reset_mark", "mark"} => UNCHANGED password
      /\ scall[c].pc = "mark" => RefreshMark(c) /\ token[scall[c].tok].st = "spent"
  BY DEF ChangeUpdate, ResetUpdate, MarkResetTokenUsed, RefreshMark, MarkRefreshTokenUsed
<1>2. Goto(c, "revoke") \/ Goto(c, "reset_mark")
  BY DEF ChangeUpdate, ResetUpdate, MarkResetTokenUsed, RefreshMark, MarkRefreshTokenUsed
<1> QED
  BY <1>1, <1>2, NextCall DEF Steps

\* The browser takes the answer.
LEMMA AnswerStep ==
    ASSUME SessionInv, NEW c \in SessionCalls, Answer(c)
    PROVE  /\ UNCHANGED <<token, password, overlap, sfaults>> /\ scall[c].pc = "answer"
           /\ scall' = [scall EXCEPT ![c] = NoCall]
           /\ cookie' = IF scall[c].out \in Tokens THEN [cookie EXCEPT ![scall[c].by] = scall[c].out]
                        ELSE IF scall[c].out = "clear" THEN [cookie EXCEPT ![scall[c].by] = NoToken]
                        ELSE cookie
BY DEF Answer

\* A row expires, or a reset link is mailed or expires.
LEMMA TimeForm ==
    ASSUME SessionInv,
           \/ \E t \in Tokens : Expire(t)
           \/ \E r \in ResetTokens : ForgotPassword(r) \/ ResetExpires(r)
    PROVE  /\ UNCHANGED <<password, cookie, scall, overlap, sfaults>>
           /\ \A t \in Tokens : /\ token'[t].root = token[t].root
                                /\ (token'[t].st = "spent" <=> token[t].st = "spent")
                                /\ (Unspent(t)' <=> Unspent(t)) /\ (Born(t)' <=> Born(t))
                                /\ Active(t)' => token'[t] = token[t]
<1>1. SessionTypeOK /\ token \in [Tokens -> TokenRows]
  BY DEF SessionInv, SessionTypeOK
<1>2. ASSUME NEW t \in Tokens, Expire(t)
      PROVE  /\ UNCHANGED <<password, cookie, scall, overlap, sfaults>>
             /\ \A u \in Tokens : /\ token'[u].root = token[u].root
                                  /\ (token'[u].st = "spent" <=> token[u].st = "spent")
                                  /\ (Unspent(u)' <=> Unspent(u)) /\ (Born(u)' <=> Born(u))
                                  /\ Active(u)' => token'[u] = token[u]
  BY <1>1, <1>2, RetiredRow DEF Expire, Active, Unspent, Born
<1>3. ASSUME NEW r \in ResetTokens, ForgotPassword(r) \/ ResetExpires(r)
      PROVE  UNCHANGED <<token, password, cookie, scall, overlap, sfaults>>
  BY <1>3 DEF ForgotPassword, ResetExpires
<1>4. UNCHANGED token => \A u \in Tokens : (Unspent(u)' <=> Unspent(u)) /\ (Born(u)' <=> Born(u))
  BY DEF Unspent, Born
<1> QED
  BY <1>2, <1>3, <1>4

\* A failed statement or a lost answer counts as a fault.
LEMMA FaultForm ==
    ASSUME SessionInv, NEW c \in SessionCalls, StatementFails(c) \/ AnswerLost(c)
    PROVE  sfaults' # 0
BY SessionsAssumption DEF SessionInv, SessionTypeOK, StatementFails, AnswerLost, SessionFault

\* Every step takes one of these forms.
LEMMA EveryStep ==
    ASSUME SessionNext, sfaults' = 0, SessionInv
    PROVE  \/ \E c \in SessionCalls, b \in Browsers :
                 Login(c, b) \/ ChangePassword(c, b) \/ \E r \in ResetTokens : ResetPassword(c, b, r)
           \/ \E c \in SessionCalls, b \in Browsers : RefreshRead(c, b)
           \/ \E c \in SessionCalls : LoginStore(c) \/ RefreshIssue(c)
           \/ \E c \in SessionCalls : RefreshMark(c) /\ token[scall[c].tok].st # "spent"
           \/ \E c \in SessionCalls : \/ ChangeUpdate(c) \/ ResetUpdate(c) \/ MarkResetTokenUsed(c)
                                      \/ (RefreshMark(c) /\ token[scall[c].tok].st = "spent")
           \/ \E c \in SessionCalls : Revoke(c) \/ \E b \in Browsers : Logout(c, b)
           \/ \E c \in SessionCalls : Answer(c)
           \/ \/ \E t \in Tokens : Expire(t)
              \/ \E r \in ResetTokens : ForgotPassword(r) \/ ResetExpires(r)
BY FaultForm DEF SessionNext

-----------------------------------------------------------------------------
(* Sessions do not vanish                                                  *)

\* Without a fault, a login that was stored goes on: it has an unexchanged token, or
\* a request that has exchanged one and is about to store the next.
Continued ==
    sfaults = 0 =>
        \A r \in Tokens : (Born(r) /\ token[r].root = r) =>
            \/ \E t \in Tokens : token[t].root = r /\ Unspent(t)
            \/ \E c \in SessionCalls : Issuing(c, r)

\* Steps that exchange and store nothing.
LEMMA StillContinued ==
    ASSUME SessionInv, Continued, UNCHANGED sfaults,
           \A t \in Tokens : /\ token'[t].root = token[t].root
                             /\ (Born(t)' => Born(t)) /\ (Unspent(t) => Unspent(t)'),
           \A c \in SessionCalls :
               scall[c].pc = "issue" => scall'[c].pc = "issue" /\ scall'[c].tok = scall[c].tok
    PROVE  Continued'
<1>1. \A c \in SessionCalls, r \in Tokens : Issuing(c, r) => Issuing(c, r)'
  BY DEF Issuing, SessionInv, Presented
<1>2. \A t \in Tokens : /\ token'[t].root = token[t].root
                        /\ (Born(t)' => Born(t)) /\ (Unspent(t) => Unspent(t)')
  OBVIOUS
<1> SUFFICES ASSUME sfaults' = 0, NEW r \in Tokens, Born(r)', token'[r].root = r
             PROVE  \/ \E t \in Tokens : token'[t].root = r /\ Unspent(t)'
                    \/ \E c \in SessionCalls : Issuing(c, r)'
  BY DEF Continued
<1> QED
  BY <1>1, <1>2 DEF Continued

LEMMA ContinuedStands ==
    ASSUME SessionInv, Continued, [SessionNext]_sessionVars
    PROVE  Continued'
<1>0. sfaults' # 0 => Continued'
  BY DEF Continued
<1> SUFFICES ASSUME sfaults' = 0 PROVE Continued'
  BY <1>0
<1>1. scall \in [SessionCalls -> Calls] /\ token \in [Tokens -> TokenRows]
  BY DEF SessionInv, SessionTypeOK
<1>2. CASE UNCHANGED sessionVars
  BY <1>2, StillContinued DEF sessionVars, Born, Unspent
<1> USE DEF Onward
<1>3. ASSUME NEW c \in SessionCalls, UNCHANGED <<token, sfaults>>, scall[c].pc # "issue",
             \A d \in SessionCalls \ {c} : scall'[d] = scall[d]
      PROVE  Continued'
  BY <1>3, StillContinued DEF Born, Unspent
<1>4. ASSUME NEW c \in SessionCalls, NEW b \in Browsers,
             \/ RefreshRead(c, b) \/ Login(c, b) \/ ChangePassword(c, b)
             \/ \E r \in ResetTokens : ResetPassword(c, b, r)
      PROVE  Continued'
  <2>1. scall[c].pc = "idle" /\ UNCHANGED <<token, sfaults>> /\ \E r : scall' = [scall EXCEPT ![c] = r]
    BY <1>4 DEF RefreshRead, Login, ChangePassword, ResetPassword, Begin
  <2> QED
    BY <1>1, <1>3, <2>1
<1>5. ASSUME NEW c \in SessionCalls,
             \/ ChangeUpdate(c) \/ ResetUpdate(c) \/ MarkResetTokenUsed(c)
             \/ (RefreshMark(c) /\ token[scall[c].tok].st = "spent")
      PROVE  Continued'
  BY <1>1, <1>3, <1>5, GoForm
<1>6. ASSUME NEW c \in SessionCalls, Answer(c) PROVE Continued'
  BY <1>1, <1>3, <1>6, AnswerStep
<1>7. ASSUME NEW c \in SessionCalls, Revoke(c) \/ \E b \in Browsers : Logout(c, b) PROVE Continued'
  <2>1. scall[c].pc # "issue"
    BY <1>7 DEF Revoke, Logout
  <2>2. \A t \in Tokens : Unspent(t) => Born(t)
    BY DEF Unspent, Born
  <2>3. \A t \in Tokens : Born(t)' => Born(t)
    BY <1>1, <1>7, RetiredRow DEF Revoke, Logout, RevokeAllUserTokens, Born, SessionInv, Active
  <2> QED
    BY ZenonT(60), <1>7, <2>1, <2>3, RevokeForm, StillContinued
<1>8. ASSUME \/ \E t \in Tokens : Expire(t)
             \/ \E r \in ResetTokens : ForgotPassword(r) \/ ResetExpires(r)
      PROVE  Continued'
  BY <1>8, TimeForm, StillContinued
<1>9. ASSUME NEW c \in SessionCalls, LoginStore(c) \/ RefreshIssue(c) PROVE Continued'
  <2> DEFINE n == Fresh
  <2>1. /\ sfaults = 0 /\ n \in Tokens /\ ~Born(n) /\ token'[n].st = "live"
        /\ \A t \in Tokens \ {n} : token'[t] = token[t]
        /\ token'[n].root = IF scall[c].pc = "issue" THEN token[scall[c].tok].root ELSE n
    BY <1>9, StoreForm
  <2>2. \A d \in SessionCalls \ {c} : scall'[d] = scall[d]
    BY <1>1, <1>9, StoreForm
  <2> HIDE DEF n
  <2>3. ASSUME NEW r \in Tokens, Born(r)', token'[r].root = r
        PROVE  \/ \E t \in Tokens : token'[t].root = r /\ Unspent(t)'
               \/ \E d \in SessionCalls : Issuing(d, r)'
    <3>1. CASE token'[n].root = r
      BY <2>1, <3>1 DEF Unspent
    <3>2. CASE token'[n].root # r
      <4>1. Born(r) /\ token[r].root = r /\ r # n
        BY <2>1, <2>3, <3>2 DEF Born
      <4>2. CASE \E t \in Tokens : token[t].root = r /\ Unspent(t)
        BY <2>1, <4>2 DEF Unspent, Born
      <4>3. ASSUME NEW d \in SessionCalls, Issuing(d, r) PROVE Issuing(d, r)'
        <5>1. d # c
          BY <2>1, <3>2, <4>3 DEF Issuing
        <5>2. scall[d].tok \in Tokens /\ scall[d].tok # n
          BY <2>1, <4>3 DEF Issuing, SessionInv, Presented, Born
        <5> QED
          BY <2>1, <2>2, <4>3, <5>1, <5>2 DEF Issuing
      <4> QED
        BY <2>1, <4>1, <4>2, <4>3 DEF Continued
    <3> QED
      BY <3>1, <3>2
  <2> QED
    BY <2>3 DEF Continued
<1>10. ASSUME NEW c \in SessionCalls, RefreshMark(c), token[scall[c].tok].st # "spent" PROVE Continued'
  <2> DEFINE t == scall[c].tok
  <2>1. /\ sfaults = 0 /\ t \in Tokens /\ scall[c].pc = "mark" /\ Unspent(t)
        /\ \A u \in Tokens \ {t} : token'[u] = token[u]
        /\ token'[t].root = token[t].root
    BY <1>10, MarkForm
  <2>2. scall'[c].pc = "issue" /\ scall'[c].tok = t /\ \A d \in SessionCalls \ {c} : scall'[d] = scall[d]
    BY <1>1, <1>10, MarkForm
  <2> HIDE DEF t
  <2>3. ASSUME NEW r \in Tokens, Born(r)', token'[r].root = r
        PROVE  \/ \E u \in Tokens : token'[u].root = r /\ Unspent(u)'
               \/ \E d \in SessionCalls : Issuing(d, r)'
    <3>1. CASE token[t].root = r
      BY <2>1, <2>2, <3>1 DEF Issuing
    <3>2. CASE token[t].root # r
      <4>1. Born(r) /\ token[r].root = r
        BY <2>1, <2>3, <3>2 DEF Born
      <4>2. \A u \in Tokens : token[u].root = r /\ Unspent(u) => token'[u].root = r /\ Unspent(u)'
        BY <2>1, <3>2 DEF Unspent
      <4>3. \A d \in SessionCalls : Issuing(d, r) => Issuing(d, r)'
        BY <2>1, <2>2 DEF Issuing, SessionInv, Presented
      <4> QED
        BY <2>1, <4>1, <4>2, <4>3 DEF Continued
    <3> QED
      BY <3>1, <3>2
  <2> QED
    BY <2>3 DEF Continued
<1> QED
  BY <1>2, <1>4, <1>5, <1>6, <1>7, <1>8, <1>9, <1>10, EveryStep

\* A session ends for a reason: when every token of a login has been exchanged, the
\* next is about to be stored, or a statement failed after the exchange.
\* (MarkRefreshTokenUsed before CreateRefreshToken in RefreshTokens.)
THEOREM SessionsGoOn == SessionSpec => []SessionsEndForAReason
<1>1. SessionInit => Continued
  BY DEF SessionInit, Continued, Born, Unborn
<1>2. SessionInv /\ Continued => SessionsEndForAReason
  <2> SUFFICES ASSUME SessionInv, Continued, NEW r \in Tokens, r = token[r].root, sfaults = 0,
                      \A t \in Tokens : token[t].root = r => token[t].st = "spent"
               PROVE  \E c \in SessionCalls : scall[c].pc = "issue" /\ token[scall[c].tok].root = r
    BY SessionsAssumption DEF SessionsEndForAReason, SessionInv, SessionTypeOK
  <2>1. Born(r) /\ \A t \in Tokens : token[t].root = r => ~Unspent(t)
    BY DEF Born, Unspent
  <2> QED
    BY <2>1 DEF Continued, Issuing
<1> QED
  BY <1>1, <1>2, ContinuedStands, SessionAtStart, SessionStands, PTL DEF SessionSpec

-----------------------------------------------------------------------------
(* A password change ends the sessions that went before                    *)

\* No statement has failed and no revocation is outstanding.
Settled == sfaults = 0 /\ \A c \in SessionCalls : scall[c].pc \notin {"reset_mark", "revoke"}

\* Once settled, the live tokens and the requests about to store one go back to the
\* current password, or were under way at a revocation.
Current == Settled =>
    /\ \A t \in Tokens : Active(t) => token[t].pw = password \/ token[t].late = TRUE
    /\ \A c \in SessionCalls : scall[c].pc \in {"login_store", "mark", "issue"}
           => scall[c].pw = password \/ scall[c].crossed = TRUE

\* Requests other than c stay, c is settled before and after.
LEMMA StillCurrent ==
    ASSUME SessionInv, Current, UNCHANGED <<password, sfaults>>, NEW c \in SessionCalls, NEW r \in Calls,
           scall' = [scall EXCEPT ![c] = r], scall[c].pc \notin {"reset_mark", "revoke"},
           \A t \in Tokens : Active(t)' => token'[t] = token[t]
                                           \/ (token'[t].pw = scall[c].pw /\ token'[t].late = scall[c].crossed
                                               /\ scall[c].pc \in {"login_store", "issue"}),
           Settled /\ Settled' /\ r.pc \in {"login_store", "mark", "issue"} => r.pw = password \/ r.crossed = TRUE
    PROVE  Current'
<1>1. scall' \in [SessionCalls -> Calls] /\ \A d \in SessionCalls : scall'[d] = IF d = c THEN r ELSE scall[d]
  BY DEF SessionInv, SessionTypeOK
<1> SUFFICES ASSUME Settled'
             PROVE  /\ \A t \in Tokens : Active(t)' => token'[t].pw = password \/ token'[t].late = TRUE
                    /\ \A d \in SessionCalls : scall'[d].pc \in {"login_store", "mark", "issue"}
                           => scall'[d].pw = password \/ scall'[d].crossed = TRUE
  BY DEF Current
<1>2. Settled
  BY <1>1 DEF Settled
<1>3. ASSUME NEW t \in Tokens, Active(t)' PROVE token'[t].pw = password \/ token'[t].late = TRUE
  BY <1>2, <1>3 DEF Current, Active
<1>4. ASSUME NEW d \in SessionCalls, scall'[d].pc \in {"login_store", "mark", "issue"}
      PROVE  scall'[d].pw = password \/ scall'[d].crossed = TRUE
  BY <1>1, <1>2, <1>4 DEF Current
<1> QED
  BY <1>3, <1>4

LEMMA CurrentStands ==
    ASSUME SessionInv, Current, [SessionNext]_sessionVars
    PROVE  Current'
<1>0. ~Settled' => Current'
  BY DEF Current
<1> SUFFICES ASSUME Settled' PROVE Current'
  BY <1>0
<1>1. sfaults' = 0 /\ scall \in [SessionCalls -> Calls] /\ token \in [Tokens -> TokenRows]
  BY DEF Settled, SessionInv, SessionTypeOK
<1>2. CASE UNCHANGED sessionVars
  BY <1>2 DEF sessionVars, Current, Settled, Active
<1>3. ASSUME NEW c \in SessionCalls, NEW b \in Browsers,
             Login(c, b) \/ ChangePassword(c, b) \/ \E r \in ResetTokens : ResetPassword(c, b, r)
      PROVE  Current'
  <2>1. scall[c].pc = "idle"
    BY <1>3 DEF Login, ChangePassword, ResetPassword, Begin
  <2>2. PICK r \in Calls : /\ UNCHANGED <<token, password, sfaults>> /\ scall' = [scall EXCEPT ![c] = r]
                           /\ r.pc \in {"login_store", "change_update", "reset_update"}
                           /\ r.pc = "login_store" => r.pw = password
    BY <1>3, NewCall
  <2> QED
    BY <2>1, <2>2, StillCurrent
<1>4. ASSUME NEW c \in SessionCalls, NEW b \in Browsers, RefreshRead(c, b) PROVE Current'
  <2> DEFINE t == cookie[b]
  <2>1. t \in Tokens /\ scall[c].pc = "idle" /\ UNCHANGED <<token, password, sfaults>>
    BY <1>4, ReadCall
  <2>2. PICK r \in Calls : scall' = [scall EXCEPT ![c] = r] /\ HasRead(r, b, t)
    BY <1>4, ReadCall
  <2> HIDE DEF t
  <2>3. Settled /\ r.pc \in {"login_store", "mark", "issue"} => r.pw = password \/ r.crossed = TRUE
    BY <2>1, <2>2 DEF Current, Active, HasRead
  <2> QED
    BY <2>1, <2>2, <2>3, StillCurrent
<1>5. ASSUME NEW c \in SessionCalls, LoginStore(c) \/ RefreshIssue(c) PROVE Current'
  <2> DEFINE n == Fresh
  <2>1. /\ UNCHANGED <<password, sfaults>> /\ n \in Tokens /\ scall[c].pc \in {"login_store", "issue"}
        /\ \A t \in Tokens \ {n} : token'[t] = token[t]
        /\ token'[n].pw = scall[c].pw /\ token'[n].late = scall[c].crossed
    BY <1>5, StoreForm
  <2>2. PICK r \in Calls : scall' = [scall EXCEPT ![c] = r] /\ r.pc = "answer"
    BY <1>5, StoreForm
  <2> HIDE DEF n
  <2> QED
    BY <2>1, <2>2, StillCurrent
<1>6. ASSUME NEW c \in SessionCalls, RefreshMark(c), token[scall[c].tok].st # "spent" PROVE Current'
  <2> DEFINE t == scall[c].tok
  <2>1. /\ UNCHANGED <<password, sfaults>> /\ t \in Tokens /\ scall[c].pc = "mark"
        /\ \A u \in Tokens \ {t} : token'[u] = token[u]
        /\ token'[t].st = "spent"
    BY <1>6, MarkForm
  <2>2. PICK r \in Calls : scall' = [scall EXCEPT ![c] = r] /\ r.pc = "issue" /\ Onward(r, scall[c])
    BY <1>6, MarkForm
  <2> HIDE DEF t
  <2>3. Settled => r.pw = password \/ r.crossed = TRUE
    BY <2>1, <2>2 DEF Current, Onward
  <2>4. \A u \in Tokens : Active(u)' => token'[u] = token[u]
    BY <2>1 DEF Active
  <2> QED
    BY <2>1, <2>2, <2>3, <2>4, StillCurrent
<1>7. ASSUME NEW c \in SessionCalls,
             \/ ChangeUpdate(c) \/ ResetUpdate(c) \/ MarkResetTokenUsed(c)
             \/ (RefreshMark(c) /\ token[scall[c].tok].st = "spent")
      PROVE  Current'
  <2>1. scall'[c].pc \in {"revoke", "reset_mark"}
    BY <1>1, <1>7, GoForm
  <2> QED
    BY <2>1 DEF Settled
<1>8. ASSUME NEW c \in SessionCalls, Revoke(c) \/ \E b \in Browsers : Logout(c, b) PROVE Current'
  <2>1. \A t \in Tokens : ~Active(t)'
    BY <1>8, RevokeForm
  <2>2. ASSUME NEW d \in SessionCalls, scall'[d].pc \in {"login_store", "mark", "issue"}
        PROVE  scall'[d].crossed = TRUE
    BY <1>8, <2>2, RevokeForm
  <2> QED
    BY <2>1, <2>2 DEF Current
<1>9. ASSUME NEW c \in SessionCalls, Answer(c) PROVE Current'
  <2>1. /\ UNCHANGED <<token, password, sfaults>> /\ scall[c].pc = "answer"
        /\ scall' = [scall EXCEPT ![c] = NoCall]
    BY <1>9, AnswerStep
  <2> QED
    BY <2>1, IdleCall, StillCurrent
<1>10. ASSUME \/ \E t \in Tokens : Expire(t)
              \/ \E r \in ResetTokens : ForgotPassword(r) \/ ResetExpires(r)
       PROVE  Current'
  <2>1. UNCHANGED <<password, scall, sfaults>> /\ \A t \in Tokens : Active(t)' => token'[t] = token[t]
    BY <1>10, TimeForm
  <2> QED
    BY <2>1 DEF Current, Settled, Active
<1> QED
  BY <1>1, <1>2, <1>3, <1>4, <1>5, <1>6, <1>7, <1>8, <1>9, <1>10, EveryStep

\* A password change ends the sessions opened with an earlier one, but for those whose
\* login or refresh was under way when the tokens were revoked.
\* (ChangePassword, ResetPassword, RevokeAllUserTokens.)
THEOREM PasswordChangeEnds == SessionSpec => []PasswordChangeEndsOldSessions
<1>1. SessionInit => Current
  <2> SUFFICES ASSUME SessionInit PROVE Current
    OBVIOUS
  <2>1. /\ \A t \in Tokens : token[t] = Unborn
        /\ \A c \in SessionCalls : scall[c] = NoCall
    BY DEF SessionInit
  <2> QED
    BY <2>1, IdleCall DEF Current, Active, Unborn
<1>2. Current => PasswordChangeEndsOldSessions
  BY DEF Current, Settled, PasswordChangeEndsOldSessions
<1> QED
  BY <1>1, <1>2, CurrentStands, SessionAtStart, SessionStands, PTL DEF SessionSpec

-----------------------------------------------------------------------------
(* Who follows the rules keeps his sessions                                *)

\* The answer of c carries t, or c is about to exchange it.
Carries(c, t) == scall[c].out = t \/ (scall[c].pc = "mark" /\ scall[c].tok = t)

\* No refresh of c revokes, and its answer settles the cookie.
Mannered(c) ==
    /\ scall[c].pc \in {"mark", "issue"} => scall[c].refresh = TRUE
    /\ scall[c].out \in Tokens => scall[c].pc = "answer"
    /\ scall[c].refresh = TRUE => \/ scall[c].pc \in {"mark", "issue"}
                                  \/ scall[c].pc = "answer" /\ scall[c].out # "keep"

\* c refreshes for browser b.
RefreshesFor(c, b) == scall[c].refresh = TRUE /\ scall[c].by = b

\* While no browser has refreshed twice at once and nothing has failed: a browser has
\* one refresh in flight, a token is in one place only (a cookie, an answer, or the
\* request that took it from that cookie), and it has not been exchanged, but for the
\* cookie of a browser whose refresh is in flight.
OneRefresh == \A c, d \in SessionCalls, b \in Browsers \cup {NoToken} :
                  RefreshesFor(c, b) /\ RefreshesFor(d, b) => c = d
CarriedOnce ==
    \A t \in Tokens : \A c \in SessionCalls :
        Carries(c, t) => /\ token[t].st # "spent"
                         /\ \A d \in SessionCalls : Carries(d, t) => c = d
CookiesApart ==
    \A b \in Browsers : cookie[b] \in Tokens =>
        /\ \A a \in Browsers : cookie[a] = cookie[b] => a = b
        /\ \A c \in SessionCalls : Carries(c, cookie[b]) => scall[c].pc = "mark" /\ scall[c].by = b
        /\ token[cookie[b]].st = "spent" => \E c \in SessionCalls : RefreshesFor(c, b)
InOrder == (\A c \in SessionCalls : Mannered(c)) /\ OneRefresh /\ CarriedOnce /\ CookiesApart
Orderly == overlap = FALSE /\ sfaults = 0 => InOrder

\* One request goes on, no token is exchanged, no cookie changes.
LEMMA StillInOrder ==
    ASSUME SessionInv, InOrder, UNCHANGED cookie, NEW c \in SessionCalls,
           \A d \in SessionCalls \ {c} :
               /\ scall'[d].pc = scall[d].pc /\ scall'[d].by = scall[d].by
               /\ scall'[d].tok = scall[d].tok /\ scall'[d].out = scall[d].out
               /\ scall'[d].refresh = scall[d].refresh,
           \A t \in Tokens : token'[t].st = "spent" => token[t].st = "spent",
           scall[c].refresh = TRUE => scall'[c].refresh = TRUE /\ scall'[c].by = scall[c].by,
           scall'[c].refresh = TRUE =>
               \/ scall[c].refresh = TRUE
               \/ \A d \in SessionCalls : ~RefreshesFor(d, scall'[c].by),
           Mannered(c)',
           \A t \in Tokens : Carries(c, t)' =>
               /\ token[t].st # "spent"
               /\ \A d \in SessionCalls \ {c} : ~Carries(d, t)
               /\ \A b \in Browsers : cookie[b] = t => scall'[c].pc = "mark" /\ scall'[c].by = b
    PROVE  InOrder'
<1>1. \A d \in SessionCalls \ {c} :
          /\ scall'[d].pc = scall[d].pc /\ scall'[d].by = scall[d].by
          /\ scall'[d].tok = scall[d].tok /\ scall'[d].out = scall[d].out
          /\ scall'[d].refresh = scall[d].refresh
  OBVIOUS
<1>2. \A t : \A d \in SessionCalls \ {c} : Carries(d, t)' <=> Carries(d, t)
  BY <1>1 DEF Carries
<1>3. \A b : \A d \in SessionCalls \ {c} : RefreshesFor(d, b)' <=> RefreshesFor(d, b)
  BY <1>1 DEF RefreshesFor
<1>4. \A d \in SessionCalls : Mannered(d)'
  BY <1>1 DEF InOrder, Mannered
<1>5. OneRefresh'
  <2>1. ASSUME NEW b, NEW d \in SessionCalls \ {c}, RefreshesFor(c, b)', RefreshesFor(d, b) PROVE RefreshesFor(c, b)
    BY <2>1 DEF RefreshesFor
  <2> QED
    BY <1>3, <2>1 DEF InOrder, OneRefresh
<1>6. CarriedOnce'
  BY <1>2 DEF InOrder, CarriedOnce
<1>7. CookiesApart'
  <2> SUFFICES ASSUME NEW b \in Browsers, cookie[b] \in Tokens
               PROVE  /\ \A a \in Browsers : cookie[a] = cookie[b] => a = b
                      /\ \A d \in SessionCalls : Carries(d, cookie[b])' => scall'[d].pc = "mark" /\ scall'[d].by = b
                      /\ token'[cookie[b]].st = "spent" => \E d \in SessionCalls : RefreshesFor(d, b)'
    BY DEF CookiesApart, Carries
  <2>1. \A a \in Browsers : cookie[a] = cookie[b] => a = b
    BY DEF InOrder, CookiesApart
  <2>2. ASSUME NEW d \in SessionCalls, Carries(d, cookie[b])' PROVE scall'[d].pc = "mark" /\ scall'[d].by = b
    <3>1. CASE d = c
      BY <2>2, <3>1 DEF Carries
    <3>2. CASE d # c
      <4>1. Carries(d, cookie[b])
        BY <1>1, <2>2, <3>2 DEF Carries
      <4> QED
        BY <1>1, <3>2, <4>1 DEF InOrder, CookiesApart
    <3> QED
      BY <3>1, <3>2
  <2>3. ASSUME token'[cookie[b]].st = "spent" PROVE \E d \in SessionCalls : RefreshesFor(d, b)'
    <3>1. PICK d \in SessionCalls : RefreshesFor(d, b)
      BY <2>3 DEF InOrder, CookiesApart
    <3>2. RefreshesFor(d, b)'
      BY <1>3, <3>1 DEF RefreshesFor
    <3> QED
      BY <3>2
  <2> QED
    BY <2>1, <2>2, <2>3
<1> QED
  BY <1>4, <1>5, <1>6, <1>7 DEF InOrder

LEMMA OneCallInOrder ==
    ASSUME SessionInv, InOrder, UNCHANGED cookie, NEW c \in SessionCalls, NEW r \in Calls,
           scall' = [scall EXCEPT ![c] = r],
           \A t \in Tokens : token'[t].st = "spent" => token[t].st = "spent",
           scall[c].refresh = TRUE => r.refresh = TRUE /\ r.by = scall[c].by,
           r.refresh = TRUE => \/ scall[c].refresh = TRUE
                               \/ \A d \in SessionCalls : ~RefreshesFor(d, r.by),
           r.pc \in {"mark", "issue"} => r.refresh = TRUE,
           r.out \in Tokens => r.pc = "answer",
           r.refresh = TRUE => r.pc \in {"mark", "issue"} \/ (r.pc = "answer" /\ r.out # "keep"),
           \A t \in Tokens : (r.out = t \/ (r.pc = "mark" /\ r.tok = t)) =>
               /\ token[t].st # "spent"
               /\ \A d \in SessionCalls \ {c} : ~Carries(d, t)
               /\ \A b \in Browsers : cookie[b] = t => r.pc = "mark" /\ r.by = b
    PROVE  InOrder'
<1>1. scall'[c] = r /\ \A d \in SessionCalls \ {c} : scall'[d] = scall[d]
  BY DEF SessionInv, SessionTypeOK
<1>2. Mannered(c)'
  BY <1>1 DEF Mannered
<1>3. \A t \in Tokens : Carries(c, t)' =>
          /\ token[t].st # "spent"
          /\ \A d \in SessionCalls \ {c} : ~Carries(d, t)
          /\ \A b \in Browsers : cookie[b] = t => scall'[c].pc = "mark" /\ scall'[c].by = b
  BY <1>1 DEF Carries
<1> QED
  BY <1>1, <1>2, <1>3, StillInOrder

\* A request without a refresh begins, goes on, or is about to answer nothing.
LEMMA PlainInOrder ==
    ASSUME SessionInv, InOrder, UNCHANGED <<cookie, token>>, NEW c \in SessionCalls, NEW r \in Calls,
           scall' = [scall EXCEPT ![c] = r], scall[c].refresh = FALSE, r.refresh = FALSE,
           r.out \notin Tokens, r.pc \notin {"mark", "issue"}
    PROVE  InOrder'
BY OneCallInOrder

\* A stored token is carried by nobody until its answer is under way.
LEMMA UnbornUnseen ==
    ASSUME SessionInv, NEW t \in Tokens, ~Born(t)
    PROVE  /\ \A d \in SessionCalls : ~Carries(d, t)
           /\ \A b \in Browsers : cookie[b] # t
BY DEF SessionInv, Presented, Carries

\* The browser takes the answer, or what there is of it.
LEMMA AnswerInOrder ==
    ASSUME SessionInv, InOrder, NEW c \in SessionCalls, Answer(c)
    PROVE  InOrder'
<1>1. /\ UNCHANGED token /\ scall[c].pc = "answer" /\ scall' = [scall EXCEPT ![c] = NoCall]
      /\ cookie' = IF scall[c].out \in Tokens THEN [cookie EXCEPT ![scall[c].by] = scall[c].out]
                   ELSE IF scall[c].out = "clear" THEN [cookie EXCEPT ![scall[c].by] = NoToken]
                   ELSE cookie
  BY AnswerStep
<1>2. /\ scall \in [SessionCalls -> Calls] /\ scall[c].out \in Tokens \cup {"clear", "keep"}
      /\ cookie \in [Browsers -> Tokens \cup {NoToken}]
  BY DEF SessionInv, SessionTypeOK, Calls
<1>3. scall'[c] = NoCall /\ \A d \in SessionCalls \ {c} : scall'[d] = scall[d]
  BY <1>1, <1>2
<1>4. NoCall.refresh = FALSE /\ NoCall.pc = "idle" /\ NoCall.out \notin Tokens
  BY IdleCall DEF NoCall
<1>5. \A d \in SessionCalls, t \in Tokens : Carries(d, t)' => d # c /\ Carries(d, t)
  BY <1>3, <1>4 DEF Carries
<1>6. \A b : \A d \in SessionCalls :
          /\ RefreshesFor(d, b)' => d # c /\ RefreshesFor(d, b)
          /\ RefreshesFor(d, b) /\ d # c => RefreshesFor(d, b)'
  BY <1>3, <1>4 DEF RefreshesFor
<1>7. \A d \in SessionCalls : Mannered(d)'
  BY <1>3, <1>4 DEF InOrder, Mannered
<1>8. OneRefresh'
  BY <1>6 DEF InOrder, OneRefresh
<1>9. CarriedOnce'
  BY <1>1, <1>5 DEF InOrder, CarriedOnce
<1> DEFINE o == scall[c].out
<1>10. o \in Tokens => Carries(c, o)
  BY DEF Carries
<1>11. ASSUME NEW b \in Browsers, cookie'[b] \in Tokens
       PROVE  \/ /\ cookie'[b] = cookie[b]
                 /\ ~RefreshesFor(c, b)
              \/ b = scall[c].by /\ cookie'[b] = o
  <2>1. CASE o \in Tokens
    BY <1>1, <1>2, <1>11, <2>1 DEF RefreshesFor
  <2>2. CASE o = "clear"
    BY <1>1, <1>2, <1>11, <2>2, SessionsAssumption DEF RefreshesFor
  <2>3. CASE o = "keep"
    BY <1>1, <1>2, <2>3, SessionsAssumption DEF RefreshesFor, InOrder, Mannered
  <2> QED
    BY <1>2, <2>1, <2>2, <2>3
<1>12. CookiesApart'
  <2> SUFFICES ASSUME NEW b \in Browsers, cookie'[b] \in Tokens
               PROVE  /\ \A a \in Browsers : cookie'[a] = cookie'[b] => a = b
                      /\ \A d \in SessionCalls : Carries(d, cookie[b])' => scall'[d].pc = "mark" /\ scall'[d].by = b
                      /\ token[cookie'[b]].st = "spent" => \E d \in SessionCalls : RefreshesFor(d, b)'
    BY <1>1 DEF CookiesApart
  <2>1. ASSUME NEW a \in Browsers, cookie'[a] = cookie'[b] PROVE a = b
    <3>1. scall[c].pc # "mark"
      BY <1>1
    <3> QED
      BY <1>10, <1>11, <2>1, <3>1 DEF InOrder, CookiesApart
  <2>2. ASSUME NEW d \in SessionCalls, Carries(d, cookie[b])' PROVE scall'[d].pc = "mark" /\ scall'[d].by = b
    <3>1. d # c /\ Carries(d, cookie'[b]) /\ scall'[d] = scall[d]
      BY <1>3, <1>4, <2>2 DEF Carries
    <3> QED
      BY <1>10, <1>11, <3>1 DEF InOrder, CookiesApart, CarriedOnce
  <2>3. ASSUME token[cookie'[b]].st = "spent" PROVE \E d \in SessionCalls : RefreshesFor(d, b)'
    BY <1>6, <1>10, <1>11, <2>3 DEF InOrder, CookiesApart, CarriedOnce
  <2> QED
    BY <2>1, <2>2, <2>3
<1> QED
  BY <1>7, <1>8, <1>9, <1>12 DEF InOrder

\* A token is exchanged by the request that took it from its browser's cookie.
LEMMA MarkInOrder ==
    ASSUME SessionInv, InOrder, NEW c \in SessionCalls, RefreshMark(c), token[scall[c].tok].st # "spent"
    PROVE  InOrder'
<1> DEFINE t == scall[c].tok
<1>1. /\ UNCHANGED cookie /\ t \in Tokens /\ scall[c].pc = "mark"
      /\ \A u \in Tokens \ {t} : token'[u] = token[u]
  BY MarkForm
<1>2. PICK r \in Calls : scall' = [scall EXCEPT ![c] = r] /\ r.pc = "issue" /\ Onward(r, scall[c])
  BY MarkForm
<1> HIDE DEF t
<1>3. scall'[c] = r /\ \A d \in SessionCalls \ {c} : scall'[d] = scall[d]
  BY <1>2 DEF SessionInv, SessionTypeOK
<1>4. Carries(c, t) /\ scall[c].refresh = TRUE /\ scall[c].out \notin Tokens
  BY <1>1 DEF t, Carries, InOrder, Mannered
<1>5. \A d \in SessionCalls, u \in Tokens : Carries(d, u)' => d # c /\ Carries(d, u) /\ u # t
  BY <1>2, <1>3, <1>4 DEF Carries, Onward, InOrder, CarriedOnce
<1>6. \A b : \A d \in SessionCalls : RefreshesFor(d, b)' <=> RefreshesFor(d, b)
  BY <1>2, <1>3 DEF RefreshesFor, Onward
<1>7. \A d \in SessionCalls : Mannered(d)'
  BY <1>2, <1>3, <1>4 DEF InOrder, Mannered, Onward
<1>8. OneRefresh'
  BY <1>6 DEF InOrder, OneRefresh
<1>9. CarriedOnce'
  BY <1>1, <1>5 DEF InOrder, CarriedOnce
<1>10. CookiesApart'
  <2> SUFFICES ASSUME NEW b \in Browsers, cookie[b] \in Tokens
               PROVE  /\ \A a \in Browsers : cookie[a] = cookie[b] => a = b
                      /\ \A d \in SessionCalls : Carries(d, cookie[b])' => scall'[d].pc = "mark" /\ scall'[d].by = b
                      /\ token'[cookie[b]].st = "spent" => \E d \in SessionCalls : RefreshesFor(d, b)'
    BY <1>1 DEF CookiesApart, Carries
  <2>1. \A a \in Browsers : cookie[a] = cookie[b] => a = b
    BY DEF InOrder, CookiesApart
  <2>2. ASSUME NEW d \in SessionCalls, Carries(d, cookie[b])' PROVE scall'[d].pc = "mark" /\ scall'[d].by = b
    <3>1. d # c
      BY <1>1, <1>2, <1>3, <1>4, <2>2 DEF Carries, Onward
    <3>2. scall'[d] = scall[d] /\ Carries(d, cookie[b])
      BY <1>1, <1>3, <2>2, <3>1 DEF Carries
    <3> QED
      BY <3>2 DEF InOrder, CookiesApart
  <2>3. ASSUME token'[cookie[b]].st = "spent" PROVE \E d \in SessionCalls : RefreshesFor(d, b)'
    <3>1. CASE cookie[b] = t
      BY <1>4, <1>6, <3>1 DEF InOrder, CookiesApart, RefreshesFor
    <3>2. CASE cookie[b] # t
      BY <1>1, <1>6, <2>3, <3>2 DEF InOrder, CookiesApart
    <3> QED
      BY <3>1, <3>2
  <2> QED
    BY <2>1, <2>2, <2>3
<1> QED
  BY <1>7, <1>8, <1>9, <1>10 DEF InOrder

LEMMA OrderlyStands ==
    ASSUME SessionInv, Orderly, [SessionNext]_sessionVars
    PROVE  Orderly'
<1> SUFFICES ASSUME overlap' = FALSE, sfaults' = 0 PROVE InOrder'
  BY DEF Orderly
<1>1. overlap \in BOOLEAN /\ scall \in [SessionCalls -> Calls]
  BY DEF SessionInv, SessionTypeOK
<1>2. CASE UNCHANGED sessionVars
  BY <1>2 DEF sessionVars, Orderly, InOrder, Mannered, OneRefresh, CarriedOnce, CookiesApart, Carries, RefreshesFor
<1>3. ASSUME NEW c \in SessionCalls, NEW b \in Browsers,
             Login(c, b) \/ ChangePassword(c, b) \/ \E r \in ResetTokens : ResetPassword(c, b, r)
      PROVE  InOrder'
  <2>1. PICK r \in Calls : /\ UNCHANGED <<token, cookie, overlap, sfaults>> /\ scall' = [scall EXCEPT ![c] = r]
                           /\ r.refresh = FALSE /\ r.out = "keep"
                           /\ r.pc \in {"login_store", "change_update", "reset_update"}
    BY <1>3, NewCall
  <2>2. InOrder
    BY <2>1 DEF Orderly
  <2>3. scall[c].refresh = FALSE
    <3>1. scall[c].pc = "idle" /\ scall[c].refresh \in BOOLEAN
      BY <1>1, <1>3 DEF Login, ChangePassword, ResetPassword, Begin, Calls
    <3> QED
      BY <2>2, <3>1 DEF InOrder, Mannered
  <2> QED
    BY <2>1, <2>2, <2>3, PlainInOrder, SessionsAssumption
<1>4. ASSUME NEW c \in SessionCalls, NEW b \in Browsers, RefreshRead(c, b) PROVE InOrder'
  <2> DEFINE t == cookie[b]
  <2>1. /\ t \in Tokens /\ scall[c].pc = "idle" /\ UNCHANGED <<token, cookie, sfaults>>
        /\ overlap' = (overlap \/ Refreshing(b))
    BY <1>4, ReadCall
  <2>2. PICK r \in Calls : scall' = [scall EXCEPT ![c] = r] /\ HasRead(r, b, t)
    BY <1>4, ReadCall
  <2>3. overlap = FALSE /\ ~Refreshing(b)
    BY <1>1, <2>1
  <2>4. InOrder
    BY <2>1, <2>3 DEF Orderly
  <2>5. \A d \in SessionCalls : ~RefreshesFor(d, b)
    BY <2>3 DEF Refreshing, RefreshesFor
  <2>6. scall[c].refresh # TRUE
    BY <2>1, <2>4 DEF InOrder, Mannered
  <2>7. token[t].st # "spent" /\ \A a \in Browsers : cookie[a] = t => a = b
    BY <2>1, <2>4, <2>5 DEF InOrder, CookiesApart
  <2>8. \A d \in SessionCalls : ~Carries(d, t)
    <3> SUFFICES ASSUME NEW d \in SessionCalls, Carries(d, t) PROVE FALSE
      OBVIOUS
    <3>1. scall[d].pc = "mark" /\ scall[d].by = b
      BY <2>1, <2>4 DEF InOrder, CookiesApart
    <3> QED
      BY <2>4, <2>5, <3>1 DEF InOrder, Mannered, RefreshesFor
  <2> HIDE DEF t
  <2>9. /\ r.refresh = TRUE /\ r.by = b /\ r.tok = t /\ r.out \notin Tokens
        /\ r.pc = "mark" \/ (r.pc = "answer" /\ r.out # "keep")
    BY <2>2, <2>7, SessionsAssumption DEF HasRead
  <2>10. \A u \in Tokens : (r.out = u \/ (r.pc = "mark" /\ r.tok = u)) =>
             /\ token[u].st # "spent"
             /\ \A d \in SessionCalls \ {c} : ~Carries(d, u)
             /\ \A a \in Browsers : cookie[a] = u => r.pc = "mark" /\ r.by = a
    BY <2>7, <2>8, <2>9
  <2>11. \A d \in SessionCalls : ~RefreshesFor(d, r.by)
    BY <2>5, <2>9
  <2>12. \A u \in Tokens : token'[u].st = "spent" => token[u].st = "spent"
    BY <2>1
  <2> QED
    BY <2>1, <2>2, <2>4, <2>6, <2>9, <2>10, <2>11, <2>12, OneCallInOrder
<1>5. ASSUME NEW c \in SessionCalls, LoginStore(c) \/ RefreshIssue(c) PROVE InOrder'
  <2> DEFINE n == Fresh
  <2>1. /\ UNCHANGED <<cookie, overlap, sfaults>> /\ n \in Tokens /\ ~Born(n)
        /\ \A u \in Tokens \ {n} : token'[u] = token[u]
        /\ token'[n].st = "live"
    BY <1>5, StoreForm
  <2>2. PICK r \in Calls : /\ scall' = [scall EXCEPT ![c] = r] /\ r.pc = "answer" /\ r.out = n
                           /\ r.by = scall[c].by /\ r.refresh = scall[c].refresh
    BY <1>5, StoreForm
  <2> HIDE DEF n
  <2>3. InOrder
    BY <2>1 DEF Orderly
  <2>4. /\ \A d \in SessionCalls : ~Carries(d, n)
        /\ \A b \in Browsers : cookie[b] # n
        /\ token[n].st # "spent" /\ n # "keep"
    BY <2>1, UnbornUnseen, SessionsAssumption DEF Born
  <2> QED
    BY ZenonT(60), <2>1, <2>2, <2>3, <2>4, OneCallInOrder
<1>6. ASSUME NEW c \in SessionCalls, RefreshMark(c), token[scall[c].tok].st # "spent" PROVE InOrder'
  <2>1. UNCHANGED <<overlap, sfaults>>
    BY <1>6, MarkForm
  <2> QED
    BY <1>6, <2>1, MarkInOrder DEF Orderly
<1>7. ASSUME NEW c \in SessionCalls,
             \/ ChangeUpdate(c) \/ ResetUpdate(c) \/ MarkResetTokenUsed(c)
             \/ (RefreshMark(c) /\ token[scall[c].tok].st = "spent")
      PROVE  InOrder'
  <2>1. PICK r \in Calls : /\ UNCHANGED <<token, cookie, overlap, sfaults>>
                           /\ scall' = [scall EXCEPT ![c] = r] /\ Onward(r, scall[c])
                           /\ r.pc \in {"revoke", "reset_mark"}
    BY <1>7, GoForm
  <2>2. InOrder
    BY <2>1 DEF Orderly
  <2>3. scall[c].pc \in {"change_update", "reset_update", "reset_mark"}
    <3>1. CASE scall[c].pc = "mark"
      <4>1. token[scall[c].tok].st = "spent" /\ Carries(c, scall[c].tok) /\ scall[c].tok \in Tokens
        BY <1>7, <3>1, GoForm DEF Carries, SessionInv, Presented
      <4> QED
        BY <2>2, <4>1 DEF InOrder, CarriedOnce
    <3> QED
      BY <1>7, <3>1, GoForm
  <2>4. scall[c].refresh = FALSE /\ scall[c].out \notin Tokens
    <3>1. scall[c].refresh \in BOOLEAN
      BY <1>1 DEF Calls
    <3> QED
      BY <2>2, <2>3, <3>1 DEF InOrder, Mannered
  <2> QED
    BY <2>1, <2>2, <2>4, PlainInOrder DEF Onward
<1>8. ASSUME NEW c \in SessionCalls, Revoke(c) \/ \E b \in Browsers : Logout(c, b) PROVE InOrder'
  <2>1. /\ UNCHANGED <<cookie, overlap, sfaults>>
        /\ \A t \in Tokens : token'[t].st = "spent" => token[t].st = "spent"
        /\ scall'[c].pc = "answer" /\ scall'[c].out \in {"keep", "clear"}
        /\ \/ Revoke(c) /\ scall'[c].by = scall[c].by /\ scall'[c].refresh = scall[c].refresh
           \/ scall[c].pc = "idle" /\ scall'[c].refresh = FALSE
        /\ \A d \in SessionCalls \ {c} :
              /\ scall'[d].pc = scall[d].pc /\ scall'[d].by = scall[d].by
              /\ scall'[d].tok = scall[d].tok /\ scall'[d].out = scall[d].out
              /\ scall'[d].refresh = scall[d].refresh
    BY <1>8, RevokeForm
  <2>2. InOrder
    BY <2>1 DEF Orderly
  <2>3. scall[c].refresh # TRUE /\ scall'[c].refresh # TRUE
    <3>1. scall[c].pc \in {"idle", "revoke"}
      BY <1>8 DEF Revoke, Logout
    <3>2. scall[c].refresh # TRUE
      BY <2>2, <3>1 DEF InOrder, Mannered
    <3> QED
      BY <2>1, <3>2
  <2>4. Mannered(c)' /\ \A t \in Tokens : ~Carries(c, t)'
    BY <2>1, <2>3, SessionsAssumption DEF Mannered, Carries
  <2> QED
    BY <2>1, <2>2, <2>3, <2>4, StillInOrder
<1>9. ASSUME NEW c \in SessionCalls, Answer(c) PROVE InOrder'
  <2>1. UNCHANGED <<overlap, sfaults>>
    BY <1>9, AnswerStep
  <2> QED
    BY <1>9, <2>1, AnswerInOrder DEF Orderly
<1>10. ASSUME \/ \E t \in Tokens : Expire(t)
              \/ \E r \in ResetTokens : ForgotPassword(r) \/ ResetExpires(r)
       PROVE  InOrder'
  <2>1. /\ UNCHANGED <<cookie, scall, overlap, sfaults>>
        /\ \A t \in Tokens : token'[t].st = "spent" <=> token[t].st = "spent"
    BY <1>10, TimeForm
  <2>2. InOrder
    BY <2>1 DEF Orderly
  <2> QED
    BY <2>1, <2>2 DEF InOrder, Mannered, OneRefresh, CarriedOnce, CookiesApart, Carries, RefreshesFor
<1> QED
  BY <1>2, <1>3, <1>4, <1>5, <1>6, <1>7, <1>8, <1>9, <1>10, EveryStep

\* Nobody is thrown out of all sessions for following the rules: a browser that
\* refreshes one request at a time and gets its answers never presents a token twice.
\* (RefreshTokens revokes on reuse; the cookie is set by the answer.)
THEOREM NobodyFalselyAccused == SessionSpec => []NoFalseAlarm
<1>1. SessionInit => Orderly
  <2> SUFFICES ASSUME SessionInit PROVE InOrder
    BY DEF Orderly
  <2>1. /\ \A c \in SessionCalls : scall[c] = NoCall
        /\ \A b \in Browsers : cookie[b] \notin Tokens
    BY SessionsAssumption DEF SessionInit
  <2>2. NoCall.refresh = FALSE
    BY DEF NoCall
  <2> QED
    BY <2>1, <2>2, IdleCall DEF InOrder, Mannered, OneRefresh, CarriedOnce, CookiesApart, Carries, RefreshesFor
<1>2. SessionInv /\ Orderly => NoFalseAlarm
  <2> SUFFICES ASSUME SessionInv, Orderly, NEW c \in SessionCalls, scall[c].refresh, scall[c].pc = "revoke",
                      ~overlap, sfaults = 0
               PROVE  FALSE
    BY SessionsAssumption DEF NoFalseAlarm, SessionInv, SessionTypeOK
  <2>1. overlap = FALSE /\ scall[c].refresh = TRUE
    BY DEF SessionInv, SessionTypeOK, Calls
  <2> QED
    BY <2>1 DEF Orderly, InOrder, Mannered
<1> QED
  BY <1>1, <1>2, OrderlyStands, SessionAtStart, SessionStands, PTL DEF SessionSpec

\* Every variable of the session component has its type, whatever the interleaving.
THEOREM SessionTypeCorrect == SessionSpec => []SessionTypeOK
<1>1. SessionInv => SessionTypeOK
  BY DEF SessionInv
<1> QED
  BY <1>1, SessionAtStart, SessionStands, PTL DEF SessionSpec
===============================================================================
