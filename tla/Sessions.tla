------------------------------ MODULE Sessions ------------------------------
(* One user's sessions: logging in, rotating the refresh token, logging out, *)
(* changing and resetting the password (internal/auth, internal/user), with *)
(* the refresh cookie of each of the user's browsers.  One step per SQL      *)
(* statement; bcrypt, JWT and TOTP checks are outcomes.                      *)
EXTENDS Naturals, FiniteSets

CONSTANTS Tokens,            \* refresh tokens that may be issued
          ResetTokens,       \* password reset tokens that may be mailed
          Browsers,
          SessionCalls,      \* requests in flight at once
          MaxPasswords,      \* bound: password changes
          MaxSessionFaults,  \* bound: failed statements, lost answers
          NoToken

ASSUME SessionsAssumption ==
    /\ NoToken \notin Tokens \cup ResetTokens /\ IsFiniteSet(Tokens)
    /\ "clear" \notin Tokens /\ "keep" \notin Tokens
    /\ MaxPasswords \in Nat /\ MaxSessionFaults \in Nat

VARIABLES token,     \* refresh_tokens
          reset,     \* password_reset_tokens
          password,  \* version of users.password_hash
          cookie,    \* the refresh cookie each browser holds
          scall,     \* requests in flight
          overlap,   \* ghost: a browser refreshed twice at once
          sfaults

sessionVars == <<token, reset, password, cookie, scall, overlap, sfaults>>

\* What the used, revoked and expires_at columns say: spent is used (revoked or
\* not: Used is tested first), void is unused and revoked or expired.  root is the
\* login the token goes back to, pw the password version given there; late: it, or
\* a token it goes back to, was stored by a request that was under way when the
\* tokens were revoked (ghosts).
TokenRows == [st : {"unborn", "live", "spent", "void"}, root : Tokens \cup {NoToken},
              pw : 0..MaxPasswords, late : BOOLEAN]
Unborn == [st |-> "unborn", root |-> NoToken, pw |-> 0, late |-> FALSE]

Steps == {"idle", "login_store", "mark", "issue", "revoke", "change_update", "reset_update",
          "reset_mark", "answer"}
\* out is the token the answer carries, or whether it clears the cookie; pw and
\* crossed are what the token it stores is to inherit (ghosts): crossed once a
\* revocation has run since the request began.
Calls == [pc : Steps, by : Browsers \cup {NoToken}, tok : Tokens \cup ResetTokens \cup {NoToken},
          pw : 0..MaxPasswords, crossed : BOOLEAN, refresh : BOOLEAN,
          out : Tokens \cup {"clear", "keep"}]
NoCall == [pc |-> "idle", by |-> NoToken, tok |-> NoToken, pw |-> 0, crossed |-> FALSE,
           refresh |-> FALSE, out |-> "keep"]

SessionInit ==
    /\ token = [t \in Tokens |-> Unborn]
    /\ reset = [r \in ResetTokens |-> "unborn"]
    /\ password = 0
    /\ cookie = [b \in Browsers |-> NoToken]
    /\ scall = [c \in SessionCalls |-> NoCall]
    /\ overlap = FALSE /\ sfaults = 0

SessionFault == sfaults < MaxSessionFaults /\ sfaults' = sfaults + 1

Active(t) == token[t].st = "live"
\* A token that can no longer be exchanged; its ghosts are of no more use.
Retired(t, st) == [token[t] EXCEPT !.st = st, !.pw = 0, !.late = FALSE]

Begin(c, b, r) == /\ scall[c].pc = "idle"
                  /\ scall' = [scall EXCEPT ![c] = [r EXCEPT !.by = b]]
Goto(c, pc) == scall' = [scall EXCEPT ![c].pc = pc]
Answering(c, out) == [NoCall EXCEPT !.pc = "answer", !.by = scall[c].by,
                                    !.refresh = scall[c].refresh, !.out = out]
Answers(c, out) == scall' = [scall EXCEPT ![c] = Answering(c, out)]
Refreshing(b) == \E c \in SessionCalls : scall[c].by = b /\ scall[c].refresh

-----------------------------------------------------------------------------
(* The repository's statements                                             *)

\* The next token: rows are added in a fixed order, which no property can see.
Fresh == CHOOSE t \in Tokens : token[t].st = "unborn"
Spare == \E t \in Tokens : token[t].st = "unborn"

StoreRefreshToken(c, root) ==
    token' = [token EXCEPT ![Fresh] =
        [st |-> "live", root |-> root, pw |-> scall[c].pw, late |-> scall[c].crossed]]

\* Mutant: UPDATE without AND used = false.
MarkRefreshTokenUsed_Blind(c) ==
    /\ token' = [token EXCEPT ![scall[c].tok] = Retired(scall[c].tok, "spent")]
    /\ Goto(c, "issue")

\* AND used = false: the loser of a rotation race has met a used token.
MarkRefreshTokenUsed(c) ==
    IF token[scall[c].tok].st = "spent"
    THEN Goto(c, "revoke") /\ UNCHANGED token
    ELSE /\ token' = [token EXCEPT ![scall[c].tok] = Retired(scall[c].tok, "spent")]
         /\ Goto(c, "issue")

\* Mutant: only tokens already rotated are revoked.
RevokeAllUserTokens_UsedOnly == UNCHANGED token

RevokeAllUserTokens ==
    token' = [t \in Tokens |-> IF Active(t) THEN Retired(t, "void") ELSE token[t]]

\* Every request but c, which revokes and goes on as r, has now been crossed.
Crossing(c, r) == scall' = [d \in SessionCalls |->
    IF d = c THEN r ELSE [scall[d] EXCEPT !.crossed = @ \/ scall[d].pc \notin {"idle", "answer"}]]

-----------------------------------------------------------------------------
(* Login and rotation                                                      *)

\* The user is read, password and second factor are right.
Login(c, b) ==
    /\ Spare
    /\ Begin(c, b, [NoCall EXCEPT !.pc = "login_store", !.pw = password])
    /\ UNCHANGED <<token, reset, password, cookie, overlap, sfaults>>

LoginStore(c) ==
    /\ scall[c].pc = "login_store" /\ Spare
    /\ StoreRefreshToken(c, Fresh)
    /\ Answers(c, Fresh)
    /\ UNCHANGED <<reset, password, cookie, overlap, sfaults>>

\* The handler takes the token from the cookie; GetRefreshToken and the checks.
\* A revoked or expired token is refused and the cookie cleared.
RefreshRead(c, b) ==
    LET t == cookie[b] IN
    /\ t # NoToken /\ (Active(t) => Spare)
    /\ Begin(c, b, [NoCall EXCEPT
           !.pc = CASE token[t].st = "live" -> "mark"
                    [] token[t].st = "spent" -> "revoke"
                    [] token[t].st = "void" -> "answer",
           !.out = IF token[t].st = "void" THEN "clear" ELSE "keep",
           !.tok = t, !.pw = token[t].pw, !.crossed = token[t].late, !.refresh = TRUE])
    /\ overlap' = (overlap \/ Refreshing(b))
    /\ UNCHANGED <<token, reset, password, cookie, sfaults>>

RefreshMark(c) ==
    /\ scall[c].pc = "mark"
    /\ MarkRefreshTokenUsed(c)
    /\ UNCHANGED <<reset, password, cookie, overlap, sfaults>>

\* Mutant: returns before the successor is stored.
RefreshIssue_NoStore(c) ==
    /\ scall[c].pc = "issue"
    /\ Answers(c, "keep")
    /\ UNCHANGED <<token, reset, password, cookie, overlap, sfaults>>

\* The user is read again and the successor stored.
RefreshIssue(c) ==
    /\ scall[c].pc = "issue" /\ Spare
    /\ StoreRefreshToken(c, token[scall[c].tok].root)
    /\ Answers(c, Fresh)
    /\ UNCHANGED <<reset, password, cookie, overlap, sfaults>>

\* Used before: every session goes, this browser's cookie too.  Also the last
\* step of ChangePassword and ResetPassword, which leave the cookie alone.
Revoke(c) ==
    /\ scall[c].pc = "revoke"
    /\ RevokeAllUserTokens
    /\ Crossing(c, Answering(c, IF scall[c].refresh THEN "clear" ELSE "keep"))
    /\ UNCHANGED <<reset, password, cookie, overlap, sfaults>>

Logout(c, b) ==
    /\ cookie[b] # NoToken /\ scall[c].pc = "idle"
    /\ Crossing(c, [NoCall EXCEPT !.pc = "answer", !.out = "clear", !.by = b])
    /\ RevokeAllUserTokens
    /\ UNCHANGED <<reset, password, cookie, overlap, sfaults>>

\* Mutant: the rotated token is not put into the cookie.
Answer_LoginOnly(c) ==
    LET b == scall[c].by IN
    /\ scall[c].pc = "answer"
    /\ cookie' = IF scall[c].out \in Tokens /\ ~scall[c].refresh
                 THEN [cookie EXCEPT ![b] = scall[c].out]
                 ELSE IF scall[c].out = "clear" THEN [cookie EXCEPT ![b] = NoToken] ELSE cookie
    /\ scall' = [scall EXCEPT ![c] = NoCall]
    /\ UNCHANGED <<token, reset, password, overlap, sfaults>>

\* setRefreshCookie, clearRefreshCookie, or (a 500, a password call) neither.
Answer(c) ==
    LET b == scall[c].by IN
    /\ scall[c].pc = "answer"
    /\ cookie' = IF scall[c].out \in Tokens THEN [cookie EXCEPT ![b] = scall[c].out]
                 ELSE IF scall[c].out = "clear" THEN [cookie EXCEPT ![b] = NoToken] ELSE cookie
    /\ scall' = [scall EXCEPT ![c] = NoCall]
    /\ UNCHANGED <<token, reset, password, overlap, sfaults>>

-----------------------------------------------------------------------------
(* Passwords                                                               *)

\* The current password is compared with the hash just read.
ChangePassword(c, b) ==
    /\ password < MaxPasswords
    /\ Begin(c, b, [NoCall EXCEPT !.pc = "change_update", !.pw = password])
    /\ UNCHANGED <<token, reset, password, cookie, overlap, sfaults>>

ChangeUpdate(c) ==
    /\ scall[c].pc = "change_update" /\ password < MaxPasswords
    /\ password' = password + 1
    /\ Goto(c, "revoke")
    /\ UNCHANGED <<token, reset, cookie, overlap, sfaults>>

ForgotPassword(r) ==
    /\ reset[r] = "unborn"
    /\ reset' = [reset EXCEPT ![r] = "valid"]
    /\ UNCHANGED <<token, password, cookie, scall, overlap, sfaults>>

ResetPassword(c, b, r) ==
    /\ reset[r] = "valid"
    /\ Begin(c, b, [NoCall EXCEPT !.pc = "reset_update", !.tok = r])
    /\ UNCHANGED <<token, reset, password, cookie, overlap, sfaults>>

ResetUpdate(c) ==
    /\ scall[c].pc = "reset_update" /\ password < MaxPasswords
    /\ password' = password + 1
    /\ Goto(c, "reset_mark")
    /\ UNCHANGED <<token, reset, cookie, overlap, sfaults>>

MarkResetTokenUsed(c) ==
    /\ scall[c].pc = "reset_mark"
    /\ reset' = [reset EXCEPT ![scall[c].tok] = "used"]
    /\ Goto(c, "revoke")
    /\ UNCHANGED <<token, password, cookie, overlap, sfaults>>

-----------------------------------------------------------------------------
(* Time and failures                                                       *)

Expire(t) ==
    /\ Active(t)
    /\ token' = [token EXCEPT ![t] = Retired(t, "void")]
    /\ UNCHANGED <<reset, password, cookie, scall, overlap, sfaults>>

ResetExpires(r) ==
    /\ reset[r] = "valid"
    /\ reset' = [reset EXCEPT ![r] = "expired"]
    /\ UNCHANGED <<token, password, cookie, scall, overlap, sfaults>>

\* A statement fails: the request answers 500 with the cookie as it was, except
\* that a failing RevokeAllUserTokens is ignored.
StatementFails(c) ==
    /\ SessionFault
    /\ scall[c].pc \notin {"idle", "answer"}
    /\ Answers(c, IF scall[c].pc = "revoke" /\ scall[c].refresh THEN "clear" ELSE "keep")
    /\ UNCHANGED <<token, reset, password, cookie, overlap>>

\* The process dies, or the answer does not reach the browser.
AnswerLost(c) ==
    /\ SessionFault
    /\ scall[c].pc # "idle"
    /\ scall' = [scall EXCEPT ![c] = NoCall]
    /\ UNCHANGED <<token, reset, password, cookie, overlap>>

SessionNext ==
    \/ \E c \in SessionCalls :
          \/ LoginStore(c) \/ RefreshMark(c) \/ RefreshIssue(c) \/ Revoke(c) \/ Answer(c)
          \/ ChangeUpdate(c) \/ ResetUpdate(c) \/ MarkResetTokenUsed(c)
          \/ StatementFails(c) \/ AnswerLost(c)
          \/ \E b \in Browsers : \/ Login(c, b) \/ RefreshRead(c, b) \/ Logout(c, b)
                                 \/ ChangePassword(c, b)
                                 \/ \E r \in ResetTokens : ResetPassword(c, b, r)
    \/ \E t \in Tokens : Expire(t)
    \/ \E r \in ResetTokens : ForgotPassword(r) \/ ResetExpires(r)

SessionSpec == SessionInit /\ [][SessionNext]_sessionVars

-----------------------------------------------------------------------------
(* Properties                                                              *)

SessionTypeOK ==
    /\ token \in [Tokens -> TokenRows]
    /\ reset \in [ResetTokens -> {"unborn", "valid", "used", "expired"}]
    /\ password \in 0..MaxPasswords
    /\ cookie \in [Browsers -> Tokens \cup {NoToken}]
    /\ scall \in [SessionCalls -> Calls]
    /\ overlap \in BOOLEAN /\ sfaults \in 0..MaxSessionFaults

\* However its token is presented, raced or replayed, a login has at most one
\* token at a time that can still be exchanged.  (MarkRefreshTokenUsed.)
OneSessionPerLogin ==
    \A t, u \in Tokens : Active(t) /\ Active(u) /\ token[t].root = token[u].root => t = u

\* A session does not vanish: when every token of a login has been exchanged, the
\* next one is about to be stored, or a statement failed after the exchange.
SessionsEndForAReason ==
    \A r \in Tokens :
        (r = token[r].root /\ \A t \in Tokens : token[t].root = r => token[t].st = "spent")
            => \/ \E c \in SessionCalls : scall[c].pc = "issue" /\ token[scall[c].tok].root = r
               \/ sfaults > 0

\* Once a password change has run to its end, a session opened with an earlier
\* password is one whose login or refresh was under way when the tokens were
\* revoked.
PasswordChangeEndsOldSessions ==
    (sfaults = 0 /\ \A c \in SessionCalls : scall[c].pc \notin {"reset_mark", "revoke"}) =>
        \A t \in Tokens : Active(t) => token[t].pw = password \/ token[t].late

\* Nobody is thrown out of all sessions for following the rules: a browser that
\* refreshes one request at a time and gets its answers never presents a token
\* twice.
NoFalseAlarm ==
    (\E c \in SessionCalls : scall[c].refresh /\ scall[c].pc = "revoke") => overlap \/ sfaults > 0
=============================================================================
