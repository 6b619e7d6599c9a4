----------------------------- MODULE TwoFactor -----------------------------
(* One user's second factor: setup, confirmation, logging in with an         *)
(* authenticator or a recovery code, switching it off (internal/auth).  Each *)
(* statement is a step; two_factor_auth has no unique user_id, so its rows   *)
(* are a set and QueryRow may return any of them.                            *)
EXTENDS Naturals, FiniteSets

CONSTANTS Secrets,   \* TOTP keys that may be generated
          Codes,     \* recovery codes of one setup
          FactorCalls,
          MaxFactorFaults, \* bound: failed statements
          NoSecret

ASSUME TwoFactorAssumption ==
    NoSecret \notin Secrets /\ IsFiniteSet(Secrets) /\ MaxFactorFaults \in Nat

VARIABLES tfa,       \* two_factor_auth
          fcall,     \* requests in flight
          drawn,     \* secrets generated so far
          shown,     \* secrets Setup2FA has answered with
          accepted,  \* ghost: how often each code passed (0, 1, 2 for more)
          confirmed, \* ghost: secrets a code was checked against
          mixed,     \* ghost: a setup ran beside a setup or a confirmation
          rushed,    \* ghost: two recovery codes were being used at once
          ffaults

factorVars == <<tfa, fcall, drawn, shown, accepted, confirmed, mixed, rushed, ffaults>>
factorGhosts == <<accepted, confirmed, mixed, rushed>>

Recovery == Secrets \X Codes
FactorRows == [secret : Secrets, enabled : BOOLEAN, codes : SUBSET Recovery]
FactorSteps == {"idle", "setup_delete", "setup_store", "setup_codes", "enable", "consume", "delete"}
\* codes is what StoreRecoveryCodes is to write; then, what follows a code.
FactorRequests == [pc : FactorSteps, secret : Secrets \cup {NoSecret}, codes : SUBSET Recovery,
                   used : SUBSET Recovery, off : BOOLEAN]
NoFactorCall == [pc |-> "idle", secret |-> NoSecret, codes |-> {}, used |-> {}, off |-> FALSE]

FactorInit ==
    /\ tfa = {} /\ drawn = {} /\ shown = {}
    /\ fcall = [c \in FactorCalls |-> NoFactorCall]
    /\ accepted = [k \in Recovery |-> 0] /\ confirmed = {}
    /\ mixed = FALSE /\ rushed = FALSE /\ ffaults = 0

At(pcs) == {c \in FactorCalls : fcall[c].pc \in pcs}
SettingUp == At({"setup_delete", "setup_store", "setup_codes"})
FactorStep(c, r) == fcall' = [fcall EXCEPT ![c] = r]
FactorDone(c) == FactorStep(c, NoFactorCall)

-----------------------------------------------------------------------------
(* Setup                                                                   *)

\* Refused while the second factor is on; an unconfirmed one is replaced.
Setup2FA(c) ==
    /\ fcall[c].pc = "idle" /\ drawn # Secrets
    /\ \/ tfa = {} /\ FactorStep(c, [NoFactorCall EXCEPT !.pc = "setup_store"])
       \/ \E t \in tfa : ~t.enabled /\ FactorStep(c, [NoFactorCall EXCEPT !.pc = "setup_delete"])
    /\ mixed' = (mixed \/ SettingUp \cup At({"enable"}) # {})
    /\ UNCHANGED <<tfa, drawn, shown, accepted, confirmed, rushed, ffaults>>

\* An error of Get2FAByUserID counts as "not set up", also while it is on.
SetupReadFails(c) ==
    /\ fcall[c].pc = "idle" /\ drawn # Secrets /\ ffaults < MaxFactorFaults
    /\ ffaults' = ffaults + 1
    /\ FactorStep(c, [NoFactorCall EXCEPT !.pc = "setup_store"])
    /\ mixed' = TRUE
    /\ UNCHANGED <<tfa, drawn, shown, accepted, confirmed, rushed>>

\* Its error is ignored.
SetupDelete(c, ok) ==
    /\ fcall[c].pc = "setup_delete"
    /\ \/ ok /\ tfa' = {} /\ UNCHANGED <<ffaults, mixed>>
       \/ /\ ~ok /\ ffaults < MaxFactorFaults /\ ffaults' = ffaults + 1 /\ mixed' = TRUE
          /\ UNCHANGED tfa
    /\ FactorStep(c, [fcall[c] EXCEPT !.pc = "setup_store"])
    /\ UNCHANGED <<drawn, shown, accepted, confirmed, rushed>>

Store2FA(c) ==
    /\ fcall[c].pc = "setup_store"
    /\ \E s \in Secrets \ drawn :
          /\ tfa' = tfa \cup {[secret |-> s, enabled |-> FALSE, codes |-> {}]}
          /\ drawn' = drawn \cup {s}
          /\ FactorStep(c, [fcall[c] EXCEPT !.pc = "setup_codes", !.secret = s, !.codes = {s} \X Codes])
    /\ UNCHANGED <<shown, factorGhosts, ffaults>>

StoreRecoveryCodes(codes) == tfa' = {[t EXCEPT !.codes = codes] : t \in tfa}

\* The codes are stored and the answer shows the user secret and codes.
SetupCodes(c) ==
    /\ fcall[c].pc = "setup_codes"
    /\ StoreRecoveryCodes(fcall[c].codes)
    /\ shown' = shown \cup {fcall[c].secret}
    /\ FactorDone(c)
    /\ UNCHANGED <<drawn, factorGhosts, ffaults>>

\* Mutant: the code is not compared with the stored secret.
Enable2FA_Unchecked(c) ==
    /\ fcall[c].pc = "idle"
    /\ \E t \in tfa : ~t.enabled
    /\ FactorStep(c, [NoFactorCall EXCEPT !.pc = "enable"])
    /\ mixed' = (mixed \/ SettingUp # {})
    /\ UNCHANGED <<tfa, drawn, shown, accepted, confirmed, rushed, ffaults>>

\* The code is right for the secret read: the user has it in an authenticator.
Enable2FA(c) ==
    /\ fcall[c].pc = "idle"
    /\ \E t \in tfa : /\ ~t.enabled /\ t.secret \in shown
                      /\ confirmed' = confirmed \cup {t.secret}
    /\ FactorStep(c, [NoFactorCall EXCEPT !.pc = "enable"])
    /\ mixed' = (mixed \/ SettingUp # {})
    /\ UNCHANGED <<tfa, drawn, shown, accepted, rushed, ffaults>>

EnableUpdate(c) ==
    /\ fcall[c].pc = "enable"
    /\ tfa' = {[t EXCEPT !.enabled = TRUE] : t \in tfa}
    /\ FactorDone(c)
    /\ UNCHANGED <<drawn, shown, factorGhosts, ffaults>>

-----------------------------------------------------------------------------
(* Logging in and switching off                                            *)

Bumped(k) == IF accepted[k] < 2 THEN accepted[k] + 1 ELSE 2

\* The code is found among those just read (the authenticator's own code changes
\* nothing); the rest is to be written back.
useRecoveryCode(c, off) ==
    /\ fcall[c].pc = "idle"
    /\ \E t \in tfa : \E k \in t.codes :
          /\ t.enabled /\ k[1] \in shown
          /\ FactorStep(c, [NoFactorCall EXCEPT !.pc = "consume", !.off = off,
                                !.codes = t.codes \ {k}, !.used = {k}])
    /\ rushed' = (rushed \/ At({"consume"}) # {})
    /\ UNCHANGED <<tfa, drawn, shown, accepted, confirmed, mixed, ffaults>>

\* What follows an accepted code: the login goes on to its tokens, or the second
\* factor is deleted.
Accepted(c) == IF fcall[c].off THEN FactorStep(c, [NoFactorCall EXCEPT !.pc = "delete"])
               ELSE FactorDone(c)

ConsumeCode(c) ==
    /\ fcall[c].pc = "consume"
    /\ StoreRecoveryCodes(fcall[c].codes)
    /\ accepted' = [k \in Recovery |-> IF k \in fcall[c].used THEN Bumped(k) ELSE accepted[k]]
    /\ Accepted(c)
    /\ UNCHANGED <<drawn, shown, confirmed, mixed, rushed, ffaults>>

\* Mutant: the code counts although it could not be struck off.
ConsumeFails_Open(c) ==
    /\ fcall[c].pc = "consume" /\ ffaults < MaxFactorFaults
    /\ ffaults' = ffaults + 1
    /\ accepted' = [k \in Recovery |-> IF k \in fcall[c].used THEN Bumped(k) ELSE accepted[k]]
    /\ Accepted(c)
    /\ UNCHANGED <<tfa, drawn, shown, confirmed, mixed, rushed>>

\* Fail closed: the code is still stored, so the attempt is denied.
ConsumeFails(c) ==
    /\ fcall[c].pc = "consume" /\ ffaults < MaxFactorFaults
    /\ ffaults' = ffaults + 1
    /\ FactorDone(c)
    /\ UNCHANGED <<tfa, drawn, shown, factorGhosts>>

\* With the authenticator's code; with a recovery code see useRecoveryCode.
Disable2FA(c) ==
    /\ fcall[c].pc = "idle"
    /\ \E t \in tfa : t.enabled /\ t.secret \in shown
    /\ FactorStep(c, [NoFactorCall EXCEPT !.pc = "delete"])
    /\ UNCHANGED <<tfa, drawn, shown, factorGhosts, ffaults>>

Delete2FA(c) ==
    /\ fcall[c].pc = "delete"
    /\ tfa' = {}
    /\ FactorDone(c)
    /\ UNCHANGED <<drawn, shown, factorGhosts, ffaults>>

\* Any other statement fails, or the process dies; a setup may leave a row whose
\* secret nobody was shown.
FactorStatementFails(c) ==
    /\ fcall[c].pc \notin {"idle", "consume"} /\ ffaults < MaxFactorFaults
    /\ ffaults' = ffaults + 1
    /\ FactorDone(c)
    /\ UNCHANGED <<tfa, drawn, shown, factorGhosts>>

FactorNext ==
    \E c \in FactorCalls :
       \/ Setup2FA(c) \/ Store2FA(c) \/ SetupCodes(c) \/ Enable2FA(c) \/ EnableUpdate(c)
       \/ ConsumeCode(c) \/ ConsumeFails(c) \/ Disable2FA(c) \/ Delete2FA(c)
       \/ FactorStatementFails(c) \/ SetupReadFails(c)
       \/ \E b \in BOOLEAN : SetupDelete(c, b) \/ useRecoveryCode(c, b)

FactorSpec == FactorInit /\ [][FactorNext]_factorVars

-----------------------------------------------------------------------------
(* Properties                                                              *)

FactorTypeOK ==
    /\ tfa \subseteq FactorRows
    /\ fcall \in [FactorCalls -> FactorRequests]
    /\ shown \subseteq drawn /\ drawn \subseteq Secrets
    /\ accepted \in [Recovery -> 0..2] /\ confirmed \subseteq Secrets
    /\ mixed \in BOOLEAN /\ rushed \in BOOLEAN /\ ffaults \in 0..MaxFactorFaults

\* The second factor that is on is one its owner has proved to have, so nobody is
\* locked out by a setup that was begun, failed or repeated.  Exception: a setup
\* beside another setup or a confirmation, or one whose read or delete failed.
\* (Setup2FA, Enable2FA.)
EnabledIsConfirmed == \A t \in tfa : t.enabled => t.secret \in confirmed \/ mixed

\* A recovery code works once, also when writing the rest back fails, unless two
\* of them are used at the same moment.  (useRecoveryCode.)
CodesWorkOnce == \A k \in Recovery : accepted[k] <= 1 \/ rushed

\* A second factor neither locks its owner out nor lets a code in twice.
FactorHolds == EnabledIsConfirmed /\ CodesWorkOnce
=============================================================================
