------------------------------- MODULE Access -------------------------------
(* The admin surface (cmd/api/main.go, internal/middleware, internal/audit):  *)
(* access tokens that carry a role, the chain of middlewares in front of an   *)
(* admin handler, and the audit entry written behind it.  One device makes    *)
(* one request at a time; a user may have several.                            *)
EXTENDS Integers, FiniteSets

CONSTANTS Staff,            \* users
          Devices,
          AccessTtl,        \* life of an access token, in ticks
          RequestTime,      \* middleware.Timeout: no request is older than this
          MaxMinutes, MaxRoleChanges, MaxActs, MaxAccessFaults  \* bounds

ASSUME AccessAssumption ==
    /\ AccessTtl \in Nat \ {0} /\ RequestTime \in Nat
    /\ MaxMinutes \in Nat /\ MaxRoleChanges \in Nat /\ MaxActs \in Nat /\ MaxAccessFaults \in Nat

StaffRoles == {"admin", "support", "sales"}
AccessRoles == StaffRoles \cup {"customer"}
\* The roles each group of admin routes asks for.
Areas == {{"admin", "sales"}, {"admin", "support"}, {"admin"}}
Outcomes == {"done", "refused"}

VARIABLES roles,     \* users.role
          factor,    \* whether the user's two_factor_auth row is enabled
          device,    \* each device's access token and its request
          minute,
          acts,      \* ghost: what requests behind the gate came to, by user
          entries,   \* admin_audit_log, by actor and outcome
          lost,      \* ghost: when a user last ceased to have a role
          roleChanges, afaults

accessVars == <<roles, factor, device, minute, acts, entries, lost, roleChanges, afaults>>

Never == 0 - AccessTtl - 2 * RequestTime
\* role, issued: the token's claims; area, outcome: the request's route and status;
\* fresh: the role that was read for the token to come; gone: its client is.
DeviceStates == [pc : {"idle", "issue", "factor", "handle", "record"}, user : Staff,
                 role : AccessRoles, issued : Never..MaxMinutes, fresh : AccessRoles,
                 area : Areas, began : 0..MaxMinutes, outcome : Outcomes, gone : BOOLEAN]

AccessInit ==
    /\ roles \in [Staff -> {"admin", "customer"}] /\ factor \in [Staff -> BOOLEAN]
    /\ \E u \in Staff :
          device = [d \in Devices |->
              [pc |-> "idle", user |-> u, role |-> "customer", issued |-> Never, fresh |-> "customer",
               area |-> {"admin"}, began |-> 0, outcome |-> "done", gone |-> FALSE]]
    /\ minute = 0
    /\ acts = [u \in Staff |-> [o \in Outcomes |-> 0]] /\ entries = acts
    /\ lost = [u \in Staff |-> [r \in AccessRoles |-> Never]]
    /\ roleChanges = 0 /\ afaults = 0

Asks(d, r) == /\ device[d].pc = "idle"
              /\ device' = [device EXCEPT ![d] = [r EXCEPT !.began = minute, !.gone = FALSE]]
Rested(r) == [r EXCEPT !.pc = "idle", !.fresh = "customer", !.area = {"admin"}, !.began = 0,
                       !.outcome = "done", !.gone = FALSE]
Leaves(d) == device' = [device EXCEPT ![d] = Rested(@)]
Valid(d) == minute < device[d].issued + AccessTtl
Count(f, u, o) == [f EXCEPT ![u][o] = @ + 1]
AccessFault == afaults < MaxAccessFaults /\ afaults' = afaults + 1

-----------------------------------------------------------------------------
(* Tokens                                                                  *)

\* Password, second factor, or the provider's word for it; the user is read.
LogIn(d, u) ==
    /\ Asks(d, [device[d] EXCEPT !.pc = "issue", !.user = u, !.fresh = roles[u]])
    /\ UNCHANGED <<roles, factor, minute, acts, entries, lost, roleChanges, afaults>>

\* Mutant: the new token takes its role from the old one.
RefreshAccess_CopiesRole(d) ==
    /\ device[d].issued # Never
    /\ Asks(d, [device[d] EXCEPT !.pc = "issue", !.fresh = device[d].role])
    /\ UNCHANGED <<roles, factor, minute, acts, entries, lost, roleChanges, afaults>>

\* The refresh token names the user, who is read again.
RefreshAccess(d) ==
    /\ device[d].issued # Never
    /\ Asks(d, [device[d] EXCEPT !.pc = "issue", !.fresh = roles[device[d].user]])
    /\ UNCHANGED <<roles, factor, minute, acts, entries, lost, roleChanges, afaults>>

GenerateTokenPair(d) ==
    /\ device[d].pc = "issue"
    /\ LET r == device[d] IN
       device' = [device EXCEPT ![d] = Rested([r EXCEPT !.role = r.fresh, !.issued = minute])]
    /\ UNCHANGED <<roles, factor, minute, acts, entries, lost, roleChanges, afaults>>

-----------------------------------------------------------------------------
(* A mutation behind the gate                                              *)

\* Auth, and RequireRole of any staff role: both look at the token only.
Auth(d, area) ==
    /\ Valid(d) /\ device[d].role \in StaffRoles
    /\ acts[device[d].user].done + acts[device[d].user].refused < MaxActs
    /\ Asks(d, [device[d] EXCEPT !.pc = "factor", !.area = area])
    /\ UNCHANGED <<roles, factor, minute, acts, entries, lost, roleChanges, afaults>>

RequireStaff2FA(d) ==
    /\ device[d].pc = "factor"
    /\ IF factor[device[d].user] /\ ~device[d].gone
       THEN device' = [device EXCEPT ![d].pc = "handle"]
       ELSE Leaves(d)
    /\ UNCHANGED <<roles, factor, minute, acts, entries, lost, roleChanges, afaults>>

\* The group's own RequireRole, then the handler's statement, which fails when the
\* request was given up or when it finds nothing to change.
Handle(d, o) ==
    LET u == device[d].user IN
    /\ device[d].pc = "handle"
    /\ device[d].role \notin device[d].area \/ device[d].gone => o = "refused"
    /\ acts' = Count(acts, u, o)
    /\ device' = [device EXCEPT ![d].pc = "record", ![d].outcome = o]
    /\ UNCHANGED <<roles, factor, minute, entries, lost, roleChanges, afaults>>

\* Mutant: the entry is written in the request's context.
Record_RequestContext(d) ==
    /\ device[d].pc = "record"
    /\ entries' = IF device[d].gone THEN entries ELSE Count(entries, device[d].user, device[d].outcome)
    /\ Leaves(d)
    /\ UNCHANGED <<roles, factor, minute, acts, lost, roleChanges, afaults>>

\* "detached context so the write survives request cancellation"
Record(d) ==
    /\ device[d].pc = "record"
    /\ entries' = Count(entries, device[d].user, device[d].outcome)
    /\ Leaves(d)
    /\ UNCHANGED <<roles, factor, minute, acts, lost, roleChanges, afaults>>

-----------------------------------------------------------------------------
(* Around it                                                               *)

\* By another administrator; Identity has the whole of it.
SetRole(u, r) ==
    /\ roles[u] # r /\ roleChanges < MaxRoleChanges
    /\ roles' = [roles EXCEPT ![u] = r] /\ roleChanges' = roleChanges + 1
    /\ lost' = [lost EXCEPT ![u][roles[u]] = minute]
    /\ UNCHANGED <<factor, device, minute, acts, entries, afaults>>

\* Enable2FA or Disable2FA; TwoFactor has the whole of it.
SetFactor(u) ==
    /\ roleChanges < MaxRoleChanges /\ roleChanges' = roleChanges + 1
    /\ factor' = [factor EXCEPT ![u] = ~@]
    /\ UNCHANGED <<roles, device, minute, acts, entries, lost, afaults>>

\* The connection is closed, or the request's time is over.
ClientGone(d) ==
    /\ device[d].pc \in {"factor", "handle", "record"} /\ ~device[d].gone
    /\ device' = [device EXCEPT ![d].gone = TRUE]
    /\ UNCHANGED <<roles, factor, minute, acts, entries, lost, roleChanges, afaults>>

\* INSERT INTO admin_audit_log fails and is logged.
RecordFails(d) ==
    /\ device[d].pc = "record" /\ AccessFault
    /\ Leaves(d)
    /\ UNCHANGED <<roles, factor, minute, acts, entries, lost, roleChanges>>

\* The handler panics when its statement is done (the audit middleware does not
\* defer its entry), or the process dies.
HandlerDies(d) ==
    LET u == device[d].user IN
    /\ device[d].pc = "handle" /\ device[d].role \in device[d].area /\ AccessFault
    /\ acts' = Count(acts, u, "done")
    /\ Leaves(d)
    /\ UNCHANGED <<roles, factor, minute, entries, lost, roleChanges>>

TimePasses ==
    /\ minute < MaxMinutes
    /\ \A d \in Devices : device[d].pc # "idle" => minute - device[d].began < RequestTime
    /\ minute' = minute + 1
    /\ UNCHANGED <<roles, factor, device, acts, entries, lost, roleChanges, afaults>>

AccessNext ==
    \/ \E d \in Devices :
          \/ \E u \in Staff : LogIn(d, u)
          \/ \E a \in Areas : Auth(d, a)
          \/ \E o \in Outcomes : Handle(d, o)
          \/ RefreshAccess(d) \/ GenerateTokenPair(d) \/ RequireStaff2FA(d) \/ Record(d)
          \/ ClientGone(d) \/ RecordFails(d) \/ HandlerDies(d)
    \/ \E u \in Staff : SetFactor(u) \/ \E r \in AccessRoles : SetRole(u, r)
    \/ TimePasses

AccessSpec == AccessInit /\ [][AccessNext]_accessVars

-----------------------------------------------------------------------------
(* Properties                                                              *)

AccessTypeOK ==
    /\ roles \in [Staff -> AccessRoles] /\ factor \in [Staff -> BOOLEAN]
    /\ device \in [Devices -> DeviceStates] /\ minute \in 0..MaxMinutes
    /\ acts \in [Staff -> [Outcomes -> Nat]]
    /\ entries \in [Staff -> [Outcomes -> Nat]]
    /\ lost \in [Staff -> [AccessRoles -> Never..MaxMinutes]]
    /\ roleChanges \in 0..MaxRoleChanges /\ afaults \in 0..MaxAccessFaults

\* The role lives in the token and nobody takes tokens back, so a demotion takes a
\* while; but however often the session is refreshed, nobody changes anything behind
\* the gate with a role lost longer ago than a token's life and the two requests that
\* issue and use it.
DemotionTakesHold ==
    [][\A d \in Devices :
        (/\ device[d].pc = "handle" /\ device'[d] # device[d]
         /\ acts'[device[d].user].done > acts[device[d].user].done) =>
            \E r \in device[d].area :
                \/ roles[device[d].user] = r
                \/ minute - lost[device[d].user][r] < AccessTtl + 2 * RequestTime]_accessVars

\* Mutations leave their trace: what happened behind the gate is in the log with its
\* actor and outcome or about to be, clients hanging up included; only a failed
\* insert, a panic or a crash in between loses an entry.
AuditMissesNothing ==
    afaults = 0 => \A u \in Staff, o \in Outcomes :
        acts[u][o] = entries[u][o] +
            Cardinality({d \in Devices : /\ device[d].pc = "record"
                                         /\ device[d].user = u /\ device[d].outcome = o})
=============================================================================
