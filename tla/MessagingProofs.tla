--------------------------- MODULE MessagingProofs ---------------------------
(***************************************************************************)
(* A confirmed payment message is never lost, the queue and its consumers    *)
(* keep the safety half of what AtLeastOnce promises, and repeated mails and *)
(* dead letters are paid for by faults: for any number of messages,          *)
(* processes, attempts and faults.                                           *)
(***************************************************************************)
EXTENDS Messaging, FiniteSetTheorems, TLAPS

-----------------------------------------------------------------------------
(* The inductive invariant                                                 *)

\* An attempt to publish that is under way is one of those allowed.
AttemptLeft(e) == pub[e].st \in {"try", "sent", "stored", "cut"} => pub[e].tries < MaxPublishes

\* A consumer works on a message or on none, retries only while attempts are
\* left, and acknowledges only what has been mailed.
Dispatching == {"handling", "backoff", "ack", "reject"}
Sound(p) ==
    /\ cons[p].pc \in Dispatching <=> cons[p].msg \in Events
    /\ cons[p].pc = "backoff" => cons[p].attempt < MaxAttempts
    /\ cons[p].pc = "ack" => emails[cons[p].msg] > 0

TypeInv == TypeOK /\ (\A e \in Events : AttemptLeft(e)) /\ (\A p \in Processes : Sound(p))

\* What the broker confirmed or is about to, and what a consumer was handed,
\* also over a channel that is gone by now, is still somewhere or was mailed.
Traced ==
    /\ \A e \in Events : pub[e].st \in {"stored", "confirmed"} => e \in Kept
    /\ \A p \in Processes : cons[p].msg \in Events => cons[p].msg \in Kept

-----------------------------------------------------------------------------
(* Types                                                                   *)

\* An attempt to publish ends with a call of the right type and a legal count.
LEMMA AttemptFailedOK ==
    ASSUME TypeInv, NEW e \in Events, AttemptFailed(e),
           pub[e].st \in {"try", "sent", "stored", "cut"}
    PROVE  /\ pub' \in [Events -> Calls]
           /\ \A f \in Events : AttemptLeft(f)'
           /\ \A f \in Events : pub'[f].st \in {"stored", "confirmed"} => pub'[f].st = pub[f].st
<1> DEFINE n == pub[e].tries + 1
           s == IF n = MaxPublishes THEN "given_up" ELSE "try"
           c == [pub[e] EXCEPT !.tries = n, !.st = s]
<1>1. pub \in [Events -> Calls] /\ pub[e] \in Calls /\ pub[e].tries < MaxPublishes
  BY DEF TypeInv, TypeOK, AttemptLeft
<1>2. n \in 0..MaxPublishes /\ pub[e].by \in Processes \cup {None}
  BY <1>1, MessagingAssumption DEF Calls
<1>3. s \in PubStates /\ (s = "given_up" \/ (s = "try" /\ n < MaxPublishes))
  BY <1>2, MessagingAssumption DEF PubStates
<1> HIDE DEF s, n
<1>4. c \in Calls
  BY <1>1, <1>2, <1>3 DEF Calls
<1>5. pub' = [pub EXCEPT ![e] = c]
  BY <1>1 DEF AttemptFailed, Calls, s, n
<1>6. c.st = s /\ c.tries = n
  BY <1>1 DEF Calls
<1> HIDE DEF c
<1>7. pub' \in [Events -> Calls] /\ \A f \in Events : pub'[f] = IF f = e THEN c ELSE pub[f]
  BY <1>1, <1>4, <1>5
<1> QED
  BY <1>3, <1>6, <1>7 DEF TypeInv, AttemptLeft

\* What a consumer may become, whichever of its steps it takes.
LEMMA ConsumerOK ==
    ASSUME TypeInv, NEW p \in Processes, NEW c \in Consumers,
           cons' = [cons EXCEPT ![p] = c],
           emails' \in [Events -> Nat], \A e \in Events : emails'[e] >= emails[e],
           c.pc \in Dispatching <=> c.msg \in Events,
           c.pc = "backoff" => c.attempt < MaxAttempts,
           c.pc = "ack" => emails'[c.msg] > 0
    PROVE  cons' \in [Processes -> Consumers] /\ \A q \in Processes : Sound(q)'
<1>1. /\ cons \in [Processes -> Consumers] /\ emails \in [Events -> Nat]
      /\ \A q \in Processes : Sound(q)
  BY DEF TypeInv, TypeOK
<1>2. /\ cons' \in [Processes -> Consumers]
      /\ \A q \in Processes : cons'[q] = IF q = p THEN c ELSE cons[q]
  BY <1>1
<1>3. ASSUME NEW q \in Processes PROVE Sound(q)'
  <2>1. CASE q = p
    BY <1>2, <2>1 DEF Sound
  <2>2. CASE q # p
    <3>1. cons'[q] = cons[q]
      BY <1>2, <2>2
    <3>2. cons[q].pc = "ack" => cons[q].msg \in Events /\ emails[cons[q].msg] > 0
      BY <1>1 DEF Sound, Dispatching
    <3>3. cons[q].pc = "ack" => emails'[cons[q].msg] > 0
      <4>1. SUFFICES ASSUME cons[q].pc = "ack" PROVE emails'[cons[q].msg] > 0
        OBVIOUS
      <4>2. PICK m \in Events : m = cons[q].msg
        BY <3>2, <4>1
      <4> QED
        BY <1>1, <3>2, <4>1, <4>2
    <3> QED
      BY <1>1, <3>1, <3>3 DEF Sound
  <2> QED
    BY <2>1, <2>2
<1> QED
  BY <1>2, <1>3

\* The same for the calls that publish.
LEMMA CallOK ==
    ASSUME TypeInv, NEW e \in Events, NEW c \in Calls, pub' = [pub EXCEPT ![e] = c],
           c.st \in {"try", "sent", "stored", "cut"} => c.tries < MaxPublishes
    PROVE  pub' \in [Events -> Calls] /\ \A f \in Events : AttemptLeft(f)'
<1>1. pub \in [Events -> Calls] /\ \A f \in Events : AttemptLeft(f)
  BY DEF TypeInv, TypeOK
<1> QED
  BY <1>1 DEF AttemptLeft

\* Whoever loses a channel, its message is queued again.
LEMMA RequeueOK ==
    ASSUME TypeInv, NEW p \in Processes, Requeue(p)
    PROVE  /\ ready' \in [Events -> Nat]
           /\ \A e \in Events : ready'[e] > 0 <=>
                  ready[e] > 0 \/ (cons[p].live /\ cons[p].msg = e)
<1>1. /\ ready \in [Events -> Nat] /\ cons[p] \in Consumers
      /\ None \notin Events
  BY MessagingAssumption DEF TypeInv, TypeOK
<1>2. cons[p].msg \in Events \cup {None}
  BY <1>1 DEF Consumers
<1>3. CASE cons[p].live /\ cons[p].msg # None
  BY <1>1, <1>2, <1>3 DEF Requeue
<1>4. CASE ~(cons[p].live /\ cons[p].msg # None)
  BY <1>1, <1>4 DEF Requeue
<1> QED
  BY <1>3, <1>4

\* A settled delivery, or an opened or closed consumer, leaves no message in hand.
LEMMA Freed ==
    ASSUME TypeInv, NEW p \in Processes, Dispatched(p) \/ OpenConsumer(p) \/ CloseConsumer(p)
    PROVE  \E c \in Consumers : /\ cons' = [cons EXCEPT ![p] = c]
                                /\ c.msg = None /\ c.pc \in {"open", "closed"}
<1>1. cons[p] \in Consumers
  BY DEF TypeInv, TypeOK
<1>2. Closed \in Consumers /\ Closed.msg = None /\ Closed.pc = "closed"
  BY MessagingAssumption DEF Closed, Consumers
<1>3. ASSUME NEW l \in BOOLEAN
      PROVE  /\ [Closed EXCEPT !.pc = "open", !.live = l] \in Consumers
             /\ [Closed EXCEPT !.pc = "open", !.live = l].msg = None
             /\ [Closed EXCEPT !.pc = "open", !.live = l].pc = "open"
  BY <1>2 DEF Consumers
<1>4. CASE Dispatched(p)
  <2> DEFINE c == [Closed EXCEPT !.pc = "open", !.live = cons[p].live]
  <2>1. c \in Consumers /\ c.msg = None /\ c.pc = "open"
    BY <1>1, <1>3 DEF Consumers
  <2>2. cons' = [cons EXCEPT ![p] = c]
    BY <1>4 DEF Dispatched
  <2> HIDE DEF c
  <2> QED
    BY <2>1, <2>2
<1>5. CASE OpenConsumer(p)
  <2>1. Consuming \in Consumers /\ Consuming.msg = None /\ Consuming.pc = "open"
    BY <1>3 DEF Consuming
  <2> QED
    BY <1>5, <2>1 DEF OpenConsumer
<1>6. CASE CloseConsumer(p)
  BY <1>2, <1>6 DEF CloseConsumer
<1> QED
  BY <1>4, <1>5, <1>6

-----------------------------------------------------------------------------
(* Steps of a publish                                                      *)

\* A step of publishWithRetry, or of the broker that answers it, keeps the types.
LEMMA PublishTypes ==
    ASSUME TypeInv, NEW e \in Events,
           (\E p \in Processes : Publish(e, p)) \/ Publishing(e) \/ ConfirmLost(e)
    PROVE  TypeInv'
<1> DEFINE Typed == pub' \in [Events -> Calls] /\ \A f \in Events : AttemptLeft(f)'
<1>1. /\ TypeOK /\ pub \in [Events -> Calls] /\ pub[e] \in Calls
      /\ \A p \in Processes : Sound(p)
      /\ \A f \in Events : AttemptLeft(f)
  BY DEF TypeInv, TypeOK
<1>2. UNCHANGED <<dead, life, conn, cons, emails, stops>>
  BY DEF Publish, Publishing, PublishNotConnected, PublishSend, BrokerStores, PublishConfirmed,
         ConfirmCut, ConfirmLost, Fault, queueVars, bounds
<1>3. \A p \in Processes : Sound(p)'
  BY <1>1, <1>2 DEF Sound
<1>4. faults' \in 0..MaxFaults
  BY <1>1, MessagingAssumption DEF TypeOK, Publish, Publishing, PublishNotConnected, PublishSend,
         BrokerStores, PublishConfirmed, ConfirmCut, ConfirmLost, Fault, bounds
<1>5. ready' \in [Events -> Nat]
  BY <1>1 DEF TypeOK, Publish, Publishing, PublishNotConnected, PublishSend,
         BrokerStores, Enqueue, PublishConfirmed, ConfirmCut, ConfirmLost, queueVars
<1>6. Typed
  <2>1. ASSUME NEW p \in Processes, Publish(e, p) PROVE Typed
    <3> DEFINE c == [st |-> "try", tries |-> 0, by |-> p]
    <3>1. c \in Calls /\ c.tries < MaxPublishes
      BY MessagingAssumption DEF Calls, PubStates
    <3> QED
      BY <2>1, <3>1, CallOK DEF Publish
  <2>2. ASSUME NEW s \in {"sent", "stored", "confirmed"}, pub' = [pub EXCEPT ![e].st = s],
               pub[e].st \in {"try", "sent", "stored"}
        PROVE  Typed
    <3> DEFINE c == [pub[e] EXCEPT !.st = s]
    <3>1. c \in Calls /\ c.tries = pub[e].tries
      BY <1>1, <2>2 DEF Calls, PubStates
    <3>2. pub' = [pub EXCEPT ![e] = c]
      BY <1>1, <2>2
    <3>3. c.tries < MaxPublishes
      BY <1>1, <2>2, <3>1 DEF AttemptLeft
    <3> HIDE DEF c
    <3> QED
      BY <3>1, <3>2, <3>3, CallOK
  <2>3. CASE AttemptFailed(e) /\ pub[e].st \in {"try", "sent", "stored", "cut"}
    BY <2>3, AttemptFailedOK
  <2>4. CASE PublishSend(e) \/ BrokerStores(e) \/ PublishConfirmed(e)
    BY <2>2, <2>4 DEF PublishSend, BrokerStores, PublishConfirmed
  <2>5. CASE PublishNotConnected(e) \/ ConfirmCut(e) \/ ConfirmLost(e)
    BY <2>3, <2>5 DEF PublishNotConnected, ConfirmCut, ConfirmLost
  <2> QED
    BY <2>1, <2>4, <2>5 DEF Publishing
<1> QED
  BY <1>1, <1>2, <1>3, <1>4, <1>5, <1>6 DEF TypeInv, TypeOK

-----------------------------------------------------------------------------
(* Steps of a consumer                                                     *)

\* A step of a consumer keeps the types.
LEMMA ConsumerTypes ==
    ASSUME TypeInv, NEW p \in Processes,
           Working(p) \/ \E gone \in BOOLEAN : HandleFails(p, gone)
    PROVE  TypeInv'
<1> DEFINE Typed == cons' \in [Processes -> Consumers] /\ \A q \in Processes : Sound(q)'
           More == emails' \in [Events -> Nat] /\ \A e \in Events : emails'[e] >= emails[e]
           m == cons[p].msg
<1>1. /\ TypeOK /\ cons \in [Processes -> Consumers] /\ cons[p] \in Consumers
      /\ emails \in [Events -> Nat] /\ ready \in [Events -> Nat] /\ dead \in [Events -> Nat]
      /\ \A e \in Events : AttemptLeft(e)
      /\ Sound(p)
  BY DEF TypeInv, TypeOK
<1>2. UNCHANGED <<pub, life, conn, stops>>
  BY DEF Working, HandleSends, HandleCancelled, BackoffOver, BackoffStopped, Ack, Reject,
         CloseConsumer, OpenConsumer, Deliver, HandleFails, Fault, bounds
<1>3. \A e \in Events : AttemptLeft(e)'
  BY <1>1, <1>2 DEF AttemptLeft
<1>4. faults' \in 0..MaxFaults
  <2>1. UNCHANGED faults \/ (faults < MaxFaults /\ faults' = faults + 1)
    BY DEF Working, HandleSends, HandleCancelled, BackoffOver, BackoffStopped, Ack, Reject,
           CloseConsumer, OpenConsumer, Deliver, HandleFails, Fault, bounds
  <2> QED
    BY <1>1, <2>1, MessagingAssumption DEF TypeOK
<1>5. cons[p].pc \in Dispatching => m \in Events
  BY <1>1 DEF Sound
<1>6. ready' \in [Events -> Nat]
  <2>1. CASE \E e \in Events : Deliver(p, e)
    BY <1>1, <2>1 DEF Deliver
  <2>2. CASE BackoffStopped(p)
    BY <2>2, RequeueOK DEF BackoffStopped
  <2>3. CASE UNCHANGED ready
    BY <1>1, <2>3
  <2> QED
    BY <2>1, <2>2, <2>3 DEF Working, HandleSends, HandleCancelled, BackoffOver, Ack, Reject,
         CloseConsumer, OpenConsumer, HandleFails, queueVars
<1>7. dead' \in [Events -> Nat]
  <2>1. CASE Reject(p)
    BY <1>1, <1>5, <2>1 DEF Reject, DeadLetter, Dispatching
  <2>2. CASE UNCHANGED dead
    BY <1>1, <2>2
  <2> QED
    BY <2>1, <2>2 DEF Working, HandleSends, HandleCancelled, BackoffOver, BackoffStopped, Ack,
         Deliver, CloseConsumer, OpenConsumer, HandleFails, queueVars
<1>8. More
  <2>1. CASE cons[p].pc = "handling" /\ emails' = [emails EXCEPT ![m] = @ + 1]
    BY <1>1, <1>5, <2>1 DEF Dispatching
  <2>2. CASE UNCHANGED emails
    BY <1>1, <2>2
  <2>3. ASSUME NEW gone \in BOOLEAN, HandleFails(p, gone) PROVE More
    BY <2>1, <2>2, <2>3 DEF HandleFails
  <2>4. CASE HandleSends(p)
    BY <2>1, <2>4 DEF HandleSends
  <2> QED
    BY <2>2, <2>3, <2>4 DEF Working, HandleCancelled, BackoffOver, BackoffStopped, Ack,
         Reject, Deliver, CloseConsumer, OpenConsumer
<1>9. Typed
  <2>1. CASE Dispatched(p) \/ OpenConsumer(p) \/ CloseConsumer(p)
    <3>1. PICK c \in Consumers : /\ cons' = [cons EXCEPT ![p] = c]
                                 /\ c.msg = None /\ c.pc \in {"open", "closed"}
      BY <2>1, Freed
    <3>2. c.pc \notin Dispatching /\ c.msg \notin Events /\ c.pc # "backoff" /\ c.pc # "ack"
      BY <3>1, MessagingAssumption DEF Dispatching
    <3> QED
      BY <1>8, <3>1, <3>2, ConsumerOK
  <2>2. ASSUME cons[p].pc \in Dispatching, NEW pc \in {"backoff", "ack", "reject"},
               cons' = [cons EXCEPT ![p].pc = pc],
               pc = "backoff" => cons[p].attempt < MaxAttempts,
               pc = "ack" => emails'[m] > 0
        PROVE  Typed
    <3> DEFINE c == [cons[p] EXCEPT !.pc = pc]
    <3>1. c \in Consumers /\ c.pc = pc /\ c.msg = m /\ c.attempt = cons[p].attempt
      BY <1>1 DEF Consumers
    <3>2. cons' = [cons EXCEPT ![p] = c]
      BY <1>1, <2>2
    <3>3. c.pc \in Dispatching /\ c.msg \in Events
      BY <1>5, <2>2, <3>1 DEF Dispatching
    <3> HIDE DEF c
    <3> QED
      BY <1>8, <2>2, <3>1, <3>2, <3>3, ConsumerOK
  <2>3. CASE HandleSends(p)
    <3>1. emails'[m] > 0
      BY <1>1, <1>5, <2>3 DEF HandleSends, Dispatching
    <3> QED
      BY <2>2, <2>3, <3>1 DEF HandleSends, Dispatching
  <2>4. CASE HandleCancelled(p) \/ \E gone \in BOOLEAN : HandleFails(p, gone)
    <3> DEFINE pc == IF cons[p].attempt < MaxAttempts THEN "backoff" ELSE "reject"
    <3>1. cons' = [cons EXCEPT ![p].pc = pc] /\ cons[p].pc = "handling"
      BY <2>4 DEF HandleCancelled, HandleFails, NextAttempt
    <3>2. /\ pc \in {"backoff", "ack", "reject"} /\ pc # "ack"
          /\ pc = "backoff" => cons[p].attempt < MaxAttempts
      OBVIOUS
    <3> HIDE DEF pc
    <3> QED
      BY <2>2, <3>1, <3>2 DEF Dispatching
  <2>5. CASE BackoffOver(p)
    <3> DEFINE c == [cons[p] EXCEPT !.pc = "handling", !.attempt = cons[p].attempt + 1]
    <3>1. cons[p].attempt \in 0..MaxAttempts /\ cons[p].attempt < MaxAttempts
      BY <1>1, <2>5 DEF BackoffOver, Sound, Consumers
    <3>2. cons[p].attempt + 1 \in 0..MaxAttempts
      BY <3>1, MessagingAssumption
    <3>3. c \in Consumers /\ c.pc = "handling" /\ c.msg = m
      BY <1>1, <3>2 DEF Consumers
    <3>4. cons' = [cons EXCEPT ![p] = c]
      BY <1>1, <2>5 DEF BackoffOver
    <3>5. c.pc \in Dispatching /\ c.msg \in Events
      BY <1>5, <2>5, <3>3 DEF BackoffOver, Dispatching
    <3> HIDE DEF c
    <3> QED
      BY <1>8, <3>3, <3>4, <3>5, ConsumerOK
  <2>6. CASE BackoffStopped(p) \/ Ack(p) \/ Reject(p)
    BY <2>1, <2>6 DEF BackoffStopped, Ack, Reject
  <2>7. CASE OpenConsumer(p) \/ CloseConsumer(p)
    BY <2>1, <2>7
  <2>8. ASSUME NEW e \in Events, Deliver(p, e) PROVE Typed
    <3> DEFINE c == [cons[p] EXCEPT !.pc = "handling", !.msg = e, !.attempt = 1]
    <3>0. 1 \in 0..MaxAttempts
      BY MessagingAssumption
    <3>1. c \in Consumers /\ c.pc = "handling" /\ c.msg = e
      BY <1>1, <3>0 DEF Consumers
    <3>2. cons' = [cons EXCEPT ![p] = c]
      BY <1>1, <2>8 DEF Deliver
    <3>3. c.pc \in Dispatching
      BY <3>1 DEF Dispatching
    <3> HIDE DEF c
    <3> QED
      BY <1>8, <3>1, <3>2, <3>3, ConsumerOK
  <2> QED
    BY <2>3, <2>4, <2>5, <2>6, <2>7, <2>8 DEF Working
<1> QED
  BY <1>1, <1>2, <1>3, <1>4, <1>6, <1>7, <1>8, <1>9 DEF TypeInv, TypeOK

-----------------------------------------------------------------------------
(* Connections and processes                                               *)

\* A connection, a channel or a process that comes or goes keeps the types.
LEMMA ProcessTypes ==
    ASSUME TypeInv, NEW p \in Processes,
           Recovering(p) \/ ConnectionLost(p) \/ ChannelLost(p) \/ Crash(p) \/ Stop(p)
    PROVE  TypeInv'
<1> DEFINE TypedCalls == pub' \in [Events -> Calls] /\ \A e \in Events : AttemptLeft(e)'
           TypedConsumers == cons' \in [Processes -> Consumers] /\ \A q \in Processes : Sound(q)'
<1>1. /\ TypeOK /\ cons \in [Processes -> Consumers] /\ cons[p] \in Consumers
      /\ emails \in [Events -> Nat] /\ ready \in [Events -> Nat]
      /\ pub \in [Events -> Calls]
      /\ \A e \in Events : AttemptLeft(e)
      /\ \A q \in Processes : Sound(q)
  BY DEF TypeInv, TypeOK
<1>2. UNCHANGED <<dead, emails>>
  BY DEF Recovering, Reconnect, Restart, Exit, ConnectionLost, ChannelLost, Crash, Stop, queueVars
<1>3. /\ life' \in [Processes -> {"running", "stopping", "down"}]
      /\ conn' \in [Processes -> {"open", "lost", "closed"}]
  BY <1>1 DEF TypeOK, Recovering, Reconnect, Restart, Exit, Down, ConnectionLost, ChannelLost,
              Crash, Stop
<1>4. faults' \in 0..MaxFaults /\ stops' \in 0..MaxStops
  <2>1. /\ UNCHANGED faults \/ (faults < MaxFaults /\ faults' = faults + 1)
        /\ UNCHANGED stops \/ (stops < MaxStops /\ stops' = stops + 1)
    BY DEF Recovering, Reconnect, Restart, Exit, ConnectionLost, ChannelLost, Crash, Stop, Fault, bounds
  <2> QED
    BY <1>1, <2>1, MessagingAssumption DEF TypeOK
<1>5. ready' \in [Events -> Nat]
  <2>1. CASE ConnectionLost(p) \/ ChannelLost(p) \/ Crash(p)
    BY <2>1, RequeueOK DEF ConnectionLost, ChannelLost, Crash
  <2>2. CASE Recovering(p) \/ Stop(p)
    BY <1>1, <2>2 DEF Recovering, Reconnect, Restart, Exit, Stop, queueVars
  <2> QED
    BY <2>1, <2>2
<1>6. TypedCalls
  <2>1. ASSUME NEW s \in {"cut", "given_up"}, NEW S \in SUBSET Events,
               \A e \in S : pub[e].st \in {"try", "sent", "stored", "cut"},
               pub' = [e \in Events |-> IF e \in S THEN [pub[e] EXCEPT !.st = s] ELSE pub[e]]
        PROVE  TypedCalls
    <3>1. ASSUME NEW e \in S
          PROVE  LET c == [pub[e] EXCEPT !.st = s]
                 IN  c \in Calls /\ c.tries = pub[e].tries
      BY <1>1, <2>1 DEF Calls, PubStates
    <3>2. \A e \in S : pub'[e] \in Calls /\ pub'[e].tries = pub[e].tries
      BY <2>1, <3>1
    <3>3. \A e \in Events \ S : pub'[e] = pub[e]
      BY <2>1
    <3>4. pub' \in [Events -> Calls]
      BY <1>1, <2>1, <3>1
    <3> QED
      BY <1>1, <2>1, <3>2, <3>3, <3>4 DEF AttemptLeft
  <2>2. CASE ConnectionLost(p)
    <3> DEFINE S == {e \in Events : Waiting(e, p)}
    <3>1. pub' = [e \in Events |-> IF e \in S THEN [pub[e] EXCEPT !.st = "cut"] ELSE pub[e]]
      BY <2>2 DEF ConnectionLost
    <3>2. \A e \in S : pub[e].st \in {"try", "sent", "stored", "cut"}
      BY DEF Waiting
    <3> HIDE DEF S
    <3> QED
      BY <2>1, <3>1, <3>2 DEF S
  <2>3. CASE Crash(p)
    <3> DEFINE S == {e \in Events : InFlight(e, p)}
    <3>1. pub' = [e \in Events |-> IF e \in S THEN [pub[e] EXCEPT !.st = "given_up"] ELSE pub[e]]
      BY <2>3 DEF Crash
    <3>2. \A e \in S : pub[e].st \in {"try", "sent", "stored", "cut"}
      BY DEF InFlight
    <3> HIDE DEF S
    <3> QED
      BY <2>1, <3>1, <3>2 DEF S
  <2>4. CASE UNCHANGED pub
    BY <1>1, <2>4 DEF AttemptLeft
  <2> QED
    BY <2>2, <2>3, <2>4 DEF Recovering, Reconnect, Restart, Exit, ChannelLost, Stop
<1>7. TypedConsumers
  <2>1. emails' \in [Events -> Nat] /\ \A e \in Events : emails'[e] >= emails[e]
    BY <1>1, <1>2
  <2>2. CASE ConnectionLost(p) \/ ChannelLost(p)
    <3> DEFINE c == [cons[p] EXCEPT !.live = FALSE]
    <3>1. /\ c \in Consumers /\ c.pc = cons[p].pc /\ c.msg = cons[p].msg
          /\ c.attempt = cons[p].attempt
      BY <1>1 DEF Consumers
    <3>2. cons' = [cons EXCEPT ![p] = c]
      BY <1>1, <2>2 DEF ConnectionLost, ChannelLost, Unplug
    <3> HIDE DEF c
    <3>3. /\ c.pc \in Dispatching <=> c.msg \in Events
          /\ c.pc = "backoff" => c.attempt < MaxAttempts
          /\ c.pc = "ack" => emails'[c.msg] > 0
      BY <1>1, <1>2, <3>1 DEF Sound
    <3> QED
      BY <2>1, <3>1, <3>2, <3>3, ConsumerOK
  <2>3. CASE Crash(p)
    <3>1. /\ Closed \in Consumers /\ Closed.pc \notin Dispatching /\ Closed.msg \notin Events
          /\ Closed.pc # "backoff" /\ Closed.pc # "ack"
      BY MessagingAssumption DEF Closed, Consumers, Dispatching
    <3>2. cons' = [cons EXCEPT ![p] = Closed]
      BY <2>3 DEF Crash
    <3> QED
      BY <2>1, <3>1, <3>2, ConsumerOK
  <2>4. CASE UNCHANGED cons
    BY <1>1, <1>2, <2>4 DEF Sound
  <2> QED
    BY <2>2, <2>3, <2>4 DEF Recovering, Reconnect, Restart, Exit, Stop
<1> QED
  BY <1>1, <1>2, <1>3, <1>4, <1>5, <1>6, <1>7 DEF TypeInv, TypeOK

LEMMA TypesStand == ASSUME TypeInv, [Next]_vars PROVE TypeInv'
<1>1. CASE UNCHANGED vars
  BY <1>1 DEF vars, TypeInv, TypeOK, AttemptLeft, Sound
<1>2. ASSUME NEW p \in Processes, Failing(p) PROVE TypeInv'
  BY <1>2, ConsumerTypes, ProcessTypes DEF Failing
<1> QED
  BY <1>1, <1>2, PublishTypes, ConsumerTypes, ProcessTypes DEF Next

LEMMA TypesAtStart == Init => TypeInv
<1> SUFFICES ASSUME Init PROVE TypeInv
  OBVIOUS
<1>1. pub \in [Events -> Calls] /\ \A e \in Events : AttemptLeft(e)
  <2> DEFINE c == [st |-> "new", tries |-> 0, by |-> None]
  <2>1. c \in Calls /\ c.st = "new"
    BY MessagingAssumption DEF Calls, PubStates
  <2>2. pub = [e \in Events |-> c]
    BY DEF Init
  <2> HIDE DEF c
  <2> QED
    BY <2>1, <2>2 DEF AttemptLeft
<1>2. cons \in [Processes -> Consumers] /\ \A p \in Processes : Sound(p)
  <2>1. /\ Closed \in Consumers /\ Closed.pc \notin Dispatching /\ Closed.msg \notin Events
        /\ Closed.pc # "backoff" /\ Closed.pc # "ack"
    BY MessagingAssumption DEF Closed, Consumers, Dispatching
  <2> QED
    BY <2>1 DEF Init, Sound
<1> QED
  BY <1>1, <1>2, MessagingAssumption DEF TypeInv, TypeOK, Init

\* No publish, delivery, mail, crash or lost connection takes a variable of the
\* messaging system out of its type.
THEOREM QueueTypeCorrect == Spec => []TypeOK
<1>1. TypeInv => TypeOK
  BY DEF TypeInv
<1> QED
  BY <1>1, TypesAtStart, TypesStand, PTL DEF Spec

-----------------------------------------------------------------------------
(* What is kept and what is handled                                        *)

\* Holds, when only p's consumer has changed.
LEMMA HeldByOne ==
    ASSUME TypeInv, NEW p \in Processes, NEW e \in Events, NEW c \in Consumers,
           cons' = [cons EXCEPT ![p] = c]
    PROVE  LET others == \E q \in Processes \ {p} : cons[q].msg = e /\ cons[q].live IN
           /\ Holds(e) <=> ready[e] > 0 \/ dead[e] > 0 \/ others \/ (cons[p].msg = e /\ cons[p].live)
           /\ Holds(e)' <=> ready'[e] > 0 \/ dead'[e] > 0 \/ others \/ (c.msg = e /\ c.live)
<1>1. cons \in [Processes -> Consumers]
  BY DEF TypeInv, TypeOK
<1>2. cons'[p] = c /\ \A q \in Processes \ {p} : cons'[q] = cons[q]
  BY <1>1
<1> QED
  BY <1>2 DEF Holds

\* A step of a publish, other than the broker's, moves no copy.
LEMMA PublishKeeps ==
    ASSUME NEW e \in Events,
           \/ \E p \in Processes : Publish(e, p)
           \/ PublishNotConnected(e) \/ PublishSend(e) \/ PublishConfirmed(e)
           \/ ConfirmCut(e) \/ ConfirmLost(e)
    PROVE  Kept' = Kept /\ Handled' = Handled /\ UNCHANGED cons
<1>1. UNCHANGED <<ready, dead, cons, emails>>
  BY DEF Publish, PublishNotConnected, PublishSend, PublishConfirmed, ConfirmCut, ConfirmLost, queueVars
<1> QED
  BY <1>1 DEF Kept, Handled, Holds

\* The broker takes one message.
LEMMA StoresOne ==
    ASSUME TypeInv, NEW e \in Events, BrokerStores(e)
    PROVE  Kept' = Kept \cup {e} /\ Handled' = Handled /\ UNCHANGED cons
<1>1. ready \in [Events -> Nat]
  BY DEF TypeInv, TypeOK
<1>2. /\ UNCHANGED <<dead, cons, emails>>
      /\ ready'[e] > 0 /\ \A f \in Events \ {e} : ready'[f] = ready[f]
  BY <1>1 DEF BrokerStores, Enqueue
<1> QED
  BY <1>2 DEF Kept, Handled, Holds

\* Only p's consumer changes, and with its copy and the queues no message comes
\* or goes.
LEMMA SameCopies ==
    ASSUME TypeInv, NEW p \in Processes, NEW c \in Consumers,
           cons' = [cons EXCEPT ![p] = c],
           \A e \in Events :
               (ready'[e] > 0 \/ dead'[e] > 0 \/ (c.msg = e /\ c.live) \/ emails'[e] > 0)
               <=> (ready[e] > 0 \/ dead[e] > 0 \/ (cons[p].msg = e /\ cons[p].live) \/ emails[e] > 0)
    PROVE  Kept' = Kept
<1>1. ASSUME NEW e \in Events
      PROVE  (Holds(e)' \/ emails'[e] > 0) <=> (Holds(e) \/ emails[e] > 0)
  BY HeldByOne
<1> QED
  BY <1>1 DEF Kept

\* A consumer's message stays what it is, is settled, or comes from the queue.
LEMMA SameTrace ==
    ASSUME TypeInv, Traced, Kept' = Kept, NEW p \in Processes, NEW c \in Consumers,
           cons' = [cons EXCEPT ![p] = c],
           c.msg = cons[p].msg \/ c.msg \notin Events \/ c.msg \in Kept
    PROVE  \A q \in Processes : cons'[q].msg \in Events => cons'[q].msg \in Kept'
<1>1. cons \in [Processes -> Consumers]
  BY DEF TypeInv, TypeOK
<1>2. cons'[p] = c /\ \A q \in Processes \ {p} : cons'[q] = cons[q]
  BY <1>1
<1> QED
  BY <1>2 DEF Traced

\* What a consumer does to the promise: it handles a message that is kept, or
\* changes nothing.
LEMMA ConsumerKeeps ==
    ASSUME TypeInv, Traced, NEW p \in Processes,
           Working(p) \/ \E gone \in BOOLEAN : HandleFails(p, gone)
    PROVE  /\ Kept' = Kept
           /\ Handled' = Handled \/ \E e \in Kept : Handled' = Handled \cup {e}
           /\ \A q \in Processes : cons'[q].msg \in Events => cons'[q].msg \in Kept'
<1> DEFINE m == cons[p].msg
           Promised == /\ Kept' = Kept
                       /\ Handled' = Handled \/ \E e \in Kept : Handled' = Handled \cup {e}
                       /\ \A q \in Processes : cons'[q].msg \in Events => cons'[q].msg \in Kept'
<1>1. /\ cons \in [Processes -> Consumers] /\ cons[p] \in Consumers
      /\ emails \in [Events -> Nat] /\ ready \in [Events -> Nat] /\ dead \in [Events -> Nat]
      /\ Sound(p)
      /\ m \in Events => m \in Kept
  BY DEF TypeInv, TypeOK, Traced
<1>2. /\ cons[p].pc \in Dispatching => m \in Events
      /\ cons[p].pc \in {"open", "closed"} => m \notin Events
  BY <1>1 DEF Sound, Dispatching
<1>3. TypeInv'
  BY ConsumerTypes
<1>4. cons' \in [Processes -> Consumers]
  BY <1>3 DEF TypeInv, TypeOK
<1>5. ASSUME NEW c \in Consumers, cons' = [cons EXCEPT ![p] = c], c.msg = m, c.live = cons[p].live,
             UNCHANGED <<ready, dead>>,
             UNCHANGED emails \/ (m \in Events /\ emails' = [emails EXCEPT ![m] = @ + 1])
      PROVE  Promised
  <2>1. CASE UNCHANGED emails
    <3>1. Kept' = Kept
      BY <1>5, <2>1, SameCopies
    <3>2. Handled' = Handled
      BY <1>5, <2>1 DEF Handled
    <3> QED
      BY <1>5, <3>1, <3>2, SameTrace
  <2>2. CASE m \in Events /\ emails' = [emails EXCEPT ![m] = @ + 1]
    <3>1. emails'[m] > 0 /\ \A e \in Events \ {m} : emails'[e] = emails[e]
      BY <1>1, <2>2
    <3>2. m \in Kept
      BY <1>1, <2>2
    <3>3. Kept' = Kept
      <4>1. ASSUME NEW e \in Events
            PROVE  (Holds(e)' \/ emails'[e] > 0) <=> (Holds(e) \/ emails[e] > 0)
        <5>1. CASE e = m
          BY <3>1, <3>2, <5>1 DEF Kept
        <5>2. CASE e # m
          BY <1>5, <3>1, <5>2, HeldByOne
        <5> QED
          BY <5>1, <5>2
      <4> QED
        BY <4>1 DEF Kept
    <3>4. Handled' = Handled \cup {m}
      BY <1>5, <2>2, <3>1 DEF Handled
    <3> QED
      BY <1>5, <3>2, <3>3, <3>4, SameTrace
  <2> QED
    BY <1>5, <2>1, <2>2
<1>6. ASSUME NEW pc \in {"backoff", "ack", "reject"}, cons' = [cons EXCEPT ![p].pc = pc],
             UNCHANGED <<ready, dead>>,
             UNCHANGED emails \/ (m \in Events /\ emails' = [emails EXCEPT ![m] = @ + 1])
      PROVE  Promised
  <2> DEFINE c == [cons[p] EXCEPT !.pc = pc]
  <2>1. c \in Consumers /\ c.msg = m /\ c.live = cons[p].live
    BY <1>1 DEF Consumers
  <2>2. cons' = [cons EXCEPT ![p] = c]
    BY <1>1, <1>6
  <2> HIDE DEF c
  <2> QED
    BY <1>5, <1>6, <2>1, <2>2
<1>7. CASE HandleSends(p)
  BY <1>2, <1>6, <1>7 DEF HandleSends, Dispatching, queueVars
<1>8. ASSUME NextAttempt(p), UNCHANGED <<ready, dead>>,
             UNCHANGED emails \/ (m \in Events /\ emails' = [emails EXCEPT ![m] = @ + 1])
      PROVE  Promised
  <2> DEFINE pc == IF cons[p].attempt < MaxAttempts THEN "backoff" ELSE "reject"
  <2>1. cons' = [cons EXCEPT ![p].pc = pc] /\ pc \in {"backoff", "ack", "reject"}
    BY <1>8 DEF NextAttempt
  <2> HIDE DEF pc
  <2> QED
    BY <1>6, <1>8, <2>1
<1>9. ASSUME NEW gone \in BOOLEAN, HandleFails(p, gone) PROVE Promised
  <2>1. UNCHANGED emails \/ (m \in Events /\ emails' = [emails EXCEPT ![m] = @ + 1])
    BY <1>2, <1>9 DEF HandleFails, Dispatching
  <2> QED
    BY <1>8, <1>9, <2>1 DEF HandleFails, queueVars
<1>10. CASE HandleCancelled(p)
  BY <1>8, <1>10 DEF HandleCancelled, queueVars
<1>11. CASE BackoffOver(p)
  <2> DEFINE c == [cons[p] EXCEPT !.pc = "handling", !.attempt = cons[p].attempt + 1]
  <2>1. c.msg = m /\ c.live = cons[p].live
    BY <1>1 DEF Consumers
  <2>2. cons' = [cons EXCEPT ![p] = c]
    BY <1>1, <1>11 DEF BackoffOver
  <2> HIDE DEF c
  <2>3. c \in Consumers
    BY <1>1, <1>4, <2>2
  <2> QED
    BY <1>5, <1>11, <2>1, <2>2, <2>3 DEF BackoffOver, queueVars
<1>12. ASSUME Dispatched(p) \/ OpenConsumer(p) \/ CloseConsumer(p),
              UNCHANGED emails,
              \A e \in Events :
                  (ready'[e] > 0 \/ dead'[e] > 0 \/ emails[e] > 0)
                  <=> (ready[e] > 0 \/ dead[e] > 0 \/ (m = e /\ cons[p].live) \/ emails[e] > 0),
              Handled' = Handled \/ \E e \in Kept : Handled' = Handled \cup {e}
       PROVE  Promised
  <2>1. PICK c \in Consumers : cons' = [cons EXCEPT ![p] = c] /\ c.msg = None
    BY <1>12, Freed
  <2>2. c.msg \notin Events
    BY <2>1, MessagingAssumption
  <2>3. \A e \in Events :
            (ready'[e] > 0 \/ dead'[e] > 0 \/ (c.msg = e /\ c.live) \/ emails'[e] > 0)
            <=> (ready[e] > 0 \/ dead[e] > 0 \/ (m = e /\ cons[p].live) \/ emails[e] > 0)
    BY <1>12, <2>2
  <2>4. Kept' = Kept
    BY <2>1, <2>3, SameCopies
  <2> QED
    BY <1>12, <2>1, <2>2, <2>4, SameTrace
<1>13. CASE BackoffStopped(p)
  <2>1. \A e \in Events : ready'[e] > 0 <=> ready[e] > 0 \/ (cons[p].live /\ m = e)
    BY <1>13, RequeueOK DEF BackoffStopped
  <2>2. Dispatched(p) /\ UNCHANGED <<dead, emails>>
    BY <1>13 DEF BackoffStopped
  <2>3. Handled' = Handled
    BY <2>2 DEF Handled
  <2> QED
    BY <1>12, <2>1, <2>2, <2>3
<1>14. CASE Ack(p)
  <2>1. Dispatched(p) /\ UNCHANGED <<ready, dead, emails>>
    BY <1>14 DEF Ack, queueVars
  <2>2. emails[m] > 0
    BY <1>1, <1>14 DEF Ack, Sound
  <2>3. Handled' = Handled
    BY <2>1 DEF Handled
  <2> QED
    BY <1>12, <2>1, <2>2, <2>3
<1>15. CASE Reject(p)
  <2>1. Dispatched(p) /\ UNCHANGED <<ready, emails>>
    BY <1>15 DEF Reject
  <2>2. m \in Events /\ m \in Kept
    BY <1>1, <1>2, <1>15 DEF Reject, Dispatching
  <2>3. \A e \in Events : dead'[e] > 0 <=> dead[e] > 0 \/ (m = e /\ cons[p].live)
    BY <1>1, <1>15, <2>2 DEF Reject, DeadLetter
  <2>4. Handled' = Handled \/ Handled' = Handled \cup {m}
    <3>1. CASE cons[p].live
      BY <2>1, <2>2, <2>3, <3>1 DEF Handled
    <3>2. CASE ~cons[p].live
      BY <2>1, <2>3, <3>2 DEF Handled
    <3> QED
      BY <3>1, <3>2
  <2> QED
    BY <1>12, <2>1, <2>2, <2>3, <2>4
<1>16. CASE OpenConsumer(p) \/ CloseConsumer(p)
  <2>1. m \notin Events
    BY <1>2, <1>16 DEF OpenConsumer, CloseConsumer
  <2>2. UNCHANGED <<ready, dead, emails>>
    BY <1>16 DEF OpenConsumer, CloseConsumer, queueVars
  <2>3. Handled' = Handled
    BY <2>2 DEF Handled
  <2> QED
    BY <1>12, <1>16, <2>1, <2>2, <2>3
<1>17. ASSUME NEW e \in Events, Deliver(p, e) PROVE Promised
  <2> DEFINE c == [cons[p] EXCEPT !.pc = "handling", !.msg = e, !.attempt = 1]
  <2>1. c.msg = e /\ c.live = cons[p].live /\ cons[p].live
    BY <1>1, <1>17 DEF Consumers, Deliver
  <2>2. cons' = [cons EXCEPT ![p] = c]
    BY <1>1, <1>17 DEF Deliver
  <2> HIDE DEF c
  <2>3. c \in Consumers
    BY <1>1, <1>4, <2>2
  <2>4. /\ ready[e] > 0 /\ \A f \in Events \ {e} : ready'[f] = ready[f]
        /\ UNCHANGED <<dead, emails>> /\ m \notin Events
    BY <1>1, <1>2, <1>17 DEF Deliver
  <2>5. Kept' = Kept
    <3>1. ASSUME NEW f \in Events
          PROVE  (ready'[f] > 0 \/ dead'[f] > 0 \/ (c.msg = f /\ c.live) \/ emails'[f] > 0)
                 <=> (ready[f] > 0 \/ dead[f] > 0 \/ (m = f /\ cons[p].live) \/ emails[f] > 0)
      BY <2>1, <2>4
    <3> QED
      BY <2>2, <2>3, <3>1, SameCopies
  <2>6. Handled' = Handled
    BY <2>4 DEF Handled
  <2>7. e \in Kept
    BY <2>4 DEF Kept, Holds
  <2> QED
    BY <2>1, <2>2, <2>3, <2>5, <2>6, <2>7, SameTrace
<1> QED
  BY <1>7, <1>9, <1>10, <1>11, <1>13, <1>14, <1>15, <1>16, <1>17 DEF Working

\* Connections, channels and processes come and go; the messages stay.
LEMMA ProcessKeeps ==
    ASSUME TypeInv, Traced, NEW p \in Processes,
           Recovering(p) \/ ConnectionLost(p) \/ ChannelLost(p) \/ Crash(p) \/ Stop(p)
    PROVE  /\ Kept' = Kept /\ Handled' = Handled
           /\ \A q \in Processes : cons'[q].msg \in Events => cons'[q].msg \in Kept'
<1>1. cons \in [Processes -> Consumers] /\ cons[p] \in Consumers
  BY DEF TypeInv, TypeOK
<1>2. UNCHANGED <<dead, emails>>
  BY DEF Recovering, Reconnect, Restart, Exit, ConnectionLost, ChannelLost, Crash, Stop, queueVars
<1>3. Handled' = Handled
  BY <1>2 DEF Handled
<1>4. ASSUME Requeue(p), NEW c \in Consumers, cons' = [cons EXCEPT ![p] = c], c.live = FALSE,
             c.msg = cons[p].msg \/ c.msg \notin Events
      PROVE  /\ Kept' = Kept
             /\ \A q \in Processes : cons'[q].msg \in Events => cons'[q].msg \in Kept'
  <2>1. \A e \in Events : ready'[e] > 0 <=> ready[e] > 0 \/ (cons[p].live /\ cons[p].msg = e)
    BY <1>4, RequeueOK
  <2>2. \A e \in Events :
            (ready'[e] > 0 \/ dead'[e] > 0 \/ (c.msg = e /\ c.live) \/ emails'[e] > 0)
            <=> (ready[e] > 0 \/ dead[e] > 0 \/ (cons[p].msg = e /\ cons[p].live) \/ emails[e] > 0)
    BY <1>2, <1>4, <2>1
  <2>3. Kept' = Kept
    BY <1>4, <2>2, SameCopies
  <2> QED
    BY <1>4, <2>3, SameTrace
<1>5. CASE ConnectionLost(p) \/ ChannelLost(p)
  <2> DEFINE c == [cons[p] EXCEPT !.live = FALSE]
  <2>1. c \in Consumers /\ c.live = FALSE /\ c.msg = cons[p].msg
    BY <1>1 DEF Consumers
  <2>2. cons' = [cons EXCEPT ![p] = c]
    BY <1>1, <1>5 DEF ConnectionLost, ChannelLost, Unplug
  <2> HIDE DEF c
  <2> QED
    BY <1>3, <1>4, <1>5, <2>1, <2>2 DEF ConnectionLost, ChannelLost
<1>6. CASE Crash(p)
  <2>1. Closed \in Consumers /\ Closed.live = FALSE /\ Closed.msg \notin Events
    BY MessagingAssumption DEF Closed, Consumers
  <2> QED
    BY <1>3, <1>4, <1>6, <2>1 DEF Crash
<1>7. CASE Recovering(p) \/ Stop(p)
  <2>1. UNCHANGED <<ready, dead, cons, emails>>
    BY <1>7 DEF Recovering, Reconnect, Restart, Exit, Stop, queueVars
  <2>2. Kept' = Kept
    BY <2>1 DEF Kept, Holds
  <2> QED
    BY <1>3, <2>1, <2>2 DEF Traced
<1> QED
  BY <1>5, <1>6, <1>7

\* A call comes to be stored or confirmed by the broker's step only.
LEMMA StoredByBroker ==
    ASSUME TypeInv, Next, NEW e \in Events, pub'[e].st \in {"stored", "confirmed"}
    PROVE  pub[e].st \in {"stored", "confirmed"} \/ BrokerStores(e)
<1>1. pub \in [Events -> Calls] /\ pub[e] \in Calls
  BY DEF TypeInv, TypeOK
<1>2. ASSUME NEW f \in Events, NEW p \in Processes, Publish(f, p)
      PROVE  pub[e].st \in {"stored", "confirmed"}
  BY <1>1, <1>2 DEF Publish
<1>3. ASSUME NEW f \in Events, NEW s, pub' = [pub EXCEPT ![f].st = s],
             s \in {"stored", "confirmed"} => pub[f].st = "stored"
      PROVE  pub[e].st \in {"stored", "confirmed"}
  <2> DEFINE c == [pub[f] EXCEPT !.st = s]
  <2>1. c.st = s /\ pub' = [pub EXCEPT ![f] = c]
    BY <1>1, <1>3 DEF Calls
  <2> HIDE DEF c
  <2> QED
    BY <1>1, <1>3, <2>1
<1>4. ASSUME NEW f \in Events, PublishSend(f) \/ PublishConfirmed(f)
      PROVE  pub[e].st \in {"stored", "confirmed"}
  BY <1>3, <1>4 DEF PublishSend, PublishConfirmed
<1>5. ASSUME NEW f \in Events, BrokerStores(f)
      PROVE  pub[e].st \in {"stored", "confirmed"} \/ BrokerStores(e)
  BY <1>1, <1>5 DEF BrokerStores
<1>6. ASSUME NEW f \in Events, PublishNotConnected(f) \/ ConfirmCut(f) \/ ConfirmLost(f)
      PROVE  pub[e].st \in {"stored", "confirmed"}
  BY <1>6, AttemptFailedOK DEF PublishNotConnected, ConfirmCut, ConfirmLost
<1>7. ASSUME NEW p \in Processes, ConnectionLost(p) \/ Crash(p)
      PROVE  pub[e].st \in {"stored", "confirmed"}
  <2> DEFINE cut == [pub[e] EXCEPT !.st = "cut"]
             up == [pub[e] EXCEPT !.st = "given_up"]
  <2>1. cut.st = "cut" /\ up.st = "given_up"
    BY <1>1 DEF Calls
  <2>2. pub'[e] \in {pub[e], cut, up}
    BY <1>7 DEF ConnectionLost, Crash
  <2> HIDE DEF cut, up
  <2> QED
    BY <2>1, <2>2
<1>8. CASE UNCHANGED pub
  BY <1>8
<1>9. ASSUME NEW p \in Processes,
             Working(p) \/ Recovering(p) \/ Stop(p) \/ ChannelLost(p)
                 \/ \E gone \in BOOLEAN : HandleFails(p, gone)
      PROVE  UNCHANGED pub
  BY <1>9 DEF Working, HandleSends, HandleCancelled, BackoffOver, BackoffStopped, Ack, Reject,
       CloseConsumer, OpenConsumer, Deliver, HandleFails, Recovering, Reconnect, Restart, Exit, Stop, ChannelLost
<1> QED
  BY <1>2, <1>4, <1>5, <1>6, <1>7, <1>8, <1>9 DEF Next, Publishing, Failing

-----------------------------------------------------------------------------
(* The theorems                                                            *)

\* Every step keeps what was taken, and is one of the promise's or none of its
\* business.
LEMMA PromiseStands ==
    ASSUME TypeInv, Traced, [Next]_vars
    PROVE  Traced' /\ [Promise!Next]_<<Kept, Handled>>
<1> USE DEF Promise!vars
<1>1. Kept \subseteq Events /\ Handled \subseteq Kept
  BY DEF Kept, Handled, Holds
<1>2. CASE UNCHANGED vars
  BY <1>2 DEF vars, Traced, Kept, Handled, Holds
<1>3. CASE Next
  <2> DEFINE Keeps == /\ Kept \subseteq Kept'
                      /\ \A q \in Processes : cons'[q].msg \in Events => cons'[q].msg \in Kept'
                      /\ [Promise!Next]_<<Kept, Handled>>
  <2>1. ASSUME NEW e \in Events, BrokerStores(e) PROVE Keeps /\ e \in Kept'
    <3>1. Kept' = Kept \cup {e} /\ Handled' = Handled /\ UNCHANGED cons
      BY <2>1, StoresOne
    <3>2. CASE e \in Kept
      BY <3>1, <3>2 DEF Traced
    <3>3. CASE e \notin Kept
      BY <3>1, <3>3 DEF Traced, Promise!Next, Promise!Accept
    <3> QED
      BY <3>1, <3>2, <3>3
  <2>2. ASSUME Kept' = Kept, Handled' = Handled \/ \E e \in Kept : Handled' = Handled \cup {e},
               \A q \in Processes : cons'[q].msg \in Events => cons'[q].msg \in Kept'
        PROVE  Keeps
    <3>1. CASE Handled' = Handled
      BY <2>2, <3>1
    <3>2. ASSUME NEW e \in Kept, Handled' = Handled \cup {e}, Handled' # Handled
          PROVE  Promise!Next
      BY <1>1, <2>2, <3>2 DEF Promise!Next, Promise!Handle
    <3> QED
      BY <2>2, <3>1, <3>2
  <2>3. ASSUME NEW e \in Events,
               \/ \E p \in Processes : Publish(e, p)
               \/ PublishNotConnected(e) \/ PublishSend(e) \/ PublishConfirmed(e)
               \/ ConfirmCut(e) \/ ConfirmLost(e)
        PROVE  Keeps
    <3>1. Kept' = Kept /\ Handled' = Handled /\ UNCHANGED cons
      BY <2>3, PublishKeeps
    <3> QED
      BY <2>2, <3>1 DEF Traced
  <2>4. ASSUME NEW p \in Processes, Working(p) \/ \E gone \in BOOLEAN : HandleFails(p, gone)
        PROVE  Keeps
    BY <2>2, <2>4, ConsumerKeeps
  <2>5. ASSUME NEW p \in Processes,
               Recovering(p) \/ ConnectionLost(p) \/ ChannelLost(p) \/ Crash(p) \/ Stop(p)
        PROVE  Keeps
    BY <2>2, <2>5, ProcessKeeps
  <2>6. Keeps
    BY <1>3, <2>1, <2>3, <2>4, <2>5 DEF Next, Publishing, Failing
  <2>7. \A e \in Events : pub'[e].st \in {"stored", "confirmed"} => e \in Kept'
    BY <1>3, <2>1, <2>6, StoredByBroker DEF Traced
  <2> QED
    BY <2>6, <2>7 DEF Traced
<1> QED
  BY <1>2, <1>3

LEMMA TracedAtStart == Init => Traced /\ Kept = {} /\ Handled = {}
BY MessagingAssumption DEF Init, Traced, Kept, Handled, Holds, Closed

\* A publish that returned nil is not lost: through reconnects, redeliveries,
\* shutdowns and crashes there is a copy of the message, or its mail was sent.
\* (publishConfirmHeaders, dispatch, watch.)
THEOREM ConfirmedKept == Spec => []ConfirmedIsKept
<1>1. TypeInv /\ Traced => ConfirmedIsKept
  BY DEF Traced, ConfirmedIsKept, Kept
<1>2. Init => TypeInv /\ Traced
  BY TypesAtStart, TracedAtStart
<1>3. TypeInv /\ Traced /\ [Next]_vars => (TypeInv /\ Traced)'
  BY TypesStand, PromiseStands
<1> QED
  BY <1>1, <1>2, <1>3, PTL DEF Spec

\* The queue and its consumers keep their word: what the broker has taken is never
\* forgotten, and nothing is mailed or dead-lettered that it has not taken.
THEOREM QueueKeepsItsWord == Spec => Promise!Safety
<1>1. Init => TypeInv /\ Traced /\ Promise!Init
  BY TypesAtStart, TracedAtStart DEF Promise!Init
<1>2. TypeInv /\ Traced /\ [Next]_vars => (TypeInv /\ Traced)' /\ [Promise!Next]_(Promise!vars)
  BY TypesStand, PromiseStands DEF Promise!vars
<1> QED
  BY <1>1, <1>2, PTL DEF Spec, Promise!Safety

-----------------------------------------------------------------------------
(* Mails and dead letters are paid for                                     *)

\* The sum of w over the processes, as a set with that many elements.
Load(w) == {u \in Processes \X Nat : u[2] \in 1..w[u[1]]}

\* Mails about e that may yet come out without a fault: from a publish that may
\* still store a copy, and from a consumer that may still handle one.
PubChance(e) == IF pub[e].st \in {"new", "try", "sent", "cut"} THEN 1 ELSE 0
Chance(p, e) == IF cons[p].msg = e /\ cons[p].pc \in {"handling", "backoff"} THEN 1 ELSE 0
Chances(e) == [p \in Processes |-> Chance(p, e)]

\* Attempts at e that p's consumer has seen fail.  One that a shutdown cut short
\* counts for nothing; the consumer that is in its back-off then has one less.
Failure(p, e) == IF cons[p].msg # e THEN 0
                 ELSE IF cons[p].pc = "backoff" /\ life[p] = "running" THEN cons[p].attempt
                 ELSE cons[p].attempt - 1
Failures(e) == [p \in Processes |-> Failure(p, e)]

\* A message in hand is in one of its attempts, a rejected one has used them up, and
\* a process that is down consumes nothing.
Stage(p) ==
    /\ cons[p].msg \in Events => cons[p].attempt \in Nat \ {0}
    /\ cons[p].pc = "reject" => cons[p].attempt = MaxAttempts
    /\ life[p] = "down" => cons[p].pc = "closed"

MailsPaid(e) ==
    /\ IsFiniteSet(Load(Chances(e)))
    /\ emails[e] + PubChance(e) + ready[e] + Cardinality(Load(Chances(e))) <= 1 + 2 * faults
DeathsPaid(e) ==
    /\ IsFiniteSet(Load(Failures(e)))
    /\ dead[e] * (MaxAttempts - 1) + Cardinality(Load(Failures(e))) <= faults

Paid == /\ \A p \in Processes : Stage(p)
        /\ \A e \in Events : MailsPaid(e) /\ DeathsPaid(e)

\* n elements for p, added to elements for others, are n more.
LEMMA OneProcessMore ==
  ASSUME NEW A, IsFiniteSet(A), NEW p, NEW n \in Nat, \A u \in A : u[1] # p
  PROVE  /\ IsFiniteSet(A \cup ({p} \X (1..n)))
         /\ Cardinality(A \cup ({p} \X (1..n))) = Cardinality(A) + n
<1> DEFINE U == {p} \X (1..n)
<1>1. IsFiniteSet({p}) /\ Cardinality({p}) = 1
  BY FS_Singleton
<1>2. IsFiniteSet(1..n) /\ Cardinality(1..n) = n
  BY FS_Interval
<1>3. IsFiniteSet(U) /\ Cardinality(U) = n
  <2>1. IsFiniteSet(U) /\ Cardinality(U) = Cardinality({p}) * Cardinality(1..n)
    BY <1>1, <1>2, FS_Product, Zenon
  <2> HIDE DEF U
  <2> QED
    BY <1>1, <1>2, <2>1
<1>4. A \cap U = {}
  OBVIOUS
<1>5. Cardinality({}) = 0
  BY FS_EmptySet
<1>6. Cardinality(A) \in Nat
  BY FS_CardinalityType
<1> HIDE DEF U
<1>7. /\ IsFiniteSet(A \cup U)
      /\ Cardinality(A \cup U) = Cardinality(A) + Cardinality(U) - Cardinality(A \cap U)
  BY <1>3, FS_Union
<1>8. Cardinality(A \cup U) = Cardinality(A) + n
  <2>1. Cardinality(A \cap U) = 0
    BY <1>4, <1>5
  <2> QED
    BY <1>3, <1>6, <1>7, <2>1
<1> QED
  BY <1>7, <1>8 DEF U

\* When only p's part changes, the sum changes by as much.
LEMMA LoadChanges ==
  ASSUME NEW v \in [Processes -> Nat], NEW w \in [Processes -> Nat], NEW p \in Processes,
         \A q \in Processes : q # p => w[q] = v[q],
         IsFiniteSet(Load(v))
  PROVE  /\ IsFiniteSet(Load(w)) /\ Cardinality(Load(v)) \in Nat /\ Cardinality(Load(w)) \in Nat
         /\ Cardinality(Load(w)) + v[p] = Cardinality(Load(v)) + w[p]
<1> DEFINE A == {u \in Load(v) : u[1] # p}
<1>1. A \in SUBSET Load(v)
  OBVIOUS
<1>2. IsFiniteSet(A)
  BY <1>1, FS_Subset
<1>3. Load(v) = A \cup ({p} \X (1..v[p]))
  BY DEF Load
<1>4. Load(w) = A \cup ({p} \X (1..w[p]))
  BY DEF Load
<1>5. \A u \in A : u[1] # p
  OBVIOUS
<1> HIDE DEF A
<1>6. /\ Cardinality(A \cup ({p} \X (1..v[p]))) = Cardinality(A) + v[p]
      /\ IsFiniteSet(A \cup ({p} \X (1..w[p])))
      /\ Cardinality(A \cup ({p} \X (1..w[p]))) = Cardinality(A) + w[p]
  <2>1. v[p] \in Nat /\ w[p] \in Nat
    OBVIOUS
  <2> QED
    BY ZenonT(60), <1>2, <1>5, <2>1, OneProcessMore, Zenon
<1>7. /\ IsFiniteSet(Load(w)) /\ Cardinality(Load(v)) = Cardinality(A) + v[p]
      /\ Cardinality(Load(w)) = Cardinality(A) + w[p]
  BY <1>3, <1>4, <1>6, Zenon
<1>8. Cardinality(A) \in Nat /\ v[p] \in Nat /\ w[p] \in Nat
  BY <1>2, FS_CardinalityType
<1> QED
  BY <1>7, <1>8

\* Before anything happens the sums are zero.
LEMMA LoadOfNothing ==
  ASSUME NEW w \in [Processes -> Nat], \A q \in Processes : w[q] = 0
  PROVE  IsFiniteSet(Load(w)) /\ Cardinality(Load(w)) = 0
<1>1. Load(w) = {}
  BY DEF Load
<1> QED
  BY <1>1, FS_EmptySet

\* What the sums add up.
LEMMA CountsTyped ==
  ASSUME TypeInv, \A p \in Processes : Stage(p), NEW e \in Events
  PROVE  /\ Chances(e) \in [Processes -> Nat] /\ Failures(e) \in [Processes -> Nat]
         /\ PubChance(e) \in Nat
<1>1. \A p \in Processes : Chance(p, e) \in Nat
  BY DEF Chance
<1>2. ASSUME NEW p \in Processes PROVE Failure(p, e) \in Nat
  BY DEF Failure, Stage
<1> QED
  BY <1>1, <1>2 DEF Chances, Failures, PubChance

\* A step of one process that pays for what it adds keeps all paid.
LEMMA StepPaid ==
  ASSUME TypeInv, Paid, TypeInv', NEW p \in Processes, Stage(p)',
         \A q \in Processes : q # p => cons'[q] = cons[q] /\ life'[q] = life[q],
         \A e \in Events :
             /\ emails'[e] + PubChance(e)' + ready'[e] + Chance(p, e)' + 2 * faults
                    <= emails[e] + PubChance(e) + ready[e] + Chance(p, e) + 2 * faults'
             /\ dead'[e] * (MaxAttempts - 1) + Failure(p, e)' + faults
                    <= dead[e] * (MaxAttempts - 1) + Failure(p, e) + faults'
  PROVE  Paid'
<1>1. \A q \in Processes : Stage(q)'
  BY DEF Paid, Stage
<1>2. ASSUME NEW e \in Events PROVE MailsPaid(e)' /\ DeathsPaid(e)'
  <2>1. /\ Chances(e) \in [Processes -> Nat] /\ Failures(e) \in [Processes -> Nat]
        /\ PubChance(e) \in Nat
    BY CountsTyped DEF Paid
  <2>2. /\ Chances(e)' \in [Processes -> Nat] /\ Failures(e)' \in [Processes -> Nat]
        /\ PubChance(e)' \in Nat
    <3>1. \A q \in Processes : Chance(q, e)' \in Nat
      BY DEF Chance
    <3>2. ASSUME NEW q \in Processes PROVE Failure(q, e)' \in Nat
      BY <1>1 DEF Failure, Stage
    <3> QED
      BY <3>1, <3>2 DEF Chances, Failures, PubChance
  <2>3. \A q \in Processes : q # p => Chances(e)'[q] = Chances(e)[q] /\ Failures(e)'[q] = Failures(e)[q]
    BY DEF Chances, Failures, Chance, Failure
  <2>4. /\ Chances(e)[p] = Chance(p, e) /\ Chances(e)'[p] = Chance(p, e)'
        /\ Failures(e)[p] = Failure(p, e) /\ Failures(e)'[p] = Failure(p, e)'
    BY DEF Chances, Failures
  <2>5. IsFiniteSet(Load(Chances(e))) /\ IsFiniteSet(Load(Failures(e)))
    BY DEF Paid, MailsPaid, DeathsPaid
  <2> DEFINE v == Chances(e)
             w == Chances(e)'
             x == Failures(e)
             y == Failures(e)'
  <2>6. v \in [Processes -> Nat] /\ w \in [Processes -> Nat] /\ x \in [Processes -> Nat] /\ y \in [Processes -> Nat]
    BY <2>1, <2>2
  <2>7. \A q \in Processes : q # p => w[q] = v[q] /\ y[q] = x[q]
    BY <2>3
  <2>8. IsFiniteSet(Load(v)) /\ IsFiniteSet(Load(x))
    BY <2>5
  <2>9. Load(w) = Load(Chances(e))' /\ Load(y) = Load(Failures(e))'
    BY DEF Load
  <2>10. v[p] = Chance(p, e) /\ w[p] = Chance(p, e)' /\ x[p] = Failure(p, e) /\ y[p] = Failure(p, e)'
    BY <2>4
  <2> HIDE DEF v, w, x, y
  <2>11. /\ IsFiniteSet(Load(w)) /\ Cardinality(Load(v)) \in Nat /\ Cardinality(Load(w)) \in Nat
         /\ Cardinality(Load(w)) + v[p] = Cardinality(Load(v)) + w[p]
    BY SMTT(60), <2>6, <2>7, <2>8, LoadChanges
  <2>12. /\ IsFiniteSet(Load(y)) /\ Cardinality(Load(x)) \in Nat /\ Cardinality(Load(y)) \in Nat
         /\ Cardinality(Load(y)) + x[p] = Cardinality(Load(x)) + y[p]
    BY <2>6, <2>7, <2>8, LoadChanges
  <2>13. /\ v[p] \in Nat /\ w[p] \in Nat /\ x[p] \in Nat /\ y[p] \in Nat
    BY <2>6
  <2>14. /\ emails[e] \in Nat /\ emails'[e] \in Nat /\ ready[e] \in Nat /\ ready'[e] \in Nat
         /\ dead[e] \in Nat /\ dead'[e] \in Nat /\ faults \in Nat /\ faults' \in Nat
    BY MessagingAssumption DEF TypeInv, TypeOK
  <2>15. /\ emails[e] + PubChance(e) + ready[e] + Cardinality(Load(v)) <= 1 + 2 * faults
         /\ dead[e] * (MaxAttempts - 1) + Cardinality(Load(x)) <= faults
    BY DEF Paid, MailsPaid, DeathsPaid, v, x
  <2>16. emails'[e] + PubChance(e)' + ready'[e] + Cardinality(Load(w)) <= 1 + 2 * faults'
    <3>1. emails'[e] + PubChance(e)' + ready'[e] + w[p] + 2 * faults
              <= emails[e] + PubChance(e) + ready[e] + v[p] + 2 * faults'
      BY <2>10
    <3> QED
      BY <2>1, <2>2, <2>11, <2>13, <2>14, <2>15, <3>1
  <2>17. dead'[e] * (MaxAttempts - 1) + Cardinality(Load(y)) <= faults'
    <3> DEFINE b == dead[e] * (MaxAttempts - 1)
               c == dead'[e] * (MaxAttempts - 1)
    <3>1. c + y[p] + faults <= b + x[p] + faults'
      BY <2>10
    <3>2. b \in Int /\ c \in Int /\ b + Cardinality(Load(x)) <= faults
      BY <2>14, <2>15, MessagingAssumption
    <3> HIDE DEF b, c
    <3>3. c + Cardinality(Load(y)) <= faults'
      BY <2>12, <2>13, <2>14, <3>1, <3>2
    <3> QED
      BY <3>3 DEF c
  <2>18. MailsPaid(e)'
    BY <2>9, <2>11, <2>16 DEF MailsPaid
  <2>19. DeathsPaid(e)'
    BY <2>9, <2>12, <2>17 DEF DeathsPaid
  <2> QED
    BY <2>18, <2>19
<1> QED
  BY <1>1, <1>2 DEF Paid

\* A publish that is sent stores at most one copy; another attempt at it, when it was
\* stored, comes after a fault.
LEMMA PublishPaid ==
  ASSUME TypeInv, Paid, TypeInv', NEW e \in Events,
         (\E p \in Processes : Publish(e, p)) \/ Publishing(e) \/ ConfirmLost(e)
  PROVE  Paid'
<1>1. UNCHANGED <<dead, life, cons, emails>>
  BY DEF Publish, Publishing, PublishNotConnected, PublishSend, BrokerStores, PublishConfirmed,
         ConfirmCut, ConfirmLost, Fault, queueVars, bounds
<1>2. /\ ready \in [Events -> Nat] /\ pub \in [Events -> Calls] /\ pub[e] \in Calls
      /\ faults \in Nat /\ emails \in [Events -> Nat] /\ dead \in [Events -> Nat]
  BY MessagingAssumption DEF TypeInv, TypeOK
<1>3. \A f \in Events : f # e => pub'[f] = pub[f] /\ ready'[f] = ready[f]
  BY <1>2 DEF Publish, Publishing, PublishNotConnected, PublishSend, BrokerStores, Enqueue,
              PublishConfirmed, ConfirmCut, ConfirmLost, AttemptFailed, Fault, queueVars, bounds
<1>4. /\ ready'[e] \in Nat /\ faults' \in Nat /\ faults <= faults'
      /\ PubChance(e)' + ready'[e] + 2 * faults <= PubChance(e) + ready[e] + 2 * faults'
  <2>1. CASE \E p \in Processes : Publish(e, p)
    BY <1>2, <2>1 DEF Publish, PubChance, queueVars, bounds
  <2>2. ASSUME AttemptFailed(e) PROVE PubChance(e)' <= 1
    BY DEF PubChance
  <2>3. CASE PublishNotConnected(e)
    BY <1>2, <2>2, <2>3 DEF PublishNotConnected, PubChance, queueVars, bounds
  <2>4. CASE ConfirmCut(e)
    BY <1>2, <2>2, <2>4 DEF ConfirmCut, PubChance, queueVars, bounds
  <2>5. CASE ConfirmLost(e)
    BY <1>2, <2>2, <2>5 DEF ConfirmLost, Fault, PubChance, queueVars, bounds
  <2>6. CASE PublishSend(e)
    BY <1>2, <2>6 DEF PublishSend, PubChance, queueVars, bounds
  <2>7. CASE BrokerStores(e)
    <3>1. pub'[e].st = "stored" /\ pub[e].st = "sent" /\ ready'[e] = ready[e] + 1 /\ faults' = faults
      BY <1>2, <2>7 DEF BrokerStores, Enqueue, Calls, bounds
    <3> QED
      BY <1>2, <3>1 DEF PubChance
  <2>8. CASE PublishConfirmed(e)
    <3>1. pub'[e].st = "confirmed" /\ ready' = ready /\ faults' = faults
      BY <1>2, <2>8 DEF PublishConfirmed, Calls, queueVars, bounds
    <3> QED
      BY <1>2, <3>1 DEF PubChance
  <2> QED
    BY <2>1, <2>3, <2>4, <2>5, <2>6, <2>7, <2>8 DEF Publishing
<1>5. ASSUME NEW f \in Events PROVE MailsPaid(f)' /\ DeathsPaid(f)'
  <2>1. Load(Chances(f))' = Load(Chances(f)) /\ Load(Failures(f))' = Load(Failures(f))
    BY <1>1 DEF Load, Chances, Failures, Chance, Failure
  <2>2. MailsPaid(f) /\ DeathsPaid(f)
    BY DEF Paid
  <2>3. Cardinality(Load(Chances(f))) \in Nat /\ Cardinality(Load(Failures(f))) \in Nat
    BY <2>2, FS_CardinalityType DEF MailsPaid, DeathsPaid
  <2>4. PubChance(f)' + ready'[f] + 2 * faults <= PubChance(f) + ready[f] + 2 * faults'
    <3>1. CASE f # e
      BY <1>2, <1>3, <1>4, <3>1 DEF PubChance
    <3> QED
      BY <1>4, <3>1
  <2>5. /\ PubChance(f) \in Nat /\ PubChance(f)' \in Nat
        /\ ready[f] \in Nat /\ ready'[f] \in Nat /\ emails[f] \in Nat
    BY <1>2, <1>3, <1>4 DEF PubChance
  <2>6. MailsPaid(f)'
    BY <1>1, <1>2, <1>4, <2>1, <2>2, <2>3, <2>4, <2>5 DEF MailsPaid
  <2>7. DeathsPaid(f)'
    <3> DEFINE b == dead[f] * (MaxAttempts - 1)
    <3>1. b \in Int /\ b + Cardinality(Load(Failures(f))) <= faults
      BY <1>2, <2>2, MessagingAssumption DEF DeathsPaid
    <3>2. b = dead'[f] * (MaxAttempts - 1)
      BY <1>1
    <3> HIDE DEF b
    <3>3. b + Cardinality(Load(Failures(f))) <= faults'
      BY <1>2, <1>4, <2>3, <3>1
    <3> QED
      BY <2>1, <2>2, <3>2, <3>3 DEF DeathsPaid
  <2> QED
    BY <2>6, <2>7
<1>6. \A p \in Processes : Stage(p)'
  BY <1>1 DEF Paid, Stage
<1> QED
  BY <1>5, <1>6 DEF Paid

\* A consumer settles, opens or closes: what it is afterwards.
LEMMA FreedCosts ==
  ASSUME TypeInv, NEW p \in Processes, Dispatched(p) \/ OpenConsumer(p) \/ CloseConsumer(p),
         life[p] # "down", life' = life
  PROVE  /\ Stage(p)'
         /\ \A q \in Processes : q # p => cons'[q] = cons[q] /\ life'[q] = life[q]
         /\ \A e \in Events : Chance(p, e)' = 0 /\ Failure(p, e)' = 0
<1>1. PICK c \in Consumers : /\ cons' = [cons EXCEPT ![p] = c]
                             /\ c.msg = None /\ c.pc \in {"open", "closed"}
  BY Freed
<1>2. cons'[p] = c /\ \A q \in Processes : q # p => cons'[q] = cons[q]
  BY <1>1 DEF TypeInv, TypeOK
<1> QED
  BY <1>1, <1>2, MessagingAssumption DEF Stage, Chance, Failure

\* A consumer's mail comes out of a copy it was handed, and its dead letter out of
\* attempts that failed.
LEMMA ConsumerPaid ==
  ASSUME TypeInv, Paid, TypeInv', NEW p \in Processes,
         Working(p) \/ \E gone \in BOOLEAN : HandleFails(p, gone)
  PROVE  Paid'
<1> DEFINE m == cons[p].msg
           a == cons[p].attempt
           Others == \A q \in Processes : q # p => cons'[q] = cons[q] /\ life'[q] = life[q]
           PaysMails(e) == emails'[e] + PubChance(e)' + ready'[e] + Chance(p, e)' + 2 * faults
                               <= emails[e] + PubChance(e) + ready[e] + Chance(p, e) + 2 * faults'
           PaysDeaths(e) == dead'[e] * (MaxAttempts - 1) + Failure(p, e)' + faults
                               <= dead[e] * (MaxAttempts - 1) + Failure(p, e) + faults'
           Pays == Stage(p)' /\ Others /\ \A e \in Events : PaysMails(e) /\ PaysDeaths(e)
<1>1. /\ cons \in [Processes -> Consumers] /\ cons[p] \in Consumers /\ life \in [Processes -> {"running", "stopping", "down"}]
      /\ ready \in [Events -> Nat] /\ dead \in [Events -> Nat] /\ emails \in [Events -> Nat]
      /\ faults \in Nat /\ MaxAttempts \in Nat \ {0}
      /\ a \in 0..MaxAttempts /\ m \in Events \cup {None}
  BY MessagingAssumption DEF TypeInv, TypeOK, Consumers
<1>2. /\ cons[p].pc \in Dispatching <=> m \in Events
      /\ cons[p].pc = "backoff" => a < MaxAttempts
  BY DEF TypeInv, Sound
<1>3. /\ m \in Events => a \in Nat \ {0}
      /\ cons[p].pc = "reject" => a = MaxAttempts
      /\ life[p] = "down" => cons[p].pc = "closed"
  BY DEF Paid, Stage
<1>4. UNCHANGED <<pub, life>>
  BY DEF Working, HandleSends, HandleCancelled, BackoffOver, BackoffStopped, Ack, Reject,
         CloseConsumer, OpenConsumer, Deliver, HandleFails, Fault, bounds
<1>5. \A e \in Events : PubChance(e)' = PubChance(e) /\ PubChance(e) \in Nat
  BY <1>4 DEF PubChance
<1>6. \A e \in Events : /\ Chance(p, e) \in Nat /\ Failure(p, e) \in Nat
                        /\ dead[e] * (MaxAttempts - 1) \in Int
                        /\ ready[e] \in Nat /\ emails[e] \in Nat
  BY <1>1, <1>3 DEF Chance, Failure
<1>7. ASSUME NEW pc \in {"backoff", "ack", "reject"}, cons' = [cons EXCEPT ![p].pc = pc],
             cons[p].pc = "handling"
      PROVE  /\ cons'[p].pc = pc /\ cons'[p].msg = m /\ cons'[p].attempt = a
             /\ \A q \in Processes : q # p => cons'[q] = cons[q]
  BY <1>1, <1>7 DEF Consumers
<1>8. CASE HandleSends(p)
  <2>1. /\ cons'[p].pc = "ack" /\ cons'[p].msg = m /\ cons'[p].attempt = a
        /\ \A q \in Processes : q # p => cons'[q] = cons[q]
    BY <1>7, <1>8 DEF HandleSends
  <2>2. cons[p].pc = "handling" /\ m \in Events /\ UNCHANGED <<ready, dead, faults>>
    BY <1>2, <1>8 DEF HandleSends, Dispatching, queueVars, bounds
  <2>3. \A e \in Events : emails'[e] = IF e = m THEN emails[e] + 1 ELSE emails[e]
    BY <1>1, <1>8 DEF HandleSends
  <2>4. Stage(p)' /\ Others
    BY <1>3, <1>4, <2>1, <2>2 DEF Stage
  <2>5. ASSUME NEW e \in Events PROVE PaysMails(e)
    <3>1. CASE e = m
      <4>1. Chance(p, e) = 1 /\ Chance(p, e)' = 0
        BY <2>1, <2>2, <3>1 DEF Chance
      <4> QED
        BY <1>1, <1>5, <1>6, <2>2, <2>3, <3>1, <4>1
    <3>2. CASE e # m
      <4>1. Chance(p, e) = 0 /\ Chance(p, e)' = 0
        BY <2>1, <3>2 DEF Chance
      <4> QED
        BY <1>1, <1>5, <1>6, <2>2, <2>3, <3>2, <4>1
    <3> QED
      BY <3>1, <3>2
  <2>6. ASSUME NEW e \in Events PROVE PaysDeaths(e)
    <3>1. Failure(p, e)' = Failure(p, e)
      BY <1>4, <2>1, <2>2 DEF Failure
    <3> QED
      BY <1>1, <1>6, <2>2, <3>1
  <2> QED
    BY <2>4, <2>5, <2>6, StepPaid
<1>9. ASSUME NextAttempt(p), cons[p].pc = "handling"
      PROVE  /\ cons'[p].pc \in {"backoff", "reject"} /\ cons'[p].msg = m /\ cons'[p].attempt = a
             /\ Stage(p)' /\ Others /\ m \in Events
             /\ \A e \in Events : Chance(p, e)' \in Nat /\ Chance(p, e)' <= Chance(p, e)
  <2> DEFINE pc == IF a < MaxAttempts THEN "backoff" ELSE "reject"
  <2>1. cons' = [cons EXCEPT ![p].pc = pc] /\ pc \in {"backoff", "ack", "reject"}
    BY <1>9 DEF NextAttempt
  <2>2. /\ cons'[p].pc = pc /\ cons'[p].msg = m /\ cons'[p].attempt = a
        /\ \A q \in Processes : q # p => cons'[q] = cons[q]
    BY <1>7, <1>9, <2>1
  <2>3. pc \in {"backoff", "reject"} /\ (pc = "reject" => a = MaxAttempts)
    BY <1>1
  <2> HIDE DEF pc
  <2>4. m \in Events
    BY <1>2, <1>9 DEF Dispatching
  <2>5. \A e \in Events : Chance(p, e)' \in Nat /\ Chance(p, e)' <= Chance(p, e)
    BY <1>9, <2>2 DEF Chance
  <2> QED
    BY <1>3, <1>4, <1>9, <2>2, <2>3, <2>4, <2>5 DEF Stage
<1>10. ASSUME NEW gone \in BOOLEAN, HandleFails(p, gone) PROVE Paid'
  <2>1. /\ cons[p].pc = "handling" /\ NextAttempt(p) /\ UNCHANGED <<ready, dead>> /\ faults' = faults + 1
    BY <1>10 DEF HandleFails, Fault, queueVars
  <2>2. /\ cons'[p].pc \in {"backoff", "reject"} /\ cons'[p].msg = m /\ cons'[p].attempt = a
        /\ Stage(p)' /\ Others /\ m \in Events
        /\ \A e \in Events : Chance(p, e)' \in Nat /\ Chance(p, e)' <= Chance(p, e)
    BY <1>9, <2>1
  <2>3. \A e \in Events : emails'[e] \in Nat /\ emails'[e] <= emails[e] + 1
    BY <1>1, <1>10 DEF HandleFails
  <2>4. ASSUME NEW e \in Events PROVE PaysMails(e)
    <3>1. Chance(p, e)' \in Nat /\ Chance(p, e)' <= Chance(p, e) /\ emails'[e] \in Nat /\ emails'[e] <= emails[e] + 1
      BY <2>2, <2>3
    <3> QED
      BY <1>1, <1>5, <1>6, <2>1, <3>1
  <2>5. ASSUME NEW e \in Events PROVE PaysDeaths(e)
    <3>1. Failure(p, e)' \in Nat /\ Failure(p, e)' <= Failure(p, e) + 1
      BY <1>1, <1>3, <2>1, <2>2 DEF Failure
    <3> QED
      BY <1>1, <1>6, <2>1, <3>1
  <2> QED
    BY <2>2, <2>4, <2>5, StepPaid
<1>11. CASE HandleCancelled(p)
  <2>1. /\ cons[p].pc = "handling" /\ NextAttempt(p) /\ life[p] = "stopping"
        /\ UNCHANGED <<ready, dead, emails, faults>>
    BY <1>11 DEF HandleCancelled, queueVars, bounds
  <2>2. /\ cons'[p].pc \in {"backoff", "reject"} /\ cons'[p].msg = m /\ cons'[p].attempt = a
        /\ Stage(p)' /\ Others /\ m \in Events
        /\ \A e \in Events : Chance(p, e)' \in Nat /\ Chance(p, e)' <= Chance(p, e)
    BY <1>9, <2>1
  <2>3. ASSUME NEW e \in Events PROVE PaysMails(e)
    <3>1. Chance(p, e)' \in Nat /\ Chance(p, e)' <= Chance(p, e)
      BY <2>2
    <3> QED
      BY <1>1, <1>5, <1>6, <2>1, <3>1
  <2>4. ASSUME NEW e \in Events PROVE PaysDeaths(e)
    <3>1. Failure(p, e)' = Failure(p, e)
      BY <1>4, <2>1, <2>2 DEF Failure
    <3> QED
      BY <1>1, <1>6, <2>1, <3>1
  <2> QED
    BY <2>2, <2>3, <2>4, StepPaid
<1>12. CASE BackoffOver(p)
  <2> DEFINE c == [cons[p] EXCEPT !.pc = "handling", !.attempt = a + 1]
  <2>1. c.pc = "handling" /\ c.msg = m /\ c.attempt = a + 1
    BY <1>1 DEF Consumers
  <2>2. cons' = [cons EXCEPT ![p] = c]
    BY <1>1, <1>12 DEF BackoffOver
  <2> HIDE DEF c
  <2>3. cons'[p] = c /\ \A q \in Processes : q # p => cons'[q] = cons[q]
    BY <1>1, <2>2
  <2>4. /\ cons[p].pc = "backoff" /\ life[p] = "running" /\ m \in Events
        /\ UNCHANGED <<ready, dead, emails, faults>>
    BY <1>2, <1>12 DEF BackoffOver, Dispatching, queueVars, bounds
  <2>5. Stage(p)' /\ Others
    BY <1>1, <1>4, <2>1, <2>3, <2>4 DEF Stage
  <2>6. \A e \in Events : Chance(p, e)' = Chance(p, e) /\ Failure(p, e)' = Failure(p, e)
    BY <1>1, <1>4, <2>1, <2>3, <2>4 DEF Chance, Failure
  <2>7. ASSUME NEW e \in Events PROVE PaysMails(e) /\ PaysDeaths(e)
    BY <1>1, <1>5, <1>6, <2>4, <2>6
  <2> QED
    BY <2>5, <2>7, StepPaid
<1>13. ASSUME Dispatched(p) \/ OpenConsumer(p) \/ CloseConsumer(p), life[p] # "down"
       PROVE  Stage(p)' /\ Others /\ \A e \in Events : Chance(p, e)' = 0 /\ Failure(p, e)' = 0
  BY <1>4, <1>13, FreedCosts
<1>14. CASE BackoffStopped(p)
  <2>1. /\ cons[p].pc = "backoff" /\ m \in Events /\ Requeue(p) /\ Dispatched(p) /\ life[p] = "stopping"
        /\ UNCHANGED <<dead, emails, faults>>
    BY <1>2, <1>14 DEF BackoffStopped, Dispatching, bounds
  <2>2. Stage(p)' /\ Others /\ \A e \in Events : Chance(p, e)' = 0 /\ Failure(p, e)' = 0
    BY <1>13, <2>1
  <2>3. \A e \in Events : ready'[e] \in Nat /\ ready'[e] <= ready[e] + Chance(p, e)
    BY <1>1, <2>1, MessagingAssumption DEF Requeue, Chance
  <2>4. ASSUME NEW e \in Events PROVE PaysMails(e) /\ PaysDeaths(e)
    <3>1. ready'[e] \in Nat /\ ready'[e] <= ready[e] + Chance(p, e) /\ Chance(p, e)' = 0 /\ Failure(p, e)' = 0
      BY <2>2, <2>3
    <3>2. PaysMails(e)
      BY <1>1, <1>5, <1>6, <2>1, <3>1
    <3>3. PaysDeaths(e)
      BY <1>1, <1>6, <2>1, <3>1
    <3> QED
      BY <3>2, <3>3
  <2> QED
    BY <2>2, <2>4, StepPaid
<1>15. CASE Ack(p) \/ OpenConsumer(p) \/ CloseConsumer(p)
  <2>1. /\ Dispatched(p) \/ OpenConsumer(p) \/ CloseConsumer(p)
        /\ UNCHANGED <<ready, dead, emails, faults>>
    BY <1>15 DEF Ack, OpenConsumer, CloseConsumer, queueVars, bounds
  <2>2. life[p] # "down"
    BY <1>3, <1>15 DEF Ack, OpenConsumer, CloseConsumer
  <2>3. Stage(p)' /\ Others /\ \A e \in Events : Chance(p, e)' = 0 /\ Failure(p, e)' = 0
    BY <1>13, <2>1, <2>2
  <2>4. ASSUME NEW e \in Events PROVE PaysMails(e) /\ PaysDeaths(e)
    <3>1. Chance(p, e)' = 0 /\ Failure(p, e)' = 0
      BY <2>3
    <3>2. PaysMails(e)
      BY <1>1, <1>5, <1>6, <2>1, <3>1
    <3>3. PaysDeaths(e)
      BY <1>1, <1>6, <2>1, <3>1
    <3> QED
      BY <3>2, <3>3
  <2> QED
    BY <2>3, <2>4, StepPaid
<1>16. CASE Reject(p)
  <2>1. /\ cons[p].pc = "reject" /\ m \in Events /\ DeadLetter(p) /\ Dispatched(p)
        /\ UNCHANGED <<ready, emails, faults>>
    BY <1>2, <1>16 DEF Reject, Dispatching, bounds
  <2>2. life[p] # "down"
    BY <1>3, <2>1
  <2>3. Stage(p)' /\ Others /\ \A e \in Events : Chance(p, e)' = 0 /\ Failure(p, e)' = 0
    BY <1>13, <2>1, <2>2
  <2>4. ASSUME NEW e \in Events PROVE PaysMails(e)
    <3>1. Chance(p, e)' = 0
      BY <2>3
    <3> QED
      BY <1>1, <1>5, <1>6, <2>1, <3>1
  <2>5. ASSUME NEW e \in Events PROVE PaysDeaths(e)
    <3>1. Failure(p, e)' = 0
      BY <2>3
    <3>2. CASE dead'[e] = dead[e]
      BY <1>1, <1>6, <2>1, <3>1, <3>2
    <3>3. CASE e = m /\ dead'[e] = dead[e] + 1
      <4>1. Failure(p, e) = MaxAttempts - 1
        BY <1>3, <2>1, <3>3 DEF Failure
      <4>2. dead'[e] * (MaxAttempts - 1) = dead[e] * (MaxAttempts - 1) + (MaxAttempts - 1)
        BY <1>1, <3>3
      <4> DEFINE b == dead[e] * (MaxAttempts - 1)
      <4>3. b \in Int /\ dead'[e] * (MaxAttempts - 1) = b + (MaxAttempts - 1)
        BY <1>6, <4>2
      <4> HIDE DEF b
      <4>4. dead'[e] * (MaxAttempts - 1) + Failure(p, e)' + faults <= b + Failure(p, e) + faults'
        BY <1>1, <2>1, <3>1, <4>1, <4>3
      <4> QED
        BY <4>4 DEF b
    <3>4. dead'[e] = dead[e] \/ (e = m /\ dead'[e] = dead[e] + 1)
      BY <1>1, <2>1 DEF DeadLetter
    <3> QED
      BY <3>2, <3>3, <3>4
  <2> QED
    BY <2>3, <2>4, <2>5, StepPaid
<1>17. ASSUME NEW f \in Events, Deliver(p, f) PROVE Paid'
  <2> DEFINE c == [cons[p] EXCEPT !.pc = "handling", !.msg = f, !.attempt = 1]
  <2>1. c.pc = "handling" /\ c.msg = f /\ c.attempt = 1
    BY <1>1 DEF Consumers
  <2>2. cons' = [cons EXCEPT ![p] = c]
    BY <1>1, <1>17 DEF Deliver
  <2> HIDE DEF c
  <2>3. cons'[p] = c /\ \A q \in Processes : q # p => cons'[q] = cons[q]
    BY <1>1, <2>2
  <2>4. /\ m \notin Events /\ ready[f] > 0 /\ life[p] = "running"
        /\ UNCHANGED <<dead, emails, faults>>
    BY <1>2, <1>17 DEF Deliver, Dispatching, bounds
  <2>5. \A e \in Events : ready'[e] = IF e = f THEN ready[e] - 1 ELSE ready[e]
    BY <1>1, <1>17 DEF Deliver
  <2>6. Stage(p)' /\ Others
    BY <1>4, <2>1, <2>3, <2>4 DEF Stage
  <2>7. \A e \in Events : /\ Chance(p, e)' = (IF e = f THEN 1 ELSE 0) /\ Chance(p, e) = 0
                          /\ Failure(p, e)' = 0 /\ Failure(p, e) = 0
    BY <1>4, <2>1, <2>3, <2>4 DEF Chance, Failure
  <2>8. ASSUME NEW e \in Events PROVE PaysMails(e) /\ PaysDeaths(e)
    <3>1. PaysMails(e)
      BY <1>1, <1>5, <1>6, <2>4, <2>5, <2>7
    <3>2. PaysDeaths(e)
      BY <1>1, <1>6, <2>4, <2>7
    <3> QED
      BY <3>1, <3>2
  <2> QED
    BY <2>6, <2>8, StepPaid
<1> QED
  BY <1>8, <1>10, <1>11, <1>12, <1>14, <1>15, <1>16, <1>17 DEF Working

\* A lost connection may cost a confirm and an acknowledgement, and is one fault; a
\* process that stops, leaves or comes back adds nothing.
LEMMA ProcessPaid ==
  ASSUME TypeInv, Paid, TypeInv', NEW p \in Processes,
         Recovering(p) \/ ConnectionLost(p) \/ ChannelLost(p) \/ Crash(p) \/ Stop(p)
  PROVE  Paid'
<1> DEFINE m == cons[p].msg
           a == cons[p].attempt
           Others == \A q \in Processes : q # p => cons'[q] = cons[q] /\ life'[q] = life[q]
           PaysMails(e) == emails'[e] + PubChance(e)' + ready'[e] + Chance(p, e)' + 2 * faults
                               <= emails[e] + PubChance(e) + ready[e] + Chance(p, e) + 2 * faults'
           PaysDeaths(e) == dead'[e] * (MaxAttempts - 1) + Failure(p, e)' + faults
                               <= dead[e] * (MaxAttempts - 1) + Failure(p, e) + faults'
<1>1. /\ cons \in [Processes -> Consumers] /\ cons[p] \in Consumers
      /\ life \in [Processes -> {"running", "stopping", "down"}]
      /\ ready \in [Events -> Nat] /\ dead \in [Events -> Nat] /\ emails \in [Events -> Nat]
      /\ faults \in Nat /\ MaxAttempts \in Nat \ {0} /\ pub \in [Events -> Calls]
      /\ a \in 0..MaxAttempts /\ m \in Events \cup {None} /\ None \notin Events
  BY MessagingAssumption DEF TypeInv, TypeOK, Consumers
<1>2. cons[p].pc \in Dispatching <=> m \in Events
  BY DEF TypeInv, Sound
<1>3. /\ m \in Events => a \in Nat \ {0}
      /\ cons[p].pc = "reject" => a = MaxAttempts
      /\ life[p] = "down" => cons[p].pc = "closed"
  BY DEF Paid, Stage
<1>4. UNCHANGED <<dead, emails>>
  BY DEF Recovering, Reconnect, Restart, Exit, ConnectionLost, ChannelLost, Crash, Stop, queueVars
<1>5. \A e \in Events : PubChance(e) \in Nat /\ PubChance(e)' \in Nat
  BY DEF PubChance
<1>6. \A e \in Events : /\ Chance(p, e) \in Nat /\ Failure(p, e) \in Nat
                        /\ dead[e] * (MaxAttempts - 1) \in Int
                        /\ ready[e] \in Nat /\ emails[e] \in Nat
  BY <1>1, <1>3 DEF Chance, Failure
<1>7. CASE Recovering(p) \/ Stop(p)
  <2>1. UNCHANGED <<pub, ready, cons, faults>>
    BY <1>7 DEF Recovering, Reconnect, Restart, Exit, Stop, queueVars, bounds
  <2>2. \A q \in Processes : q # p => life'[q] = life[q]
    BY <1>1, <1>7 DEF Recovering, Reconnect, Restart, Exit, Down, Stop
  <2>3. \/ life'[p] = life[p]
        \/ cons[p].pc = "closed"
        \/ life[p] = "running" /\ life'[p] = "stopping"
    BY <1>1, <1>3, <1>7 DEF Recovering, Reconnect, Restart, Exit, Down, Stop
  <2>4. Stage(p)' /\ Others
    BY <1>3, <2>1, <2>2, <2>3 DEF Stage
  <2>5. ASSUME NEW e \in Events PROVE PaysMails(e)
    <3>1. PubChance(e)' = PubChance(e) /\ Chance(p, e)' = Chance(p, e)
      BY <2>1 DEF PubChance, Chance
    <3> QED
      BY <1>1, <1>4, <1>5, <1>6, <2>1, <3>1
  <2>6. ASSUME NEW e \in Events PROVE PaysDeaths(e)
    <3>1. Failure(p, e)' \in Nat /\ Failure(p, e)' <= Failure(p, e)
      <4>1. CASE m # e
        BY <2>1, <4>1 DEF Failure
      <4>2. CASE m = e
        <5>1. cons[p].pc # "closed"
          BY <1>2, <4>2 DEF Dispatching
        <5> QED
          BY <1>1, <1>3, <2>1, <2>3, <4>2, <5>1 DEF Failure
      <4> QED
        BY <4>1, <4>2
    <3> QED
      BY <1>1, <1>4, <1>6, <2>1, <3>1
  <2> QED
    BY <2>4, <2>5, <2>6, StepPaid
<1>8. ASSUME Requeue(p) PROVE \A e \in Events : ready'[e] \in Nat /\ ready'[e] <= ready[e] + 1
  BY <1>1, <1>8 DEF Requeue
<1>9. CASE ConnectionLost(p) \/ ChannelLost(p)
  <2> DEFINE c == [cons[p] EXCEPT !.live = FALSE]
  <2>1. c.pc = cons[p].pc /\ c.msg = m /\ c.attempt = a
    BY <1>1 DEF Consumers
  <2>2. cons' = [cons EXCEPT ![p] = c]
    BY <1>1, <1>9 DEF ConnectionLost, ChannelLost, Unplug
  <2> HIDE DEF c
  <2>3. cons'[p] = c /\ \A q \in Processes : q # p => cons'[q] = cons[q]
    BY <1>1, <2>2
  <2>4. life' = life /\ Requeue(p) /\ faults' = faults + 1
    BY <1>9 DEF ConnectionLost, ChannelLost, Fault
  <2>5. Stage(p)' /\ Others
    BY <1>3, <2>1, <2>3, <2>4 DEF Stage
  <2>6. ASSUME NEW e \in Events PROVE PaysMails(e)
    <3>1. PubChance(e)' <= PubChance(e) + 1
      BY DEF PubChance
    <3>2. Chance(p, e)' = Chance(p, e)
      BY <2>1, <2>3 DEF Chance
    <3>3. ready'[e] \in Nat /\ ready'[e] <= ready[e] + 1
      BY <1>8, <2>4
    <3> QED
      BY <1>1, <1>4, <1>5, <1>6, <2>4, <3>1, <3>2, <3>3
  <2>7. ASSUME NEW e \in Events PROVE PaysDeaths(e)
    <3>1. Failure(p, e)' = Failure(p, e)
      BY <2>1, <2>3, <2>4 DEF Failure
    <3> QED
      BY <1>1, <1>4, <1>6, <2>4, <3>1
  <2> QED
    BY <2>5, <2>6, <2>7, StepPaid
<1>10. CASE Crash(p)
  <2>1. cons'[p] = Closed /\ \A q \in Processes : q # p => cons'[q] = cons[q]
    BY <1>1, <1>10 DEF Crash
  <2>2. Closed.msg = None /\ Closed.pc = "closed"
    BY DEF Closed
  <2>3. Requeue(p) /\ faults' = faults + 1 /\ \A q \in Processes : q # p => life'[q] = life[q]
    BY <1>1, <1>10 DEF Crash, Fault, Down
  <2>4. Stage(p)' /\ Others
    BY <1>1, <2>1, <2>2, <2>3 DEF Stage
  <2>5. \A e \in Events : Chance(p, e)' = 0 /\ Failure(p, e)' = 0
    BY <1>1, <2>1, <2>2 DEF Chance, Failure
  <2>6. ASSUME NEW e \in Events PROVE PaysMails(e)
    <3>1. PubChance(e)' <= PubChance(e) + 1
      BY DEF PubChance
    <3>2. ready'[e] \in Nat /\ ready'[e] <= ready[e] + 1 /\ Chance(p, e)' = 0
      BY <1>8, <2>3, <2>5
    <3> QED
      BY <1>1, <1>4, <1>5, <1>6, <2>3, <3>1, <3>2
  <2>7. ASSUME NEW e \in Events PROVE PaysDeaths(e)
    <3>1. Failure(p, e)' = 0
      BY <2>5
    <3> QED
      BY <1>1, <1>4, <1>6, <2>3, <3>1
  <2> QED
    BY <2>4, <2>6, <2>7, StepPaid
<1> QED
  BY <1>7, <1>9, <1>10

LEMMA PaidAtStart == Init => Paid
<1> SUFFICES ASSUME Init PROVE Paid
  OBVIOUS
<1>1. /\ \A p \in Processes : cons[p] = Closed
      /\ \A e \in Events : pub[e].st = "new" /\ ready[e] = 0 /\ dead[e] = 0 /\ emails[e] = 0
      /\ faults = 0 /\ \A p \in Processes : life[p] = "running"
  BY DEF Init
<1>2. Closed.msg = None /\ Closed.pc = "closed" /\ None \notin Events
  BY MessagingAssumption DEF Closed
<1>3. \A p \in Processes : Stage(p)
  BY <1>1, <1>2 DEF Stage
<1>4. ASSUME NEW e \in Events PROVE MailsPaid(e) /\ DeathsPaid(e)
  <2>1. \A p \in Processes : Chance(p, e) = 0 /\ Failure(p, e) = 0
    BY <1>1, <1>2 DEF Chance, Failure
  <2> DEFINE v == Chances(e)
             x == Failures(e)
  <2>2. /\ v \in [Processes -> Nat] /\ x \in [Processes -> Nat]
        /\ \A p \in Processes : v[p] = 0 /\ x[p] = 0
    BY <2>1 DEF Chances, Failures
  <2> HIDE DEF v, x
  <2>3. /\ IsFiniteSet(Load(v)) /\ Cardinality(Load(v)) = 0
        /\ IsFiniteSet(Load(x)) /\ Cardinality(Load(x)) = 0
    BY <2>2, LoadOfNothing
  <2>4. PubChance(e) = 1
    BY <1>1 DEF PubChance
  <2>5. MailsPaid(e)
    BY <1>1, <2>3, <2>4 DEF MailsPaid, v
  <2>6. dead[e] * (MaxAttempts - 1) = 0
    BY <1>1, MessagingAssumption
  <2> QED
    BY <1>1, <2>3, <2>5, <2>6 DEF DeathsPaid, x
<1> QED
  BY <1>3, <1>4 DEF Paid

LEMMA PaidStands == ASSUME TypeInv, Paid, [Next]_vars PROVE Paid'
<1>1. TypeInv'
  BY TypesStand
<1>2. CASE UNCHANGED vars
  <2>1. UNCHANGED <<pub, ready, dead, life, cons, emails, faults>>
    BY <1>2 DEF vars
  <2>2. \A e \in Events : Chances(e)' = Chances(e) /\ Failures(e)' = Failures(e) /\ PubChance(e)' = PubChance(e)
    BY <2>1 DEF Chances, Failures, Chance, Failure, PubChance
  <2>3. \A e \in Events : Load(Chances(e))' = Load(Chances(e)) /\ Load(Failures(e))' = Load(Failures(e))
    BY <2>2 DEF Load
  <2>4. \A p \in Processes : Stage(p)'
    BY <2>1 DEF Paid, Stage
  <2>5. \A e \in Events : MailsPaid(e)' /\ DeathsPaid(e)'
    BY <2>1, <2>2, <2>3 DEF Paid, MailsPaid, DeathsPaid
  <2> QED
    BY <2>4, <2>5 DEF Paid
<1>3. ASSUME NEW p \in Processes, Failing(p) PROVE Paid'
  BY <1>1, <1>3, ConsumerPaid, ProcessPaid DEF Failing
<1> QED
  BY <1>1, <1>2, <1>3, PublishPaid, ConsumerPaid, ProcessPaid DEF Next

\* However connections, processes and shutdowns interrupt the handlers, a customer is
\* mailed again, and a message buried, only for faults that happened.
THEOREM NothingEverUnearned == Spec => []NothingUnearned
<1>1. TypeInv /\ Paid => NothingUnearned
  <2> SUFFICES ASSUME TypeInv, Paid, NEW e \in Events
               PROVE  emails[e] <= 1 + 2 * faults /\ dead[e] * (MaxAttempts - 1) <= faults
    BY DEF NothingUnearned, MailsAreEarned, DeadLettersAreEarned
  <2>1. /\ emails[e] + PubChance(e) + ready[e] + Cardinality(Load(Chances(e))) <= 1 + 2 * faults
        /\ dead[e] * (MaxAttempts - 1) + Cardinality(Load(Failures(e))) <= faults
    BY DEF Paid, MailsPaid, DeathsPaid
  <2>2. Cardinality(Load(Chances(e))) \in Nat /\ Cardinality(Load(Failures(e))) \in Nat
    BY FS_CardinalityType DEF Paid, MailsPaid, DeathsPaid
  <2>3. PubChance(e) \in Nat /\ emails[e] \in Nat /\ ready[e] \in Nat /\ dead[e] \in Nat /\ faults \in Nat
    BY MessagingAssumption DEF TypeInv, TypeOK, PubChance
  <2>4. emails[e] <= 1 + 2 * faults
    BY <2>1, <2>2, <2>3
  <2>5. dead[e] * (MaxAttempts - 1) <= faults
    <3> DEFINE b == dead[e] * (MaxAttempts - 1)
    <3>1. b \in Int /\ b + Cardinality(Load(Failures(e))) <= faults
      BY <2>1, <2>3, MessagingAssumption
    <3> HIDE DEF b
    <3>2. b <= faults
      BY <2>2, <2>3, <3>1
    <3> QED
      BY <3>2 DEF b
  <2> QED
    BY <2>4, <2>5
<1> QED
  BY <1>1, TypesAtStart, TypesStand, PaidAtStart, PaidStands, PTL DEF Spec
=============================================================================
