----------------------------- MODULE Messaging -----------------------------
(* Payment events on RabbitMQ: publishWithRetry on the payments side, the    *)
(* self-healing Broker (internal/messaging) and the e-mail consumer          *)
(* (internal/notifications).  RabbitMQ and the SMTP server are external: the *)
(* queue is a bag (redelivery breaks its order and the consumer does not     *)
(* need one), durable and persistent as the topology declares it.            *)
EXTENDS Naturals

CONSTANTS Events,       \* messages; one per order and outcome
          Processes,    \* application processes
          MaxPublishes, \* len(publishRetryBackoffs)+1
          MaxAttempts,  \* len(Consumer.Backoffs)+1
          MaxFaults,    \* bound: crashes, lost connections, failed sends
          MaxStops,     \* bound: orderly shutdowns
          None

ASSUME MessagingAssumption ==
    /\ None \notin Events /\ None \notin Processes
    /\ MaxPublishes \in Nat \ {0} /\ MaxAttempts \in Nat \ {0} /\ MaxFaults \in Nat
    /\ MaxStops \in Nat

VARIABLES pub,     \* the publishWithRetry call of each event
          ready,   \* copies waiting in payments.emails
          dead,    \* copies in payments.emails.dlq
          life,    \* the process: running, stopping (shutdown begun), down
          conn,    \* its AMQP connection
          cons,    \* its RunConsumer goroutine
          emails,  \* mails the SMTP server took for each event
          faults, stops

queueVars == <<ready, dead>>
bounds == <<faults, stops>>
vars == <<pub, ready, dead, life, conn, cons, emails, faults, stops>>

PubStates == {"new", "try", "sent", "stored", "cut", "confirmed", "given_up"}
Calls == [st : PubStates, tries : 0..MaxPublishes, by : Processes \cup {None}]

\* closed: between consumers; open: consuming; handling: inside the handler;
\* backoff: between two attempts; ack, reject: dispatch about to settle.
\* live says whether the consumer's channel still is; the broker holds msg as
\* unacknowledged exactly while it is.
Consumers == [pc : {"closed", "open", "handling", "backoff", "ack", "reject"},
              msg : Events \cup {None}, attempt : 0..MaxAttempts, live : BOOLEAN]
Closed == [pc |-> "closed", msg |-> None, attempt |-> 0, live |-> FALSE]
Consuming == [Closed EXCEPT !.pc = "open", !.live = TRUE]

\* The broker has a copy of e: waiting, handed out and not yet settled, or dead.
Holds(e) == \/ ready[e] > 0 \/ dead[e] > 0
            \/ \E p \in Processes : cons[p].msg = e /\ cons[p].live

Init ==
    /\ pub = [e \in Events |-> [st |-> "new", tries |-> 0, by |-> None]]
    /\ ready = [e \in Events |-> 0] /\ dead = [e \in Events |-> 0]
    /\ life = [p \in Processes |-> "running"]
    /\ conn = [p \in Processes |-> "open"]
    /\ cons = [p \in Processes |-> Closed]
    /\ emails = [e \in Events |-> 0]
    /\ faults = 0 /\ stops = 0

Fault == faults < MaxFaults /\ faults' = faults + 1 /\ UNCHANGED stops

-----------------------------------------------------------------------------
(* The broker (external) and its topology                                  *)

\* payment.* is bound to payments.emails; both are durable and the message is
\* persistent, so a broker restart keeps it.
Enqueue(e) == ready' = [ready EXCEPT ![e] = @ + 1]

\* When the channel of p closes the broker queues its unacknowledged message
\* again.
Requeue(p) ==
    ready' = IF cons[p].live /\ cons[p].msg # None
             THEN [ready EXCEPT ![cons[p].msg] = @ + 1] ELSE ready

\* What rejecting without requeue does: x-dead-letter-exchange fans the message
\* out to payments.emails.dlq.  On a dead channel Nack only returns an error.
DeadLetter(p) ==
    dead' = IF cons[p].live THEN [dead EXCEPT ![cons[p].msg] = @ + 1] ELSE dead

\* The goroutine loses its channel; whatever it is doing goes on without it.
Unplug(p) == cons' = [cons EXCEPT ![p].live = FALSE]

-----------------------------------------------------------------------------
(* Publishing: publishWithRetry around Broker.Publish                      *)

Publish(e, p) ==
    /\ pub[e].st = "new" /\ life[p] # "down"
    /\ pub' = [pub EXCEPT ![e] = [st |-> "try", tries |-> 0, by |-> p]]
    /\ UNCHANGED <<queueVars, life, conn, cons, emails, bounds>>

\* Mutant: one attempt more than there are backoffs for.
AttemptFailed_OneMore(e) ==
    pub' = [pub EXCEPT ![e].tries = @ + 1,
                       ![e].st = IF pub[e].tries = MaxPublishes THEN "given_up" ELSE "try"]

\* One attempt returned an error; after the last one the call gives up and the
\* message waits for a manual replay.
AttemptFailed(e) ==
    pub' = [pub EXCEPT ![e].tries = @ + 1,
                       ![e].st = IF pub[e].tries + 1 = MaxPublishes THEN "given_up" ELSE "try"]

\* ErrNotConnected: the watcher has not restored the connection yet.
PublishNotConnected(e) ==
    /\ pub[e].st = "try" /\ conn[pub[e].by] # "open"
    /\ AttemptFailed(e)
    /\ UNCHANGED <<queueVars, life, conn, cons, emails, bounds>>

PublishSend(e) ==
    /\ pub[e].st = "try" /\ conn[pub[e].by] = "open"
    /\ pub' = [pub EXCEPT ![e].st = "sent"]
    /\ UNCHANGED <<queueVars, life, conn, cons, emails, bounds>>

BrokerStores(e) ==
    /\ pub[e].st = "sent"
    /\ pub' = [pub EXCEPT ![e].st = "stored"]
    /\ Enqueue(e)
    /\ UNCHANGED <<dead, life, conn, cons, emails, bounds>>

\* Mutant: returns as soon as the frame is written, without WaitContext.
PublishConfirmed_NoWait(e) ==
    /\ pub[e].st \in {"sent", "stored"}
    /\ pub' = [pub EXCEPT ![e].st = "confirmed"]
    /\ UNCHANGED <<queueVars, life, conn, cons, emails, bounds>>

PublishConfirmed(e) ==
    /\ pub[e].st = "stored"
    /\ pub' = [pub EXCEPT ![e].st = "confirmed"]
    /\ UNCHANGED <<queueVars, life, conn, cons, emails, bounds>>

\* The broker refuses, the 5 s wait for the confirm runs out, or only the
\* publisher's channel breaks.  The message may have been stored all the same.
ConfirmLost(e) ==
    /\ Fault
    /\ pub[e].st \in {"sent", "stored"}
    /\ AttemptFailed(e)
    /\ UNCHANGED <<queueVars, life, conn, cons, emails>>

\* Mutant: waits for the confirm of a channel that is gone, with no timeout.
ConfirmCut_Waits(e) ==
    /\ pub[e].st = "cut"
    /\ UNCHANGED vars

\* The connection closed while waiting: the confirm cannot come any more, also
\* not after a reconnect.
ConfirmCut(e) ==
    /\ pub[e].st = "cut"
    /\ AttemptFailed(e)
    /\ UNCHANGED <<queueVars, life, conn, cons, emails, bounds>>

-----------------------------------------------------------------------------
(* Consuming: Broker.RunConsumer, Consumer.Run and dispatch                *)

OpenConsumer(p) ==
    /\ cons[p].pc = "closed" /\ life[p] = "running" /\ conn[p] = "open"
    /\ cons' = [cons EXCEPT ![p] = Consuming]
    /\ UNCHANGED <<pub, queueVars, life, conn, emails, bounds>>

\* Prefetch 1, no automatic acknowledgement.  ConsumeWithContext ends the
\* deliveries with the context.
Deliver(p, e) ==
    /\ cons[p].pc = "open" /\ cons[p].live /\ life[p] = "running" /\ ready[e] > 0
    /\ ready' = [ready EXCEPT ![e] = @ - 1]
    /\ cons' = [cons EXCEPT ![p].pc = "handling", ![p].msg = e, ![p].attempt = 1]
    /\ UNCHANGED <<pub, dead, life, conn, emails, bounds>>

\* Mutant: one attempt fewer, the loop written attempt < maxAttempts.
NextAttempt_OffByOne(p) ==
    cons' = [cons EXCEPT ![p].pc = IF cons[p].attempt + 1 < MaxAttempts THEN "backoff" ELSE "reject"]

\* The handler returned an error.
NextAttempt(p) ==
    cons' = [cons EXCEPT ![p].pc = IF cons[p].attempt < MaxAttempts THEN "backoff" ELSE "reject"]

\* sendConfirmation or sendFailure: the order is loaded, the mail is taken by the
\* SMTP server.
HandleSends(p) ==
    /\ cons[p].pc = "handling"
    /\ emails' = [emails EXCEPT ![cons[p].msg] = @ + 1]
    /\ cons' = [cons EXCEPT ![p].pc = "ack"]
    /\ UNCHANGED <<pub, queueVars, life, conn, bounds>>

\* The order does not load, or the SMTP dialogue breaks; after DATA was accepted
\* (Quit fails) the mail has gone out all the same.
HandleFails(p, gone) ==
    /\ Fault
    /\ cons[p].pc = "handling"
    /\ emails' = IF gone THEN [emails EXCEPT ![cons[p].msg] = @ + 1] ELSE emails
    /\ NextAttempt(p)
    /\ UNCHANGED <<pub, queueVars, life, conn>>

\* The shutdown cancels the context LoadByID runs under.
HandleCancelled(p) ==
    /\ cons[p].pc = "handling" /\ life[p] = "stopping"
    /\ NextAttempt(p)
    /\ UNCHANGED <<pub, queueVars, life, conn, emails, bounds>>

\* Once the context is cancelled the select takes ctx.Done() before the timer.
BackoffOver(p) ==
    /\ cons[p].pc = "backoff" /\ life[p] = "running"
    /\ cons' = [cons EXCEPT ![p].pc = "handling", ![p].attempt = @ + 1]
    /\ UNCHANGED <<pub, queueVars, life, conn, emails, bounds>>

\* dispatch is over; the channel is what it was.
Dispatched(p) == cons' = [cons EXCEPT ![p] = [Closed EXCEPT !.pc = "open", !.live = cons[p].live]]

\* Mutant: the shutdown acknowledges what it did not handle.
BackoffStopped_Acks(p) ==
    /\ cons[p].pc = "backoff" /\ life[p] = "stopping"
    /\ Dispatched(p)
    /\ UNCHANGED <<pub, ready, dead, life, conn, emails, bounds>>

\* Shutdown in the middle of the retries: Nack with requeue.
BackoffStopped(p) ==
    /\ cons[p].pc = "backoff" /\ life[p] = "stopping"
    /\ Requeue(p)
    /\ Dispatched(p)
    /\ UNCHANGED <<pub, dead, life, conn, emails, bounds>>

\* Mutant: a handled message is put back instead of acknowledged.
Ack_Requeues(p) ==
    /\ cons[p].pc = "ack"
    /\ Requeue(p)
    /\ Dispatched(p)
    /\ UNCHANGED <<pub, dead, life, conn, emails, bounds>>

\* Ack and Nack on a dead channel are logged and change nothing.
Ack(p) ==
    /\ cons[p].pc = "ack"
    /\ Dispatched(p)
    /\ UNCHANGED <<pub, queueVars, life, conn, emails, bounds>>

Reject(p) ==
    /\ cons[p].pc = "reject"
    /\ DeadLetter(p)
    /\ Dispatched(p)
    /\ UNCHANGED <<pub, ready, life, conn, emails, bounds>>

\* Run returns (shutdown, or the delivery channel was closed) and RunConsumer
\* closes the consumer's channel.
CloseConsumer(p) ==
    /\ cons[p].pc = "open" /\ (life[p] = "stopping" \/ ~cons[p].live)
    /\ cons' = [cons EXCEPT ![p] = Closed]
    /\ UNCHANGED <<pub, queueVars, life, conn, emails, bounds>>

-----------------------------------------------------------------------------
(* Connections and processes                                               *)

InFlight(e, p) == pub[e].by = p /\ pub[e].st \in {"try", "sent", "stored", "cut"}
Waiting(e, p) == pub[e].by = p /\ pub[e].st \in {"sent", "stored"}

\* The connection drops (or RabbitMQ restarts).
ConnectionLost(p) ==
    /\ Fault
    /\ conn[p] = "open"
    /\ conn' = [conn EXCEPT ![p] = "lost"]
    /\ Requeue(p) /\ Unplug(p)
    /\ pub' = [e \in Events |-> IF Waiting(e, p) THEN [pub[e] EXCEPT !.st = "cut"] ELSE pub[e]]
    /\ UNCHANGED <<dead, life, emails>>

\* Only the consumer's channel is closed.
ChannelLost(p) ==
    /\ Fault
    /\ cons[p].live
    /\ Requeue(p) /\ Unplug(p)
    /\ UNCHANGED <<pub, dead, life, conn, emails>>

\* watch, until it has dialled and declared the topology again.
Reconnect(p) ==
    /\ conn[p] = "lost"
    /\ conn' = [conn EXCEPT ![p] = "open"]
    /\ UNCHANGED <<pub, queueVars, life, cons, emails, bounds>>

Down(p) ==
    /\ life' = [life EXCEPT ![p] = "down"]
    /\ conn' = [conn EXCEPT ![p] = "closed"]

Stop(p) ==
    /\ life[p] = "running" /\ stops < MaxStops
    /\ life' = [life EXCEPT ![p] = "stopping"] /\ stops' = stops + 1
    /\ UNCHANGED <<pub, queueVars, conn, cons, emails, faults>>

\* The consumer has drained and the server has no request left: main returns
\* and the deferred Close tears the connection down.
Exit(p) ==
    /\ life[p] = "stopping" /\ cons[p].pc = "closed"
    /\ \A e \in Events : ~InFlight(e, p)
    /\ Down(p)
    /\ UNCHANGED <<pub, queueVars, cons, emails, bounds>>

\* A crash, or a shutdown that ran out of its 10 s.
Crash(p) ==
    /\ Fault
    /\ life[p] # "down"
    /\ Down(p)
    /\ Requeue(p)
    /\ cons' = [cons EXCEPT ![p] = Closed]
    /\ pub' = [e \in Events |-> IF InFlight(e, p) THEN [pub[e] EXCEPT !.st = "given_up"] ELSE pub[e]]
    /\ UNCHANGED <<dead, emails>>

\* The container's restart policy brings the process back; NewBroker returns once
\* it has a connection.
Restart(p) ==
    /\ life[p] = "down"
    /\ life' = [life EXCEPT ![p] = "running"]
    /\ conn' = [conn EXCEPT ![p] = "open"]
    /\ UNCHANGED <<pub, queueVars, cons, emails, bounds>>

-----------------------------------------------------------------------------

Publishing(e) == \/ PublishNotConnected(e) \/ PublishSend(e) \/ BrokerStores(e)
                 \/ PublishConfirmed(e) \/ ConfirmCut(e)

Working(p) == \/ HandleSends(p) \/ HandleCancelled(p) \/ BackoffOver(p) \/ BackoffStopped(p)
              \/ Ack(p) \/ Reject(p) \/ CloseConsumer(p) \/ OpenConsumer(p)
              \/ \E e \in Events : Deliver(p, e)

Recovering(p) == Reconnect(p) \/ Restart(p) \/ Exit(p)

Failing(p) == \/ ConnectionLost(p) \/ ChannelLost(p) \/ Crash(p)
              \/ \E gone \in BOOLEAN : HandleFails(p, gone)

Next == \/ \E e \in Events, p \in Processes : Publish(e, p)
        \/ \E e \in Events : Publishing(e) \/ ConfirmLost(e)
        \/ \E p \in Processes : Working(p) \/ Recovering(p) \/ Failing(p) \/ Stop(p)

\* Goroutines that can go on do, RabbitMQ answers, and whatever went down comes
\* back.
Fairness == /\ \A e \in Events : WF_vars(Publishing(e))
            /\ \A p \in Processes : WF_vars(Working(p)) /\ WF_vars(Recovering(p))

Spec == Init /\ [][Next]_vars
FairSpec == Spec /\ Fairness

-----------------------------------------------------------------------------
(* Properties                                                              *)

TypeOK ==
    /\ pub \in [Events -> Calls]
    /\ ready \in [Events -> Nat] /\ dead \in [Events -> Nat]
    /\ life \in [Processes -> {"running", "stopping", "down"}]
    /\ conn \in [Processes -> {"open", "lost", "closed"}]
    /\ cons \in [Processes -> Consumers]
    /\ emails \in [Events -> Nat]
    /\ faults \in 0..MaxFaults /\ stops \in 0..MaxStops

\* A publish that returned nil is never lost: through reconnects, redeliveries,
\* shutdowns and crashes there is a copy of the message somewhere, or its mail
\* was sent.  (publishConfirmHeaders, dispatch, watch.)
ConfirmedIsKept == \A e \in Events : pub[e].st = "confirmed" => Holds(e) \/ emails[e] > 0

\* A customer is not mailed twice for nothing: every failure accounts for at most
\* two further mails (one connection lost can cost both a confirm and an
\* acknowledgement), and without one the mail goes out once.
MailsAreEarned == \A e \in Events : emails[e] <= 1 + 2 * faults

\* No message is dead-lettered before its attempts are used up, even by a
\* shutdown that cancels the last of them.
DeadLettersAreEarned == \A e \in Events : dead[e] * (MaxAttempts - 1) <= faults

\* The queue and its consumers implement the promise: what the broker has taken
\* stays, and in the end its mail is sent or it is dead-lettered.
Kept == {e \in Events : Holds(e) \/ emails[e] > 0}
Handled == {e \in Events : emails[e] > 0 \/ dead[e] > 0}
Promise == INSTANCE AtLeastOnce WITH kept <- Kept, handled <- Handled
DeliversAtLeastOnce == Promise!Spec

\* A webhook handler is not held up for ever by the broker: publishWithRetry
\* returns.
PublishSettles ==
    \A e \in Events : pub[e].st = "try" ~> pub[e].st \in {"confirmed", "given_up"}

\* Repeats and dead letters are paid for by faults: neither a shutdown nor a
\* redelivery makes one out of nothing.
NothingUnearned == MailsAreEarned /\ DeadLettersAreEarned
=============================================================================
