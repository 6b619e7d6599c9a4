---------------------------- MODULE AtLeastOnce ----------------------------
(* What the payment-event queue promises: a message the broker has taken is *)
(* kept until it is dealt with (its mail sent, or the message dead-lettered *)
(* for a person to look at), and it is dealt with in the end.               *)
EXTENDS Naturals

CONSTANT Events

VARIABLES kept, handled
vars == <<kept, handled>>

TypeOK == kept \subseteq Events /\ handled \subseteq kept

Init == kept = {} /\ handled = {}

Accept(e) == e \notin kept /\ kept' = kept \cup {e} /\ UNCHANGED handled
Handle(e) == e \in kept \ handled /\ handled' = handled \cup {e} /\ UNCHANGED kept

Next == \E e \in Events : Accept(e) \/ Handle(e)

\* The safety half: nothing the queue has taken is forgotten, and nothing is
\* dealt with that was never taken.
Safety == Init /\ [][Next]_vars

\* The whole promise.
Spec == Safety /\ \A e \in Events : WF_vars(Handle(e))
=============================================================================
