------------------------------ MODULE Delivery ------------------------------
(***************************************************************************)
(* What a notifier promises of an event and a surface: the surface may get *)
(* the event any number of times once a dispatch began, whoever waits for  *)
(* the dispatch is told of a delivery only after one, and a dispatch is    *)
(* over only when every surface it is for was delivered to or given up on. *)
(***************************************************************************)
CONSTANTS Surfaces, Events

VARIABLES
  open,      \* the events being dispatched, each with the surfaces still to serve
  reached,   \* reached[s]: the events surface s has got
  confirmed  \* confirmed[s]: the events whose delivery to s was reported

vars == <<open, reached, confirmed>>

Init ==
  /\ open = [e \in Events |-> {}]
  /\ reached = [s \in Surfaces |-> {}]
  /\ confirmed = [s \in Surfaces |-> {}]

Begin(e, for) ==
  /\ open[e] = {}
  /\ open' = [open EXCEPT ![e] = for]
  /\ UNCHANGED <<reached, confirmed>>

\* The surface takes the event, and nobody may learn of it.
Arrive(s, e) ==
  /\ s \in open[e]
  /\ reached' = [reached EXCEPT ![s] = @ \cup {e}]
  /\ UNCHANGED <<open, confirmed>>

Confirm(s, e) ==
  /\ s \in open[e]
  /\ reached' = [reached EXCEPT ![s] = @ \cup {e}]
  /\ confirmed' = [confirmed EXCEPT ![s] = @ \cup {e}]
  /\ open' = [open EXCEPT ![e] = @ \ {s}]

\* Every attempt failed; the last of them may have arrived all the same.
GiveUp(s, e) ==
  /\ s \in open[e]
  /\ reached' \in {reached, [reached EXCEPT ![s] = @ \cup {e}]}
  /\ open' = [open EXCEPT ![e] = @ \ {s}]
  /\ UNCHANGED confirmed

Next ==
  \E e \in Events :
    \/ \E for \in SUBSET Surfaces : Begin(e, for)
    \/ \E s \in Surfaces : Arrive(s, e) \/ Confirm(s, e) \/ GiveUp(s, e)

Spec == Init /\ [][Next]_vars

=============================================================================
