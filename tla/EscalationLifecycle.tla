-------------------------- MODULE EscalationLifecycle --------------------------
(***************************************************************************)
(* What the desk promises about a question to the reviewers, with no lock  *)
(* between those who take it up: it is asked once, whoever takes it up     *)
(* finds it without an answer, and each of them answers it at most once.   *)
(***************************************************************************)
CONSTANTS Questions, Reviewers
VARIABLES
  asked,     \* the questions asked so far
  inHand,    \* who has taken up which question
  answered   \* who has answered which question

Init == asked = {} /\ inHand = {} /\ answered = {}

Ask(q) ==
  /\ q \in Questions \ asked
  /\ asked' = asked \cup {q}
  /\ UNCHANGED <<inHand, answered>>

TakeUp(r, q) ==
  /\ q \in asked
  /\ \A x \in Reviewers : <<x, q>> \notin answered
  /\ \A p \in Questions : <<r, p>> \notin inHand
  /\ inHand' = inHand \cup {<<r, q>>}
  /\ UNCHANGED <<asked, answered>>

Answer(r, q) ==
  /\ <<r, q>> \in inHand \ answered
  /\ inHand' = inHand \ {<<r, q>>}
  /\ answered' = answered \cup {<<r, q>>}
  /\ UNCHANGED asked

PutDown(r, q) ==
  /\ <<r, q>> \in inHand
  /\ inHand' = inHand \ {<<r, q>>}
  /\ UNCHANGED <<asked, answered>>

Next ==
  \E q \in Questions :
    \/ Ask(q)
    \/ \E r \in Reviewers : TakeUp(r, q) \/ Answer(r, q) \/ PutDown(r, q)

Spec == Init /\ [][Next]_<<asked, inHand, answered>>

=============================================================================
