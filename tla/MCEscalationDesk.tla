--------------------------- MODULE MCEscalationDesk ---------------------------
(***************************************************************************)
(* Small instances of EscalationDesk.                                      *)
(***************************************************************************)
EXTENDS EscalationDesk, TLC

CONSTANTS run1, run2, alice, bob

OneGoal == {"g"}
OnePlan == {"plan-a"}
OnePlanGoal == [p \in OnePlan |-> "g"]
OnePlanRank == [p \in OnePlan |-> 1]

TwoBodies == {"clean", "blocked"}
CleanBody == {"clean"}

TwoRunners == {run1, run2}
OneReviewer == {alice}
TwoReviewers == {alice, bob}
HttpOnly == {"http"}

\* plancritic plan stores what an audit may store.
NoCli == Surface \ {"cli"}

WriterSymmetry == Permutations(TwoRunners) \cup Permutations(TwoReviewers)

=============================================================================
