----------------------------- MODULE MCNotifier -----------------------------
(***************************************************************************)
(* Two surfaces and a question that is asked anew under the key of the     *)
(* first.                                                                  *)
(***************************************************************************)
EXTENDS Notifier

TwoEvents == {"question", "question again"}
OneKey == {"escalation"}
SharedKey == [e \in TwoEvents |-> "escalation"]

=============================================================================
