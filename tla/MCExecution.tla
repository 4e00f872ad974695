----------------------------- MODULE MCExecution -----------------------------
(***************************************************************************)
(* Two steps, the second with a live and a fixed precondition, and a tool  *)
(* that no plan has but whose description resembles a step.                *)
(***************************************************************************)
EXTENDS Execution

TwoSteps == {"migrate", "deploy", "deploy all"}
StepsPlanned == {{"migrate", "deploy"}, {"deploy"}}
Alike == [t \in TwoSteps |-> IF t = "migrate" THEN {t} ELSE {"deploy", "deploy all"}]
Setup(k, m, p) == [kind |-> k, mode |-> m, policy |-> p]
Honest == {Setup("hook", "before-each-step", "patch"), Setup("session", "before-each-step", "restart"),
           Setup("interceptor", "off", "abort"), Setup("interceptor", "before-each-step", "patch"),
           Setup("decorator", "off", "restart")}
Caching == {Setup("cached", m, "patch") : m \in {"before-each-step", "off"}}

Preconditions == {"window open", "replica healthy", "backup exists"}
Probed == {"window open", "replica healthy"}
Required == [t \in TwoSteps |->
  IF t = "deploy" THEN <<"window open", "replica healthy", "backup exists">> ELSE <<>>]

=============================================================================
