------------------------------- MODULE Guards -------------------------------
(***************************************************************************)
(* The guards that stand before the tools of an agent framework: the       *)
(* LangGraph hook, the CrewAI interceptor, the AutoGen adapter, the        *)
(* guardrail decorator, and the guards of the OpenAI Agents SDK and of     *)
(* PydanticAI, which keep the first result of the engine.  A guard asks    *)
(* the engine for a plan, holds what it was told, and admits or refuses a  *)
(* tool call by it.                                                        *)
(*                                                                         *)
(* The engine may approve or escalate any plan; the framework, which       *)
(* decides when a tool is called, is external.  dry_run, which runs the    *)
(* tool in any case, and callbacks are left out.                           *)
(***************************************************************************)
EXTENDS Naturals, Sequences, SequencesExt

CONSTANTS
  Kinds,      \* which guards may be in use: a subset of AllKinds
  Tasks,      \* the tasks of plans and the tools an agent may try
  Plans,      \* the plans the planner can produce: sets of tasks
  Resembles   \* Resembles[t]: the tasks whose description contains that of t,
              \* or is contained in it

AllKinds == {"hook", "interceptor", "session", "decorator", "cached"}

ASSUME GuardsAssumption ==
  /\ Kinds \subseteq AllKinds
  /\ Plans \subseteq SUBSET Tasks /\ {} \notin Plans
  /\ Resembles \in [Tasks -> SUBSET Tasks] /\ \A t \in Tasks : t \in Resembles[t]

VARIABLES
  kind,    \* the guard in use
  result   \* _approved, last_result or _result: what the guard holds

Nothing == [status |-> "none", plan |-> {}]
Results == [status : {"approved", "escalated"}, plan : Plans]
IsApproved == result.status = "approved"

\* The hook is given result.approved_plan, which an escalated result has not;
\* the interceptor is only made of an approved plan.  The others keep the result
\* before they look at it.
Kept(r) == IF kind \in {"hook", "interceptor"} /\ r.status # "approved" THEN Nothing ELSE r

\* A guard that has a result does not ask again, except the adapter whose
\* gate_plan is called again and the decorator, which asks before every call.
MayConsult == kind \in {"session", "decorator"} \/ result = Nothing

Consult(r) == MayConsult /\ result' = Kept(r) /\ UNCHANGED kind

\* Variant: the adapter looks for the step in the plan of any result.
AdmitsAny(t) ==
  \/ kind \in {"hook", "decorator"} /\ IsApproved
  \/ kind = "interceptor" /\ Resembles[t] \cap result.plan # {}
  \/ kind = "session" /\ t \in result.plan
  \/ kind = "cached" /\ result # Nothing

\* A tool call comes through instead of raising.  A cached result is returned
\* whatever it says.
Admits(t) ==
  \/ kind \in {"hook", "decorator"} /\ IsApproved
  \/ kind = "interceptor" /\ Resembles[t] \cap result.plan # {}
  \/ kind = "session" /\ IsApproved /\ t \in result.plan
  \/ kind = "cached" /\ result # Nothing

\* A new guard, or a new process: nothing is held.
Renew == result' = Nothing /\ UNCHANGED kind

=============================================================================
