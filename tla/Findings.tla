------------------------------ MODULE Findings ------------------------------
(***************************************************************************)
(* Findings and the approval threshold.                                    *)
(*                                                                         *)
(* A finding is what a deterministic gate or the critic says about a plan  *)
(* (types.Finding).  Only what the engine's decisions read is kept: who    *)
(* raised it (a gate, or the LLM critic: Finding.is_llm_finding), its      *)
(* severity, its code (the gate's reason_code, or the critic's heuristic   *)
(* family) and the task it is about.  The list a revision collects is a    *)
(* set: no decision depends on its order, and on repetitions only the      *)
(* histogram, which is told of them.                                       *)
(***************************************************************************)
EXTENDS FiniteSets, Naturals

CONSTANTS Codes, Tasks

Severity == {"blocker", "warning", "info"}
RiskTolerance == {"strict", "balanced", "permissive"}
NoTask == "no_task"

Finding == [llm : BOOLEAN, sev : Severity, code : Codes, task : Tasks \cup {NoTask}]

IsBlocker(f) == f.sev = "blocker"
HasBlocker(F) == \E f \in F : IsBlocker(f)

\* A deterministic gate's blocker, keyed as regression.py and convergence.py do.
GateBlockerKeys(F) ==
  {<<f.code, f.task>> : f \in {g \in F : IsBlocker(g) /\ ~g.llm}}

\* Variant of HardBlockers: every blocker is negotiable unless the goal is strict.
HardBlockersStrictOnly(F, risk) == {f \in F : IsBlocker(f) /\ risk = "strict"}

(***************************************************************************)
(* resolve_threshold: a blocker of the critic is only acknowledged unless  *)
(* the goal is strict; a blocker of a gate always disqualifies; a warning  *)
(* is pending under strict and acknowledged otherwise.                     *)
(***************************************************************************)
HardBlockers(F, risk) == {f \in F : IsBlocker(f) /\ (f.llm => risk = "strict")}
PendingWarnings(F, risk) == {f \in F : f.sev = "warning" /\ risk = "strict"}
Acknowledged(F, risk) == {f \in F : f.sev # "info" /\ risk # "strict" /\ (IsBlocker(f) => f.llm)}

MeetsThreshold(F, risk) == HardBlockers(F, risk) = {} /\ PendingWarnings(F, risk) = {}

\* _critic_satisfied: nothing but info findings is left.
CriticSatisfied(F) == \A f \in F : f.sev \notin {"blocker", "warning"}

(***************************************************************************)
(* histogram.py: blockers of the critic counted per heuristic family.  A   *)
(* family may be reported of one task more than once: repeats[c] is the    *)
(* number of blockers of family c the set F does not tell apart.           *)
(***************************************************************************)
LLMBlockers(F) == {f \in F : IsBlocker(f) /\ f.llm}
Families(F) == {f.code : f \in LLMBlockers(F)}
FamilyHistogram(F, repeats) ==
  [c \in Codes |-> Cardinality({f \in LLMBlockers(F) : f.code = c})
                     + (IF c \in Families(F) THEN repeats[c] ELSE 0)]

=============================================================================
