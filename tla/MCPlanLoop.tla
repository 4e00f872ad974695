----------------------------- MODULE MCPlanLoop -----------------------------
(***************************************************************************)
(* Small instances of PlanLoop: plans that differ in what the gates say.   *)
(***************************************************************************)
EXTENDS PlanLoop

MCCodes ==
  {"unsafe_ordering", "dependency_cycle", "unverified_precondition",
   "auto_repaired_ordering", "auto_closed_precondition",
   "auto_converge_partial_approval", "missing_verification", "missing_rollback",
   "feasibility", "risk", "weak_rollback"}
MCTasks == {"t1"}

F(llm, sev, code) == [llm |-> llm, sev |-> sev, code |-> code, task |-> "t1"]
Gate(sev, code) == F(FALSE, sev, code)
LLM(sev, family) == F(TRUE, sev, family)

\* clean: nothing; warned: a gate warning; swapped: tasks out of order; crossed:
\* out of order, and re-ordering breaks a precondition; gap: a precondition no
\* earlier step establishes; tangled: both; naked: out of the fixes' reach.
MCPlans == {"clean", "warned", "swapped", "crossed", "gap", "tangled", "naked"}
MCGates ==
  [p \in MCPlans |->
    CASE p = "clean" -> {}
      [] p = "warned" -> {Gate("warning", "missing_rollback")}
      [] p \in {"swapped", "crossed"} -> {Gate("blocker", "unsafe_ordering")}
      [] p = "gap" -> {Gate("blocker", "unverified_precondition")}
      [] p = "tangled" -> {Gate("blocker", "unsafe_ordering"),
                           Gate("blocker", "unverified_precondition")}
      [] p = "naked" -> {Gate("blocker", "missing_verification")}]
MCReordered ==
  [p \in MCPlans |-> CASE p = "swapped" -> "clean"
                      [] p \in {"crossed", "tangled"} -> "gap"
                      [] OTHER -> "none"]
MCClosed ==
  [p \in MCPlans |-> CASE p = "gap" -> "clean"
                      [] p = "tangled" -> "swapped"
                      [] OTHER -> "none"]
MCSignature ==
  [p \in MCPlans |-> IF p \in {"clean", "swapped"} THEN "chain" ELSE p]
MCFingerprint == [p \in MCPlans |-> p]
MCMerged ==
  [p \in MCPlans |-> [q \in MCPlans |-> IF "clean" \in {p, q} THEN "clean" ELSE "none"]]

\* What the critic's guardrails let through: risk is never a blocker.
MCCriticFindings ==
  {LLM("blocker", "feasibility"), LLM("blocker", "weak_rollback"), LLM("warning", "risk")}

\* A plan that is infeasible may be so in two ways.
MCRepeats == {[c \in MCCodes |-> 0], [c \in MCCodes |-> IF c = "feasibility" THEN 1 ELSE 0]}

G(risk, policy, maxRevisions, maxCalls, maxTokens) ==
  [risk |-> risk, policy |-> policy, maxRevisions |-> maxRevisions,
   maxCalls |-> maxCalls, maxTokens |-> maxTokens]
MCGoals ==
  {G("strict", "patch", 0, 0, 1), G("balanced", "patch", 0, 0, 0),
   G("strict", "abort", 0, 0, 0), G("strict", "restart", 1, 0, 0),
   G("permissive", "patch", 0, 1, 0)}

C(mode, cap, window, converge, runBudget) ==
  [mode |-> mode, cap |-> cap, adaptiveCap |-> FALSE, autoRepair |-> TRUE,
   closer |-> TRUE, window |-> window, lag |-> 2, autoConverge |-> converge,
   runBudget |-> runBudget]

\* Stock configuration (revision cap 3, window 4, lag 2) in the three modes,
\* with the fixes off, and with the adaptive cap.
ModeConfigs ==
  {C(m, 3, 4, FALSE, FALSE) : m \in Mode}
    \cup {[C("deterministic-first", 3, 4, FALSE, FALSE)
             EXCEPT !.autoRepair = FALSE, !.closer = FALSE],
          [C("llm-every-revision", 2, 4, FALSE, TRUE) EXCEPT !.adaptiveCap = TRUE]}

\* Runs in which oscillation is looked for within the cap.
StallConfigs ==
  {C(m, 3, 3, TRUE, FALSE) : m \in {"deterministic-first", "llm-every-revision"}}

AllConfigs == ModeConfigs \cup StallConfigs

=============================================================================
