------------------------------ MODULE PlanLoop ------------------------------
(***************************************************************************)
(* The loop controller (loop/_controller.py): draft, gate, repair, audit,  *)
(* judge, revise, until the plan is approved or the run escalates.         *)
(*                                                                         *)
(* A plan is an element of Plans.  What the controller reads of a plan is  *)
(* given by functions of it: its gate findings (the gates are pure), its   *)
(* re-ordered and its precondition-closed form, its structural signature   *)
(* and its content fingerprint, and the plan two oscillating revisions     *)
(* have in common.  The planner's drafts and the critic's answers are      *)
(* arbitrary: both roles are models, and both may raise.                   *)
(*                                                                         *)
(* A definition marked "Variant" is a wrong form of the one after it, kept *)
(* to confirm that a property of the run notices the slip.                 *)
(***************************************************************************)
EXTENDS Findings, Sequences

CONSTANTS
  Plans,          \* the plans the planner can draft and the fixes can produce
  NoPlan,         \* None
  Gates,          \* Gates[p]: findings of run_deterministic_gates
  Reordered,      \* Reordered[p]: topological_reorder, NoPlan when it declines
  Closed,         \* Closed[p]: p with the missing step injected, or NoPlan
  Signature,      \* Signature[p]: compute_plan_signature
  Fingerprint,    \* Fingerprint[p]: convergence._plan_fingerprint
  Merged,         \* Merged[p][q]: the tasks common to p and q, or NoPlan
  CriticFindings, \* findings the critic may report
  Repeats,        \* how often it may repeat blockers of each family
  Goals,          \* goals a run may be started with
  Configs         \* loop configurations a run may be started with

NoCeiling == 0    \* an unset ceiling of the budget (set ones are >= 1)
NoHit == "none"

Mode == {"deterministic-first", "llm-every-revision", "heuristic-only"}
RunReason == {"run_budget_exceeded", "run_depth_exceeded", "run_timeout"}
Reason == RunReason \cup
  {"approved", "critic_satisfied", "budget_exceeded", "revision_cap_reached",
   "replan_aborted", "regression_thrashing", "converged_stalled",
   "plan_oscillation_detected", "family_histogram_cycling", "planning_error"}

Goal == [risk : RiskTolerance, policy : {"patch", "restart", "abort"},
         maxRevisions : Nat, maxCalls : Nat, maxTokens : Nat]
Config == [mode : Mode, cap : Nat \ {0}, adaptiveCap : BOOLEAN, autoRepair : BOOLEAN,
           closer : BOOLEAN, window : Nat \ {0}, lag : Nat \ {0},
           autoConverge : BOOLEAN, runBudget : BOOLEAN]

ASSUME PlanAssumption ==
  /\ NoPlan \notin Plans
  /\ {"unsafe_ordering", "dependency_cycle", "unverified_precondition",
      "auto_repaired_ordering", "auto_closed_precondition",
      "auto_converge_partial_approval"} \subseteq Codes
  /\ Gates \in [Plans -> SUBSET Finding]
  /\ \A p \in Plans : IsFiniteSet(Gates[p]) /\ \A f \in Gates[p] : ~f.llm
  /\ Reordered \in [Plans -> Plans \cup {NoPlan}]
  /\ Closed \in [Plans -> Plans \cup {NoPlan}]
  /\ Merged \in [Plans -> [Plans -> Plans \cup {NoPlan}]]

ASSUME InputAssumption ==
  /\ CriticFindings \subseteq Finding /\ IsFiniteSet(CriticFindings)
  /\ Repeats \subseteq [Codes -> Nat] /\ Repeats # {}
  /\ Goals \subseteq Goal
  /\ Configs \subseteq Config

VARIABLES
  pc,            \* where the run is
  goal, cfg,     \* inputs of the run, never changed
  plan,          \* the current draft
  revision,      \* the for-loop's counter
  spend,         \* SpendState: revisions, calls, tokens, latch
  runHit,        \* what RunBudget.check() returns now
  gateFindings,  \* findings of the gates on plan, with the fixes' traces
  findings,      \* all findings of this revision
  critique,      \* history: what the critic did on this revision
  priorPlan, priorFindings,   \* last revision that was judged
  sigs, hists,   \* sig_history, hist_history
  outcome        \* the LoopResult

inputs == <<goal, cfg>>
history == <<priorPlan, priorFindings, sigs, hists>>
vars == <<pc, goal, cfg, plan, revision, spend, runHit, gateFindings, findings,
          critique, priorPlan, priorFindings, sigs, hists, outcome>>

Running == [status |-> "running", reason |-> NoHit, plan |-> NoPlan, findings |-> {}]

Info(code) == [llm |-> FALSE, sev |-> "info", code |-> code, task |-> NoTask]

(***************************************************************************)
(* Pure parts of one revision                                              *)
(***************************************************************************)

EffectiveCap == IF cfg.adaptiveCap /\ goal.risk = "strict" THEN 1 ELSE cfg.cap

\* Ordering auto-repair: only when every blocker is an ordering one, and kept
\* only when the re-ordered plan has no blocker left.
OrderingOnly(F) ==
  /\ \A f \in F : IsBlocker(f) => f.code = "unsafe_ordering"
  /\ \A f \in F : f.code # "dependency_cycle"

Repairs(p) ==
  /\ cfg.autoRepair
  /\ HasBlocker(Gates[p])
  /\ OrderingOnly(Gates[p])
  /\ Reordered[p] # NoPlan
  /\ ~HasBlocker(Gates[Reordered[p]])

AfterRepair(p) == IF Repairs(p) THEN Reordered[p] ELSE p

\* Precondition closer: kept whatever blockers are left.
Closes(p) ==
  /\ cfg.closer
  /\ \E f \in Gates[p] : f.code = "unverified_precondition"
  /\ Closed[p] # NoPlan

AfterFixes(p) == LET r == AfterRepair(p) IN IF Closes(r) THEN Closed[r] ELSE r

\* The info findings the fixes leave in the trace.
FixTraces(p) ==
  (IF Repairs(p) THEN {Info("auto_repaired_ordering")} ELSE {})
    \cup (IF Closes(AfterRepair(p)) THEN {Info("auto_closed_precondition")} ELSE {})

Breaches(ceiling, used) == ceiling # NoCeiling /\ used > ceiling

\* SpendState.check
OverBudget ==
  \/ spend.exceeded
  \/ Breaches(goal.maxRevisions, spend.revisions)
  \/ Breaches(goal.maxCalls, spend.calls)
  \/ Breaches(goal.maxTokens, spend.tokens)

GateBlocked == cfg.mode = "deterministic-first" /\ HasBlocker(gateFindings)

\* Variant: no gate finding, nothing to audit.
InvokesCriticOnFindings ==
  \/ cfg.mode = "llm-every-revision"
  \/ cfg.mode = "deterministic-first" /\ ~HasBlocker(gateFindings) /\ gateFindings # {}

\* should_invoke_llm
InvokesCritic ==
  \/ cfg.mode = "llm-every-revision"
  \/ cfg.mode = "deterministic-first" /\ ~HasBlocker(gateFindings)

RegressionDetected ==
  /\ priorFindings # {}
  /\ ~(GateBlockerKeys(findings) \subseteq GateBlockerKeys(priorFindings))

CirclingBlockers ==
  /\ GateBlockerKeys(findings) # {}
  /\ GateBlockerKeys(findings) = GateBlockerKeys(priorFindings)

NearZeroDiff == priorPlan # NoPlan /\ Fingerprint[priorPlan] = Fingerprint[plan]

Stalled == CirclingBlockers \/ NearZeroDiff

\* Variant: the window need not be full.
OscillatesEarly == \E i, j \in 1..Len(sigs) : i < j /\ sigs[i] = sigs[j]

\* detect_oscillation: a signature twice among the last window revisions.
Oscillates ==
  /\ Len(sigs) >= cfg.window
  /\ \E i, j \in (Len(sigs) - cfg.window + 1)..Len(sigs) : i < j /\ sigs[i] = sigs[j]

\* detect_histogram_cycling on h, deferring to oscillation when that can fire.
CycleStart == IF cfg.cap >= cfg.window THEN cfg.window ELSE cfg.lag + 1

\* The number of blockers a histogram counts.
Mass(histogram) == Cardinality(UNION {{c} \X (1..histogram[c]) : c \in Codes})

Cycles(h) ==
  LET n == Len(h) IN
  /\ n >= CycleStart
  /\ n >= cfg.lag + 1
  /\ n >= 2
  /\ h[n] # h[n - 1]
  /\ Mass(h[n]) >= Mass(h[n - 1])
  /\ \E p \in 2..cfg.lag : h[n] = h[n - p]

\* The history with the findings at hand, whatever was repeated in them.
NextHists ==
  {Append(hists, FamilyHistogram(findings, repeats)) : repeats \in Repeats}

(***************************************************************************)
(* Exits, in the order the code tests them                                 *)
(***************************************************************************)

\* Variant: one revision too many.
BlockedExitLate ==
  IF OverBudget THEN "budget_exceeded"
  ELSE IF runHit # NoHit THEN runHit
  ELSE IF revision > EffectiveCap THEN "revision_cap_reached"
  ELSE NoHit

\* A draft the gates blocked, deterministic-first: no critic, revise or stop.
BlockedExit ==
  IF OverBudget THEN "budget_exceeded"
  ELSE IF runHit # NoHit THEN runHit
  ELSE IF revision >= EffectiveCap THEN "revision_cap_reached"
  ELSE NoHit

Aborts == goal.policy = "abort"

\* A judged draft that missed the threshold; h is the history with its histogram.
JudgedExit(h) ==
  IF OverBudget THEN "budget_exceeded"
  ELSE IF runHit # NoHit THEN runHit
  ELSE IF Aborts THEN "replan_aborted"
  ELSE IF RegressionDetected THEN "regression_thrashing"
  ELSE IF Stalled THEN "converged_stalled"
  ELSE IF Oscillates THEN "plan_oscillation_detected"
  ELSE IF Cycles(h) THEN "family_histogram_cycling"
  ELSE IF revision >= EffectiveCap THEN "revision_cap_reached"
  ELSE NoHit

\* auto_converge: the tasks both revisions share, judged on the findings at hand.
Converged ==
  IF cfg.autoConverge /\ priorPlan # NoPlan THEN Merged[plan][priorPlan] ELSE NoPlan

ConvergedFindings == findings \cup {Info("auto_converge_partial_approval")}

\* ApprovalGate.approve is only ever reached with a satisfied threshold.
Approvable ==
  \/ MeetsThreshold(findings, goal.risk)
  \/ CriticSatisfied(findings) /\ ~HasBlocker(gateFindings)

Result(status, reason, p, F) ==
  [status |-> status, reason |-> reason, plan |-> p, findings |-> F]

EscalationOf(reason, F) == Result("escalated", reason, plan, F)

(***************************************************************************)
(* The run                                                                 *)
(***************************************************************************)

Init ==
  /\ goal \in Goals
  /\ cfg \in Configs
  /\ pc = "decompose"
  /\ plan = NoPlan
  /\ revision = 0
  /\ spend = [revisions |-> 0, calls |-> 0, tokens |-> 0, exceeded |-> FALSE]
  /\ runHit = NoHit
  /\ gateFindings = {}
  /\ findings = {}
  /\ critique = "none"
  /\ priorPlan = NoPlan
  /\ priorFindings = {}
  /\ sigs = <<>>
  /\ hists = <<>>
  /\ outcome = Running

\* A role raised, or returned something that is not a plan: PlanningError.
Fail ==
  /\ pc' = "done"
  /\ outcome' = Result("failed", "planning_error", NoPlan, {})
  /\ UNCHANGED <<inputs, plan, revision, spend, runHit, gateFindings, findings,
                 critique, history>>

\* planner.decompose
Decompose ==
  /\ pc = "decompose"
  /\ plan' \in Plans
  /\ pc' = "gates"
  /\ UNCHANGED <<inputs, revision, spend, runHit, gateFindings, findings, critique,
                 history, outcome>>

DecomposeFails == pc = "decompose" /\ Fail

\* The head of the for-loop: count the revision, run the gates, try the two
\* deterministic fixes, remember the signature.
RunGates ==
  /\ pc = "gates"
  /\ revision' = revision + 1
  /\ spend' = [spend EXCEPT !.revisions = @ + 1]
  /\ plan' = AfterFixes(plan)
  /\ gateFindings' = Gates[AfterFixes(plan)] \cup FixTraces(plan)
  /\ sigs' = Append(sigs, Signature[AfterFixes(plan)])
  /\ critique' = "none"
  /\ pc' = "dispatch"
  /\ UNCHANGED <<inputs, runHit, findings, priorPlan, priorFindings, hists, outcome>>

\* deterministic-first: a blocked draft goes back to the planner, or the run
\* stops; the prior revision, the histograms and the policy play no part.
EscalateBlocked ==
  /\ pc = "dispatch"
  /\ GateBlocked
  /\ BlockedExit # NoHit
  /\ spend' = [spend EXCEPT !.exceeded = OverBudget]
  /\ outcome' = EscalationOf(BlockedExit, gateFindings)
  /\ pc' = "done"
  /\ UNCHANGED <<inputs, plan, revision, runHit, gateFindings, findings, critique, history>>

\* Variant: the blocked draft becomes the prior plan, without its findings.
ReviseBlockedRemembers ==
  /\ pc = "dispatch"
  /\ GateBlocked
  /\ BlockedExit = NoHit
  /\ pc' = "revise"
  /\ priorPlan' = plan
  /\ UNCHANGED <<inputs, plan, revision, spend, runHit, gateFindings, findings,
                 critique, priorFindings, sigs, hists, outcome>>

ReviseBlocked ==
  /\ pc = "dispatch"
  /\ GateBlocked
  /\ BlockedExit = NoHit
  /\ pc' = "revise"
  /\ UNCHANGED <<inputs, plan, revision, spend, runHit, gateFindings, findings,
                 critique, history, outcome>>

\* Variant: the ceiling is noticed one call late.
CriticExitLate ==
  IF goal.maxCalls # NoCeiling /\ spend.calls > goal.maxCalls THEN "budget_exceeded"
  ELSE runHit

\* What ends the run before the critic is called.
CriticExit ==
  IF goal.maxCalls # NoCeiling /\ spend.calls >= goal.maxCalls THEN "budget_exceeded"
  ELSE runHit

\* No call is left for the critic.
RefuseCritic ==
  /\ pc = "dispatch"
  /\ InvokesCritic
  /\ CriticExit # NoHit
  /\ outcome' = EscalationOf(CriticExit, gateFindings)
  /\ pc' = "done"
  /\ UNCHANGED <<inputs, plan, revision, spend, runHit, gateFindings, findings,
                 critique, history>>

\* record_llm_call() is given no token count: tokens stays what it was.
CallCritic ==
  /\ pc = "dispatch"
  /\ InvokesCritic
  /\ CriticExit = NoHit
  /\ spend' = [spend EXCEPT !.calls = @ + 1]
  /\ pc' = "audit"
  /\ UNCHANGED <<inputs, plan, revision, runHit, gateFindings, findings, critique,
                 history, outcome>>

SkipCritic ==
  /\ pc = "dispatch"
  /\ ~InvokesCritic /\ ~GateBlocked
  /\ findings' = gateFindings
  /\ pc' = "judge"
  /\ UNCHANGED <<inputs, plan, revision, spend, runHit, gateFindings, critique,
                 history, outcome>>

CriticAnswers ==
  /\ pc = "audit"
  /\ \E answer \in SUBSET CriticFindings : findings' = gateFindings \cup answer
  /\ critique' = "answered"
  /\ pc' = "judge"
  /\ UNCHANGED <<inputs, plan, revision, spend, runHit, gateFindings, history, outcome>>

\* _safe_audit: an exception of the critic counts as an empty answer.
CriticFails ==
  /\ pc = "audit"
  /\ findings' = gateFindings
  /\ critique' = "failed"
  /\ pc' = "judge"
  /\ UNCHANGED <<inputs, plan, revision, spend, runHit, gateFindings, history, outcome>>

Approve ==
  /\ pc = "judge"
  /\ Approvable
  /\ outcome' = Result("approved",
                       IF MeetsThreshold(findings, goal.risk) THEN "approved"
                                                              ELSE "critic_satisfied",
                       plan, findings)
  /\ pc' = "done"
  /\ UNCHANGED <<inputs, plan, revision, spend, runHit, gateFindings, findings,
                 critique, history>>

\* Every exit of a judged draft; oscillation may approve the common tasks.
EscalateJudged ==
  /\ pc = "judge"
  /\ ~Approvable
  /\ spend' = [spend EXCEPT !.exceeded = OverBudget]
  /\ \E h \in NextHists :
       /\ JudgedExit(h) # NoHit
       /\ outcome' =
            IF /\ JudgedExit(h) = "plan_oscillation_detected"
               /\ Converged # NoPlan
               /\ MeetsThreshold(ConvergedFindings, goal.risk)
            THEN Result("approved", "approved", Converged, ConvergedFindings)
            ELSE EscalationOf(JudgedExit(h), findings)
  /\ pc' = "done"
  /\ UNCHANGED <<inputs, plan, revision, runHit, gateFindings, findings, critique, history>>

ReviseJudged ==
  /\ pc = "judge"
  /\ ~Approvable
  /\ hists' \in {h \in NextHists : JudgedExit(h) = NoHit}
  /\ priorPlan' = plan
  /\ priorFindings' = findings
  /\ pc' = "revise"
  /\ UNCHANGED <<inputs, plan, revision, spend, runHit, gateFindings, findings,
                 critique, sigs, outcome>>

\* Variant: the planner is asked again until the gates pass.
ReviseUntilClean ==
  /\ pc = "revise"
  /\ plan' \in Plans
  /\ pc' = IF HasBlocker(Gates[plan']) THEN "revise" ELSE "gates"
  /\ UNCHANGED <<inputs, revision, spend, runHit, gateFindings, findings, critique,
                 history, outcome>>

\* planner.revise
Revise ==
  /\ pc = "revise"
  /\ plan' \in Plans
  /\ pc' = "gates"
  /\ UNCHANGED <<inputs, revision, spend, runHit, gateFindings, findings, critique,
                 history, outcome>>

ReviseFails == pc = "revise" /\ Fail

\* The run-level budget is fed by the caller and by the clock; a timeout is
\* reported before any other ceiling and does not go away.
RunBudgetTrips(reason) ==
  /\ cfg.runBudget
  /\ pc # "done"
  /\ runHit \notin {"run_timeout", reason}
  /\ runHit' = reason
  /\ UNCHANGED <<inputs, pc, plan, revision, spend, gateFindings, findings, critique,
                 history, outcome>>

LoopStep ==
  \/ Decompose \/ DecomposeFails
  \/ RunGates
  \/ EscalateBlocked \/ ReviseBlocked
  \/ RefuseCritic \/ CallCritic \/ SkipCritic
  \/ CriticAnswers \/ CriticFails
  \/ Approve \/ EscalateJudged \/ ReviseJudged
  \/ Revise \/ ReviseFails

Next == LoopStep \/ \E reason \in RunReason : RunBudgetTrips(reason)

\* One thread runs the loop and both roles return or raise: every step is taken.
Spec == Init /\ [][Next]_vars /\ WF_vars(LoopStep)

-----------------------------------------------------------------------------
(***************************************************************************)
(* Properties                                                              *)
(***************************************************************************)

\* Every variable has its type.
TypeOK ==
  /\ pc \in {"decompose", "gates", "dispatch", "audit", "judge", "revise", "done"}
  /\ goal \in Goals /\ cfg \in Configs
  /\ plan \in Plans \cup {NoPlan}
  /\ pc \notin {"decompose", "done"} => plan \in Plans
  /\ revision \in Nat
  /\ spend \in [revisions : Nat, calls : Nat, tokens : Nat, exceeded : BOOLEAN]
  /\ runHit \in RunReason \cup {NoHit}
  /\ gateFindings \in SUBSET Finding /\ IsFiniteSet(gateFindings)
  /\ findings \in SUBSET Finding /\ IsFiniteSet(findings)
  /\ critique \in {"none", "answered", "failed"}
  /\ priorPlan \in Plans \cup {NoPlan} /\ priorFindings \in SUBSET Finding
  /\ sigs \in Seq({Signature[p] : p \in Plans})
  /\ hists \in Seq([Codes -> Nat])
  /\ outcome \in [status : {"running", "approved", "escalated", "failed"},
                   reason : Reason \cup {NoHit},
                   plan : Plans \cup {NoPlan},
                   findings : SUBSET Finding]

\* F-73: in every mode, under every posture, whatever the critic says and
\* whichever fixes and merges the engine applied, the plan that comes out
\* approved is one on which the gates, run on that very plan, raise no blocker.
ApprovedPlanPassesGates ==
  outcome.status = "approved" =>
    outcome.plan \in Plans /\ ~HasBlocker(Gates[outcome.plan])

\* A plan is approved on a verdict about itself: its own gate findings are in
\* the approved record, the critic was consulted on it unless the mode is
\* heuristic-only, and a strict goal has nothing but info findings left.
ApprovedOnItsOwnVerdict ==
  outcome.status = "approved" =>
    /\ Gates[outcome.plan] \subseteq outcome.findings
    /\ cfg.mode # "heuristic-only" => critique # "none" /\ outcome.plan = plan
    /\ goal.risk = "strict" => \A f \in outcome.findings : f.sev = "info"

\* F-06: whatever path the run takes, revisions stay within the cap, the critic
\* is called at most once per revision and never above max_calls, and at most
\* one revision, the one that detects the breach, goes beyond max_revisions.
SpendIsBounded ==
  /\ spend.revisions = revision /\ revision <= EffectiveCap
  /\ spend.calls <= revision
  /\ goal.maxCalls # NoCeiling => spend.calls <= goal.maxCalls
  /\ goal.maxRevisions # NoCeiling => spend.revisions <= goal.maxRevisions + 1

\* F-10: deterministic-first never spends a critic call on a plan the gates block.
NoSpendOnBlockedDraft ==
  [][cfg.mode = "deterministic-first" /\ spend'.calls > spend.calls
       => ~HasBlocker(Gates[plan])]_vars

\* The guards compare like with like: the remembered revision's findings are
\* those of the remembered plan, and were not good enough to approve it.
PriorVerdictBelongsToPriorPlan ==
  priorPlan # NoPlan =>
    Gates[priorPlan] \subseteq priorFindings /\ ~MeetsThreshold(priorFindings, goal.risk)

\* Each escalation has the cause its reason code names, and no judged draft that
\* meets the threshold is ever escalated.
EscalationIsWarranted ==
  outcome.status = "escalated" =>
    /\ outcome.reason = "budget_exceeded" =>
         \/ Breaches(goal.maxRevisions, spend.revisions)
         \/ goal.maxCalls # NoCeiling /\ spend.calls >= goal.maxCalls
    /\ outcome.reason = "revision_cap_reached" => revision = EffectiveCap
    /\ outcome.reason \in {"converged_stalled", "regression_thrashing"} => priorPlan # NoPlan
    /\ outcome.reason = "plan_oscillation_detected" => revision >= cfg.window
    /\ outcome.reason = "family_histogram_cycling" => revision >= 3
    /\ outcome.reason \in RunReason => cfg.runBudget
    /\ outcome.reason \notin RunReason \cup {"budget_exceeded"} =>
         ~MeetsThreshold(outcome.findings, goal.risk)

\* Inductive strengthening of the two approval properties: from the gates to the
\* verdict, the findings at hand are about the current plan and lose nothing.
VerdictInv ==
  /\ pc \in {"dispatch", "audit", "judge"} => Gates[plan] \subseteq gateFindings
  /\ pc = "judge" =>
       gateFindings \subseteq findings /\ (cfg.mode # "heuristic-only" => critique # "none")
  /\ pc # "done" => outcome = Running
  /\ ApprovedPlanPassesGates
  /\ ApprovedOnItsOwnVerdict

\* Inductive strengthening of SpendIsBounded: going back to the planner needs a
\* revision left under the cap and under max_revisions, and a draft at the gates
\* has had no call of its own yet.
SpendInv ==
  /\ SpendIsBounded
  /\ pc = "decompose" => revision = 0
  /\ pc \in {"gates", "revise"} =>
       /\ revision < EffectiveCap
       /\ goal.maxRevisions # NoCeiling => revision <= goal.maxRevisions
  /\ pc = "dispatch" => spend.calls < revision

\* Inductive strengthening of the two properties of the guards and escalations: the
\* histories are no longer than the run, a prior verdict has its plan, only gates
\* speak before the critic does, and the latch of the budget is set only on an exit.
HistoryInv ==
  /\ PriorVerdictBelongsToPriorPlan
  /\ priorPlan = NoPlan => priorFindings = {}
  /\ Len(sigs) = revision
  /\ Len(hists) <= revision
  /\ pc \in {"dispatch", "audit", "judge"} => Len(hists) < revision
  /\ \A f \in gateFindings : ~f.llm
  /\ spend.tokens = 0
  /\ pc # "done" => ~spend.exceeded
  /\ runHit # NoHit => cfg.runBudget
  /\ EscalationIsWarranted

\* A run always ends: with a plan, an escalation, or a PlanningError.
Terminates == <>(pc = "done" /\ outcome.status # "running")

\* The controller implements PlanningRun: a draft counts when the planner
\* returns it, a fix is the mechanical change RunGates makes to it.
FixesOf(p) ==
  LET r == {p, Reordered[p]} \ {NoPlan} IN (r \cup {Closed[q] : q \in r}) \ {NoPlan}

Contract ==
  INSTANCE PlanningRun WITH
    Drafts <- Plans,
    NoDraft <- NoPlan,
    Sound <- {p \in Plans : ~HasBlocker(Gates[p])},
    Fixes <- UNION {{p} \X FixesOf(p) : p \in Plans},
    status <- outcome.status,
    draft <- IF outcome.status = "approved" THEN outcome.plan ELSE plan,
    rounds <- revision + (IF pc = "gates" THEN 1 ELSE 0),
    limit <- EffectiveCap

ImplementsPlanningRun == Contract!RunSpec

(***************************************************************************)
(* A claim of the documentation the code does not keep                     *)
(***************************************************************************)

\* structured.py F-70: a critic without a usable answer fails closed.
NoApprovalOnFailedCritic ==
  outcome.status = "approved" => critique # "failed"

=============================================================================
