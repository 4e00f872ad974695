--------------------------- MODULE PlanLoopProofs ---------------------------
(***************************************************************************)
(* Proofs about the loop controller, for any plans, gates, fixes, critic   *)
(* answers, goals and configurations.                                      *)
(***************************************************************************)
EXTENDS PlanLoop, FiniteSetTheorems, TLAPS

(***************************************************************************)
(* Lemmas about findings and the threshold                                 *)
(***************************************************************************)

\* A set without warnings and blockers meets the threshold of every posture:
\* the controller's critic-satisfied branch approves nothing the threshold
\* check before it has not approved already.
LEMMA SatisfiedMeetsThreshold ==
  ASSUME NEW A, NEW risk, CriticSatisfied(A)
  PROVE  MeetsThreshold(A, risk)
  BY DEF CriticSatisfied, MeetsThreshold, HardBlockers, PendingWarnings, IsBlocker

\* Whatever meets the threshold still meets it with fewer findings.
LEMMA ThresholdIsAntitone ==
  ASSUME NEW A, NEW B, A \subseteq B, NEW risk, MeetsThreshold(B, risk)
  PROVE  MeetsThreshold(A, risk)
  BY DEF MeetsThreshold, HardBlockers, PendingWarnings

\* No posture approves over a blocker of a gate.
LEMMA GateBlockerMissesThreshold ==
  ASSUME NEW A, NEW risk, NEW f \in A, IsBlocker(f), ~f.llm
  PROVE  ~MeetsThreshold(A, risk)
  BY DEF MeetsThreshold, HardBlockers

\* A histogram counts a finite number of findings for each family.
LEMMA HistogramType ==
  ASSUME NEW A, IsFiniteSet(A), NEW repeats \in [Codes -> Nat]
  PROVE  FamilyHistogram(A, repeats) \in [Codes -> Nat]
<1>1. SUFFICES ASSUME NEW c \in Codes
               PROVE  Cardinality({f \in LLMBlockers(A) : f.code = c}) \in Nat
  BY DEF FamilyHistogram
<1>2. {f \in LLMBlockers(A) : f.code = c} \subseteq A
  BY DEF LLMBlockers
<1>3. IsFiniteSet({f \in LLMBlockers(A) : f.code = c})
  BY <1>2, FS_Subset
<1> QED
  BY <1>3, FS_CardinalityType

\* An info finding the engine writes is a finding.
LEMMA InfoType ==
  ASSUME NEW c \in Codes
  PROVE  Info(c) \in Finding
  BY DEF Info, Finding, Severity, NoTask

\* The fixes turn a plan into a plan.
LEMMA FixesType ==
  ASSUME NEW p \in Plans
  PROVE  /\ AfterRepair(p) \in Plans
         /\ AfterFixes(p) \in Plans
  BY PlanAssumption DEF AfterRepair, AfterFixes, Repairs, Closes

\* The traces of the fixes are at most two info findings.
LEMMA TracesType ==
  ASSUME NEW p \in Plans
  PROVE  /\ FixTraces(p) \in SUBSET Finding
         /\ IsFiniteSet(FixTraces(p))
         /\ \A f \in FixTraces(p) : ~IsBlocker(f) /\ ~f.llm
<1>1. /\ Info("auto_repaired_ordering") \in Finding
      /\ Info("auto_closed_precondition") \in Finding
  BY PlanAssumption, InfoType
<1>2. FixTraces(p) \subseteq {Info("auto_repaired_ordering"), Info("auto_closed_precondition")}
  BY DEF FixTraces
<1>3. IsFiniteSet({Info("auto_repaired_ordering"), Info("auto_closed_precondition")})
  <2> DEFINE a == Info("auto_repaired_ordering")
             b == Info("auto_closed_precondition")
  <2>1. IsFiniteSet({a}) /\ {a, b} = {a} \cup {b}
    BY FS_Singleton
  <2> HIDE DEF a, b
  <2>2. IsFiniteSet({a, b})
    BY <2>1, FS_AddElement
  <2> QED
    BY <2>2 DEF a, b
<1>4. \A f \in FixTraces(p) : ~IsBlocker(f) /\ ~f.llm
  BY <1>2 DEF Info, IsBlocker
<1> QED
  BY <1>1, <1>2, <1>3, <1>4, FS_Subset

(***************************************************************************)
(* Type correctness                                                        *)
(***************************************************************************)

\* The result record of every exit has its type.
LEMMA ResultType ==
  ASSUME NEW st \in {"running", "approved", "escalated", "failed"},
         NEW reason \in Reason \cup {NoHit},
         NEW p \in Plans \cup {NoPlan},
         NEW A \in SUBSET Finding
  PROVE  Result(st, reason, p, A) \in
           [status : {"running", "approved", "escalated", "failed"},
            reason : Reason \cup {NoHit},
            plan : Plans \cup {NoPlan},
            findings : SUBSET Finding]
  BY DEF Result

LEMMA ExitTypes ==
  ASSUME TypeOK
  PROVE  /\ BlockedExit \in Reason \cup {NoHit}
         /\ \A h : JudgedExit(h) \in Reason \cup {NoHit}
         /\ CriticExit \in Reason \cup {NoHit}
<1>1. runHit \in Reason \cup {NoHit}
  BY DEF TypeOK, Reason
<1>2. BlockedExit \in Reason \cup {NoHit}
  BY <1>1 DEF BlockedExit, Reason
<1>3. \A h : JudgedExit(h) \in Reason \cup {NoHit}
  BY <1>1 DEF JudgedExit, Reason
<1>4. CriticExit \in Reason \cup {NoHit}
  BY <1>1 DEF CriticExit, Reason
<1> QED
  BY <1>2, <1>3, <1>4

\* The merged plan is a plan, its findings are findings.
LEMMA ConvergedType ==
  ASSUME TypeOK, pc = "judge"
  PROVE  /\ Converged \in Plans \cup {NoPlan}
         /\ ConvergedFindings \in SUBSET Finding
<1>1. plan \in Plans /\ priorPlan \in Plans \cup {NoPlan}
  BY DEF TypeOK
<1>2. Converged \in Plans \cup {NoPlan}
  BY <1>1, PlanAssumption DEF Converged
<1>3. Info("auto_converge_partial_approval") \in Finding
  BY PlanAssumption, InfoType
<1> QED
  BY <1>2, <1>3 DEF ConvergedFindings, TypeOK

\* Every variable keeps its type, whatever the roles answer.
THEOREM TypeCorrect == Spec => []TypeOK
<1>1. Init => TypeOK
  <2> SUFFICES ASSUME Init PROVE TypeOK
    OBVIOUS
  <2>1. IsFiniteSet({})
    BY FS_EmptySet
  <2> QED
    BY <2>1 DEF Init, TypeOK, Running, Reason, NoHit
<1>2. TypeOK /\ [Next]_vars => TypeOK'
  <2> SUFFICES ASSUME TypeOK, [Next]_vars
               PROVE  TypeOK'
    OBVIOUS
  <2> USE DEF inputs, history
  <2>1. CASE Decompose
    BY <2>1 DEF Decompose, TypeOK
  <2>2. CASE DecomposeFails \/ ReviseFails
    <3>1. Fail
      BY <2>2 DEF DecomposeFails, ReviseFails
    <3>2. Result("failed", "planning_error", NoPlan, {}) \in
           [status : {"running", "approved", "escalated", "failed"},
            reason : Reason \cup {NoHit},
            plan : Plans \cup {NoPlan},
            findings : SUBSET Finding]
      BY ResultType DEF Reason
    <3> QED
      BY <3>1, <3>2 DEF Fail, TypeOK
  <2>3. CASE RunGates
    <3> DEFINE q == AfterFixes(plan)
    <3>1. plan \in Plans
      BY <2>3 DEF RunGates, TypeOK
    <3>2. q \in Plans /\ FixTraces(plan) \in SUBSET Finding /\ IsFiniteSet(FixTraces(plan))
      BY <3>1, FixesType, TracesType
    <3>3. Gates[q] \in SUBSET Finding /\ IsFiniteSet(Gates[q])
      BY <3>2, PlanAssumption
    <3>4. IsFiniteSet(Gates[q] \cup FixTraces(plan))
      BY <3>2, <3>3, FS_Union
    <3>5. sigs' \in Seq({Signature[p] : p \in Plans})
      BY <2>3, <3>2 DEF RunGates, TypeOK
    <3>6. spend' \in [revisions : Nat, calls : Nat, tokens : Nat, exceeded : BOOLEAN]
      <4>1. spend \in [revisions : Nat, calls : Nat, tokens : Nat, exceeded : BOOLEAN]
        BY DEF TypeOK
      <4>2. spend' = [spend EXCEPT !.revisions = spend.revisions + 1]
        BY <2>3 DEF RunGates
      <4> QED
        BY <4>1, <4>2
    <3>7. gateFindings' \in SUBSET Finding /\ IsFiniteSet(gateFindings')
      BY <2>3, <3>2, <3>3, <3>4 DEF RunGates
    <3>8. plan' \in Plans
      BY <2>3, <3>2 DEF RunGates
    <3> QED
      BY <2>3, <3>5, <3>6, <3>7, <3>8 DEF RunGates, TypeOK
  <2>4. CASE EscalateBlocked
    <3>1. spend' \in [revisions : Nat, calls : Nat, tokens : Nat, exceeded : BOOLEAN]
      BY <2>4 DEF EscalateBlocked, TypeOK, OverBudget, Breaches
    <3>2. outcome' \in [status : {"running", "approved", "escalated", "failed"},
                        reason : Reason \cup {NoHit},
                        plan : Plans \cup {NoPlan},
                        findings : SUBSET Finding]
      BY <2>4, ExitTypes, ResultType DEF EscalateBlocked, EscalationOf, TypeOK
    <3> QED
      BY <2>4, <3>1, <3>2 DEF EscalateBlocked, TypeOK
  <2>5. CASE ReviseBlocked
    BY <2>5 DEF ReviseBlocked, TypeOK
  <2>6. CASE RefuseCritic
    <3>1. outcome' \in [status : {"running", "approved", "escalated", "failed"},
                        reason : Reason \cup {NoHit},
                        plan : Plans \cup {NoPlan},
                        findings : SUBSET Finding]
      BY <2>6, ExitTypes, ResultType DEF RefuseCritic, EscalationOf, TypeOK
    <3> QED
      BY <2>6, <3>1 DEF RefuseCritic, TypeOK
  <2>7. CASE CallCritic
    BY <2>7 DEF CallCritic, TypeOK
  <2>8. CASE SkipCritic
    BY <2>8 DEF SkipCritic, TypeOK
  <2>9. CASE CriticAnswers
    <3>1. PICK answer \in SUBSET CriticFindings : findings' = gateFindings \cup answer
      BY <2>9 DEF CriticAnswers
    <3>2. answer \in SUBSET Finding /\ IsFiniteSet(answer)
      BY <3>1, InputAssumption, FS_Subset
    <3>3. findings' \in SUBSET Finding /\ IsFiniteSet(findings')
      BY <3>1, <3>2, FS_Union DEF TypeOK
    <3> QED
      BY <2>9, <3>3 DEF CriticAnswers, TypeOK
  <2>10. CASE CriticFails
    BY <2>10 DEF CriticFails, TypeOK
  <2>11. CASE Approve
    <3>1. outcome' \in [status : {"running", "approved", "escalated", "failed"},
                        reason : Reason \cup {NoHit},
                        plan : Plans \cup {NoPlan},
                        findings : SUBSET Finding]
      BY <2>11, ResultType DEF Approve, TypeOK, Reason
    <3> QED
      BY <2>11, <3>1 DEF Approve, TypeOK
  <2>12. CASE EscalateJudged
    <3>1. spend' \in [revisions : Nat, calls : Nat, tokens : Nat, exceeded : BOOLEAN]
      BY <2>12 DEF EscalateJudged, TypeOK, OverBudget, Breaches
    <3>2. outcome' \in [status : {"running", "approved", "escalated", "failed"},
                        reason : Reason \cup {NoHit},
                        plan : Plans \cup {NoPlan},
                        findings : SUBSET Finding]
      <4>1. \A h : EscalationOf(JudgedExit(h), findings) \in
              [status : {"running", "approved", "escalated", "failed"},
               reason : Reason \cup {NoHit},
               plan : Plans \cup {NoPlan},
               findings : SUBSET Finding]
        BY ExitTypes, ResultType DEF EscalationOf, TypeOK
      <4>2. Result("approved", "approved", Converged, ConvergedFindings) \in
              [status : {"running", "approved", "escalated", "failed"},
               reason : Reason \cup {NoHit},
               plan : Plans \cup {NoPlan},
               findings : SUBSET Finding]
        BY <2>12, ConvergedType, ResultType DEF EscalateJudged, Reason
      <4> QED
        BY <2>12, <4>1, <4>2 DEF EscalateJudged
    <3> QED
      BY <2>12, <3>1, <3>2 DEF EscalateJudged, TypeOK
  <2>13. CASE ReviseJudged
    <3>1. PICK repeats \in Repeats : hists' = Append(hists, FamilyHistogram(findings, repeats))
      BY <2>13 DEF ReviseJudged, NextHists
    <3>2. hists' \in Seq([Codes -> Nat])
      BY <3>1, HistogramType, InputAssumption DEF TypeOK
    <3> QED
      BY <2>13, <3>2 DEF ReviseJudged, TypeOK
  <2>14. CASE Revise
    BY <2>14 DEF Revise, TypeOK
  <2>15. ASSUME NEW reason \in RunReason, RunBudgetTrips(reason)
         PROVE  TypeOK'
    BY <2>15 DEF RunBudgetTrips, TypeOK
  <2>16. CASE UNCHANGED vars
    BY <2>16 DEF vars, TypeOK
  <2> QED
    BY <2>1, <2>2, <2>3, <2>4, <2>5, <2>6, <2>7, <2>8, <2>9, <2>10, <2>11, <2>12,
       <2>13, <2>14, <2>15, <2>16 DEF Next, LoopStep
<1> QED
  BY <1>1, <1>2, PTL DEF Spec

(***************************************************************************)
(* Approval                                                                *)
(***************************************************************************)

\* The threshold met on findings that include a plan's gate findings: the gates
\* do not block that plan.
LEMMA MeetingThresholdClearsGates ==
  ASSUME NEW p \in Plans, NEW A, Gates[p] \subseteq A, NEW risk, MeetsThreshold(A, risk)
  PROVE  ~HasBlocker(Gates[p])
  BY PlanAssumption, GateBlockerMissesThreshold DEF HasBlocker

\* Whatever the controller approves meets the threshold of a strict goal only
\* with info findings.
LEMMA StrictThreshold ==
  ASSUME NEW A \in SUBSET Finding, MeetsThreshold(A, "strict")
  PROVE  \A f \in A : f.sev = "info"
  BY DEF MeetsThreshold, HardBlockers, PendingWarnings, IsBlocker, Finding, Severity

\* Both ways through the approval check meet the threshold.
LEMMA ApprovableMeetsThreshold ==
  ASSUME Approvable
  PROVE  MeetsThreshold(findings, goal.risk)
  BY SatisfiedMeetsThreshold DEF Approvable

\* auto_converge can never approve: it re-judges the findings that just missed the
\* threshold, with an info finding added.
LEMMA AutoConvergeNeverApproves ==
  ASSUME ~Approvable
  PROVE  ~MeetsThreshold(ConvergedFindings, goal.risk)
  BY ThresholdIsAntitone DEF Approvable, ConvergedFindings

LEMMA VerdictInvInductive ==
  ASSUME TypeOK, VerdictInv, [Next]_vars
  PROVE  VerdictInv'
<1> USE DEF inputs, history
<1>1. CASE Decompose
  BY <1>1 DEF Decompose, VerdictInv, Running, ApprovedPlanPassesGates, ApprovedOnItsOwnVerdict
<1>2. CASE DecomposeFails \/ ReviseFails
  BY <1>2 DEF DecomposeFails, ReviseFails, Fail, Result, VerdictInv, Running,
              ApprovedPlanPassesGates, ApprovedOnItsOwnVerdict
<1>3. CASE RunGates
  BY <1>3 DEF RunGates, VerdictInv, Running, ApprovedPlanPassesGates, ApprovedOnItsOwnVerdict
<1>4. CASE EscalateBlocked
  BY <1>4 DEF EscalateBlocked, EscalationOf, Result, VerdictInv,
              ApprovedPlanPassesGates, ApprovedOnItsOwnVerdict
<1>5. CASE ReviseBlocked
  BY <1>5 DEF ReviseBlocked, VerdictInv, Running, ApprovedPlanPassesGates, ApprovedOnItsOwnVerdict
<1>6. CASE RefuseCritic
  BY <1>6 DEF RefuseCritic, EscalationOf, Result, VerdictInv,
              ApprovedPlanPassesGates, ApprovedOnItsOwnVerdict
<1>7. CASE CallCritic
  BY <1>7 DEF CallCritic, VerdictInv, Running, ApprovedPlanPassesGates, ApprovedOnItsOwnVerdict
<1>8. CASE SkipCritic
  <2>1. cfg.mode = "heuristic-only"
    BY <1>8, InputAssumption DEF SkipCritic, InvokesCritic, GateBlocked, TypeOK, Config, Mode
  <2> QED
    BY <1>8, <2>1 DEF SkipCritic, VerdictInv, Running,
                      ApprovedPlanPassesGates, ApprovedOnItsOwnVerdict
<1>9. CASE CriticAnswers \/ CriticFails
  BY <1>9 DEF CriticAnswers, CriticFails, VerdictInv, Running,
              ApprovedPlanPassesGates, ApprovedOnItsOwnVerdict
<1>10. CASE Approve
  <2>1. MeetsThreshold(findings, goal.risk)
    BY <1>10, ApprovableMeetsThreshold DEF Approve
  <2>2. plan \in Plans /\ Gates[plan] \subseteq findings
    BY <1>10 DEF Approve, VerdictInv, TypeOK
  <2>3. ~HasBlocker(Gates[plan])
    BY <2>1, <2>2, MeetingThresholdClearsGates
  <2>4. goal.risk = "strict" => \A f \in findings : f.sev = "info"
    BY <2>1, StrictThreshold DEF TypeOK
  <2>5. cfg.mode # "heuristic-only" => critique # "none"
    BY <1>10 DEF Approve, VerdictInv
  <2>6. /\ outcome'.status = "approved" /\ outcome'.plan = plan /\ outcome'.findings = findings
        /\ pc' = "done"
        /\ UNCHANGED <<goal, cfg, plan, gateFindings, findings, critique>>
    BY <1>10 DEF Approve, Result
  <2> QED
    BY <2>2, <2>3, <2>4, <2>5, <2>6
       DEF VerdictInv, ApprovedPlanPassesGates, ApprovedOnItsOwnVerdict
<1>11. CASE EscalateJudged
  <2>1. PICK h \in NextHists : outcome' = EscalationOf(JudgedExit(h), findings)
    BY <1>11, AutoConvergeNeverApproves DEF EscalateJudged
  <2> QED
    BY <1>11, <2>1 DEF EscalateJudged, EscalationOf, Result, VerdictInv,
                       ApprovedPlanPassesGates, ApprovedOnItsOwnVerdict
<1>12. CASE ReviseJudged
  BY <1>12 DEF ReviseJudged, VerdictInv, Running, ApprovedPlanPassesGates, ApprovedOnItsOwnVerdict
<1>13. CASE Revise
  BY <1>13 DEF Revise, VerdictInv, Running, ApprovedPlanPassesGates, ApprovedOnItsOwnVerdict
<1>14. ASSUME NEW reason \in RunReason, RunBudgetTrips(reason)
       PROVE  VerdictInv'
  BY <1>14 DEF RunBudgetTrips, VerdictInv, ApprovedPlanPassesGates, ApprovedOnItsOwnVerdict
<1>15. CASE UNCHANGED vars
  BY <1>15 DEF vars, VerdictInv, ApprovedPlanPassesGates, ApprovedOnItsOwnVerdict
<1> QED
  BY <1>1, <1>2, <1>3, <1>4, <1>5, <1>6, <1>7, <1>8, <1>9, <1>10, <1>11, <1>12, <1>13,
     <1>14, <1>15 DEF Next, LoopStep

\* In every mode and under every posture, the gates raise no blocker on a plan
\* the controller approves.
THEOREM ApprovalIsGateClean == Spec => []ApprovedPlanPassesGates
<1>1. Init => VerdictInv
  BY DEF Init, VerdictInv, Running, ApprovedPlanPassesGates, ApprovedOnItsOwnVerdict
<1>2. TypeOK /\ VerdictInv /\ [Next]_vars => VerdictInv'
  BY VerdictInvInductive
<1>3. VerdictInv => ApprovedPlanPassesGates
  BY DEF VerdictInv
<1> QED
  BY <1>1, <1>2, <1>3, TypeCorrect, PTL DEF Spec

\* A plan is approved on findings about that plan, after the critic was consulted
\* on it, and under strict with nothing but info findings.
THEOREM ApprovalIsOnOwnVerdict == Spec => []ApprovedOnItsOwnVerdict
<1>1. Init => VerdictInv
  BY DEF Init, VerdictInv, Running, ApprovedPlanPassesGates, ApprovedOnItsOwnVerdict
<1>2. TypeOK /\ VerdictInv /\ [Next]_vars => VerdictInv'
  BY VerdictInvInductive
<1>3. VerdictInv => ApprovedOnItsOwnVerdict
  BY DEF VerdictInv
<1> QED
  BY <1>1, <1>2, <1>3, TypeCorrect, PTL DEF Spec

\* deterministic-first: no critic call is made on a plan the gates block.
THEOREM BlockedDraftsCostNothing == Spec => NoSpendOnBlockedDraft
<1>1. TypeOK /\ VerdictInv /\ [Next]_vars =>
        [cfg.mode = "deterministic-first" /\ spend'.calls > spend.calls
           => ~HasBlocker(Gates[plan])]_vars
  <2> SUFFICES ASSUME TypeOK, VerdictInv, Next,
                      cfg.mode = "deterministic-first", spend'.calls > spend.calls
               PROVE  ~HasBlocker(Gates[plan])
    OBVIOUS
  <2>1. spend \in [revisions : Nat, calls : Nat, tokens : Nat, exceeded : BOOLEAN]
    BY DEF TypeOK
  <2>2. CallCritic
    BY <2>1 DEF Next, LoopStep, Decompose, DecomposeFails, Fail, RunGates, EscalateBlocked,
       ReviseBlocked, RefuseCritic, SkipCritic, CriticAnswers, CriticFails, Approve,
       EscalateJudged, ReviseJudged, Revise, ReviseFails, RunBudgetTrips
  <2> QED
    BY <2>2 DEF CallCritic, InvokesCritic, VerdictInv, HasBlocker
<1>2. Init => VerdictInv
  BY DEF Init, VerdictInv, Running, ApprovedPlanPassesGates, ApprovedOnItsOwnVerdict
<1>3. TypeOK /\ VerdictInv /\ [Next]_vars => VerdictInv'
  BY VerdictInvInductive
<1> QED
  BY <1>1, <1>2, <1>3, TypeCorrect, PTL DEF Spec, NoSpendOnBlockedDraft

(***************************************************************************)
(* Spend                                                                   *)
(***************************************************************************)

\* The cap is a positive number and does not move while a run is under way.
LEMMA EffectiveCapType ==
  ASSUME TypeOK
  PROVE  EffectiveCap \in Nat \ {0}
  BY InputAssumption DEF EffectiveCap, TypeOK, Config

LEMMA CeilingTypes ==
  ASSUME TypeOK
  PROVE  /\ goal.maxRevisions \in Nat /\ goal.maxCalls \in Nat
         /\ revision \in Nat /\ spend.revisions \in Nat /\ spend.calls \in Nat
         /\ spend \in [revisions : Nat, calls : Nat, tokens : Nat, exceeded : BOOLEAN]
  BY InputAssumption DEF TypeOK, Goal

LEMMA SpendInvInductive ==
  ASSUME TypeOK, SpendInv, [Next]_vars
  PROVE  SpendInv'
<1> USE EffectiveCapType, CeilingTypes DEF inputs, history, NoCeiling
<1>1. UNCHANGED inputs => EffectiveCap' = EffectiveCap
  BY DEF EffectiveCap
<1>2. CASE Decompose
  BY <1>1, <1>2 DEF Decompose, SpendInv, SpendIsBounded
<1>3. CASE DecomposeFails \/ ReviseFails
  BY <1>1, <1>3 DEF DecomposeFails, ReviseFails, Fail, SpendInv, SpendIsBounded
<1>4. CASE RunGates
  <2>1. /\ revision' = revision + 1 /\ spend'.revisions = spend.revisions + 1
        /\ spend'.calls = spend.calls /\ pc' = "dispatch" /\ pc = "gates"
        /\ UNCHANGED inputs
    BY <1>4 DEF RunGates
  <2> QED
    BY <1>1, <2>1 DEF SpendInv, SpendIsBounded
<1>5. CASE EscalateBlocked \/ EscalateJudged
  <2>1. /\ revision' = revision /\ spend'.revisions = spend.revisions
        /\ spend'.calls = spend.calls /\ pc' = "done" /\ UNCHANGED inputs
    BY <1>5 DEF EscalateBlocked, EscalateJudged
  <2> QED
    BY <1>1, <2>1 DEF SpendInv, SpendIsBounded
<1>6. CASE ReviseBlocked \/ ReviseJudged
  <2>1. ~OverBudget /\ ~(revision >= EffectiveCap)
    BY <1>6 DEF ReviseBlocked, ReviseJudged, BlockedExit, JudgedExit, NoHit
  <2>2. goal.maxRevisions # NoCeiling => revision <= goal.maxRevisions
    BY <2>1 DEF OverBudget, Breaches, SpendInv, SpendIsBounded
  <2>3. UNCHANGED <<inputs, revision, spend>> /\ pc' = "revise"
    BY <1>6 DEF ReviseBlocked, ReviseJudged
  <2> QED
    BY <1>1, <2>1, <2>2, <2>3 DEF SpendInv, SpendIsBounded
<1>7. CASE RefuseCritic
  BY <1>1, <1>7 DEF RefuseCritic, SpendInv, SpendIsBounded
<1>8. CASE CallCritic
  <2>1. ~(goal.maxCalls # NoCeiling /\ spend.calls >= goal.maxCalls)
    BY <1>8 DEF CallCritic, CriticExit, NoHit
  <2>2. /\ spend'.calls = spend.calls + 1 /\ spend'.revisions = spend.revisions
        /\ pc = "dispatch" /\ pc' = "audit" /\ UNCHANGED <<inputs, revision>>
    BY <1>8 DEF CallCritic
  <2> QED
    BY <1>1, <2>1, <2>2 DEF SpendInv, SpendIsBounded
<1>9. CASE SkipCritic \/ CriticAnswers \/ CriticFails \/ Approve
  BY <1>1, <1>9 DEF SkipCritic, CriticAnswers, CriticFails, Approve, SpendInv, SpendIsBounded
<1>10. CASE Revise
  BY <1>1, <1>10 DEF Revise, SpendInv, SpendIsBounded
<1>11. ASSUME NEW reason \in RunReason, RunBudgetTrips(reason)
       PROVE  SpendInv'
  BY <1>1, <1>11 DEF RunBudgetTrips, SpendInv, SpendIsBounded
<1>12. CASE UNCHANGED vars
  BY <1>1, <1>12 DEF vars, SpendInv, SpendIsBounded
<1> QED
  BY <1>2, <1>3, <1>4, <1>5, <1>6, <1>7, <1>8, <1>9, <1>10, <1>11, <1>12 DEF Next, LoopStep

LEMMA SpendInvInitially ==
  ASSUME Init PROVE SpendInv
<1>1. TypeOK
  <2>1. IsFiniteSet({})
    BY FS_EmptySet
  <2> QED
    BY <2>1 DEF Init, TypeOK, Running, Reason, NoHit
<1> QED
  BY <1>1, EffectiveCapType, CeilingTypes DEF Init, SpendInv, SpendIsBounded, NoCeiling

\* No run, in any mode, revises beyond the cap, calls the critic more than once a
\* revision or above max_calls, or goes further over max_revisions than the one
\* revision that detects the breach.
THEOREM BoundedSpend == Spec => []SpendIsBounded
<1>1. Init => SpendInv
  BY SpendInvInitially
<1>2. TypeOK /\ SpendInv /\ [Next]_vars => SpendInv'
  BY SpendInvInductive
<1>3. SpendInv => SpendIsBounded
  BY DEF SpendInv
<1> QED
  BY <1>1, <1>2, <1>3, TypeCorrect, PTL DEF Spec

(***************************************************************************)
(* The guards and the escalations                                          *)
(***************************************************************************)

\* What OverBudget can mean as long as the latch is not set: no token is ever
\* counted, so it is the revisions or the calls.
LEMMA BudgetCause ==
  ASSUME TypeOK, HistoryInv, pc # "done", OverBudget
  PROVE  \/ Breaches(goal.maxRevisions, spend.revisions)
         \/ goal.maxCalls # NoCeiling /\ spend.calls >= goal.maxCalls
<1>1. goal.maxTokens \in Nat
  BY InputAssumption DEF TypeOK, Goal
<1>2. ~Breaches(goal.maxTokens, spend.tokens)
  BY <1>1 DEF HistoryInv, Breaches
<1> QED
  BY <1>2, CeilingTypes DEF OverBudget, HistoryInv, Breaches

\* A window of the controller is a positive number, and so is its lag.
LEMMA WindowTypes ==
  ASSUME TypeOK
  PROVE  cfg.window \in Nat \ {0} /\ cfg.lag \in Nat \ {0} /\ cfg.cap \in Nat \ {0}
  BY InputAssumption DEF TypeOK, Config

\* A history grows by one histogram.
LEMMA HistoryGrows ==
  ASSUME TypeOK, NEW h \in NextHists
  PROVE  Len(h) = Len(hists) + 1
<1>1. PICK repeats \in Repeats : h = Append(hists, FamilyHistogram(findings, repeats))
  BY DEF NextHists
<1>2. hists \in Seq([Codes -> Nat])
  BY DEF TypeOK
<1>3. FamilyHistogram(findings, repeats) \in [Codes -> Nat]
  BY <1>1, HistogramType, InputAssumption DEF TypeOK
<1> QED
  BY <1>1, <1>2, <1>3

\* The guards that look back have something to look back on.
LEMMA GuardsLookBack ==
  ASSUME TypeOK, HistoryInv, pc = "judge"
  PROVE  /\ RegressionDetected \/ Stalled => priorPlan # NoPlan
         /\ Oscillates => revision >= cfg.window
         /\ \A h \in NextHists : Cycles(h) => revision >= 3
<1>1. RegressionDetected \/ NearZeroDiff => priorPlan # NoPlan
  BY DEF RegressionDetected, NearZeroDiff, HistoryInv
<1>2. CirclingBlockers => priorPlan # NoPlan
  BY DEF CirclingBlockers, GateBlockerKeys, HistoryInv
<1>3. Oscillates => revision >= cfg.window
  BY DEF Oscillates, HistoryInv
<1>4. ASSUME NEW h \in NextHists, Cycles(h)
      PROVE  revision >= 3
  <2>1. Len(h) = Len(hists) + 1 /\ Len(hists) \in Nat /\ Len(hists) < revision /\ revision \in Nat
    BY HistoryGrows DEF HistoryInv, TypeOK
  <2>2. cfg.lag \in Nat
    BY WindowTypes
  <2>3. PICK p \in 2..cfg.lag : TRUE
    BY <1>4 DEF Cycles
  <2>4. Len(h) >= cfg.lag + 1
    BY <1>4 DEF Cycles
  <2> QED
    BY <2>1, <2>2, <2>3, <2>4
<1> QED
  BY <1>1, <1>2, <1>3, <1>4 DEF Stalled

\* Every reason an exit of a judged draft gives has its cause.
LEMMA JudgedExitWarranted ==
  ASSUME TypeOK, SpendInv, HistoryInv, EscalateJudged
  PROVE  EscalationIsWarranted'
<1>h. PICK h \in NextHists : outcome' = EscalationOf(JudgedExit(h), findings)
  BY AutoConvergeNeverApproves DEF EscalateJudged
<1> DEFINE reason == JudgedExit(h)
<1>1. outcome' = EscalationOf(reason, findings)
  BY <1>h
<1>2. outcome'.reason = reason /\ outcome'.findings = findings
  BY <1>1 DEF EscalationOf, Result
<1>3. ~MeetsThreshold(findings, goal.risk)
  BY DEF EscalateJudged, Approvable
<1>4. pc = "judge" /\ UNCHANGED <<goal, cfg, revision, runHit, priorPlan>>
  BY DEF EscalateJudged, inputs, history
<1>5. /\ spend'.revisions = spend.revisions /\ spend'.calls = spend.calls
      /\ EffectiveCap' = EffectiveCap
  BY <1>4, CeilingTypes DEF EscalateJudged, EffectiveCap
<1>6. CASE OverBudget
  <2>1. reason = "budget_exceeded"
    BY <1>6 DEF JudgedExit
  <2> QED
    BY <1>2, <1>4, <1>5, <1>6, <2>1, BudgetCause DEF EscalationIsWarranted, Breaches, RunReason
<1>7. CASE ~OverBudget /\ runHit # NoHit
  <2>1. reason = runHit /\ runHit \in RunReason /\ cfg.runBudget
    BY <1>7 DEF JudgedExit, TypeOK, HistoryInv
  <2> QED
    BY <1>2, <1>4, <2>1 DEF EscalationIsWarranted, RunReason
<1>8. CASE ~OverBudget /\ runHit = NoHit
  <2>1. reason \notin RunReason \cup {"budget_exceeded"}
    BY <1>8 DEF JudgedExit, RunReason, NoHit
  <2>2. reason \in {"converged_stalled", "regression_thrashing"} => RegressionDetected \/ Stalled
    BY <1>8 DEF JudgedExit, NoHit
  <2>3. reason = "plan_oscillation_detected" => Oscillates
    BY <1>8 DEF JudgedExit, NoHit
  <2>4. reason = "family_histogram_cycling" => Cycles(h)
    BY <1>8 DEF JudgedExit, NoHit
  <2>5. reason = "revision_cap_reached" => revision = EffectiveCap
    BY <1>8, EffectiveCapType, CeilingTypes DEF JudgedExit, NoHit, SpendInv, SpendIsBounded
  <2> HIDE DEF reason
  <2> QED
    BY <1>2, <1>3, <1>4, <1>5, <2>1, <2>2, <2>3, <2>4, <2>5, GuardsLookBack
       DEF EscalationIsWarranted
<1> QED
  BY <1>6, <1>7, <1>8

\* So has an exit of a draft the gates blocked, whose blocker no posture waives.
LEMMA BlockedExitWarranted ==
  ASSUME TypeOK, SpendInv, HistoryInv, EscalateBlocked
  PROVE  EscalationIsWarranted'
<1> DEFINE reason == BlockedExit
<1>1. outcome'.reason = reason /\ outcome'.findings = gateFindings
  BY DEF EscalateBlocked, EscalationOf, Result
<1>2. ~MeetsThreshold(gateFindings, goal.risk)
  BY GateBlockerMissesThreshold DEF EscalateBlocked, GateBlocked, HasBlocker, HistoryInv
<1>3. pc = "dispatch" /\ UNCHANGED <<goal, cfg, revision, runHit>>
  BY DEF EscalateBlocked, inputs
<1>4. /\ spend'.revisions = spend.revisions /\ spend'.calls = spend.calls
      /\ EffectiveCap' = EffectiveCap
  BY <1>3, CeilingTypes DEF EscalateBlocked, EffectiveCap
<1>5. reason # NoHit
  BY DEF EscalateBlocked
<1>6. CASE OverBudget
  <2>1. reason = "budget_exceeded"
    BY <1>6 DEF BlockedExit
  <2> QED
    BY <1>1, <1>3, <1>4, <1>6, <2>1, BudgetCause DEF EscalationIsWarranted, Breaches, RunReason
<1>7. CASE ~OverBudget /\ runHit # NoHit
  <2>1. reason = runHit /\ runHit \in RunReason /\ cfg.runBudget
    BY <1>7 DEF BlockedExit, TypeOK, HistoryInv
  <2> QED
    BY <1>1, <1>3, <2>1 DEF EscalationIsWarranted, RunReason
<1>8. CASE ~OverBudget /\ runHit = NoHit
  <2>1. reason = "revision_cap_reached" /\ revision = EffectiveCap
    BY <1>5, <1>8, EffectiveCapType, CeilingTypes DEF BlockedExit, SpendInv, SpendIsBounded
  <2> QED
    BY <1>1, <1>2, <1>3, <1>4, <2>1 DEF EscalationIsWarranted, RunReason
<1> QED
  BY <1>6, <1>7, <1>8

\* And one that saves a critic call.
LEMMA RefusalWarranted ==
  ASSUME TypeOK, HistoryInv, RefuseCritic
  PROVE  EscalationIsWarranted'
<1>1. outcome'.reason = CriticExit /\ UNCHANGED <<goal, cfg, revision, spend>>
  BY DEF RefuseCritic, EscalationOf, Result, inputs
<1>2. CASE goal.maxCalls # NoCeiling /\ spend.calls >= goal.maxCalls
  BY <1>1, <1>2 DEF CriticExit, EscalationIsWarranted, RunReason
<1>3. CASE ~(goal.maxCalls # NoCeiling /\ spend.calls >= goal.maxCalls)
  <2>1. CriticExit = runHit /\ runHit \in RunReason /\ cfg.runBudget
    BY <1>3 DEF RefuseCritic, CriticExit, TypeOK, HistoryInv
  <2> QED
    BY <1>1, <2>1 DEF EscalationIsWarranted, RunReason
<1> QED
  BY <1>2, <1>3

LEMMA HistoryInvInductive ==
  ASSUME TypeOK, TypeOK', VerdictInv, VerdictInv', SpendInv, HistoryInv, [Next]_vars
  PROVE  HistoryInv'
<1> USE DEF inputs, history
<1>1. pc' # "done" => outcome' = Running /\ EscalationIsWarranted'
  BY DEF VerdictInv, Running, EscalationIsWarranted
<1>2. pc # "done" => EscalationIsWarranted
  BY DEF VerdictInv, Running, EscalationIsWarranted
<1>3. CASE Decompose \/ Revise \/ ReviseBlocked
  BY <1>1, <1>3 DEF Decompose, Revise, ReviseBlocked, HistoryInv, PriorVerdictBelongsToPriorPlan
<1>4. CASE DecomposeFails \/ ReviseFails
  <2>1. EscalationIsWarranted'
    BY <1>4 DEF DecomposeFails, ReviseFails, Fail, Result, EscalationIsWarranted
  <2> QED
    BY <1>4, <2>1 DEF DecomposeFails, ReviseFails, Fail, HistoryInv, PriorVerdictBelongsToPriorPlan
<1>5. CASE RunGates
  <2>1. plan \in Plans /\ AfterFixes(plan) \in Plans
    BY <1>5, FixesType DEF RunGates, TypeOK
  <2>2. \A f \in gateFindings' : ~f.llm
    BY <1>5, <2>1, TracesType, PlanAssumption DEF RunGates
  <2>3. Len(sigs') = revision' /\ Len(hists') < revision' /\ Len(hists') <= revision'
    BY <1>5, <2>1 DEF RunGates, HistoryInv, TypeOK
  <2>4. spend'.tokens = 0 /\ ~spend'.exceeded /\ pc' # "done"
    BY <1>5, CeilingTypes DEF RunGates, HistoryInv
  <2>5. UNCHANGED <<inputs, runHit, priorPlan, priorFindings>>
    BY <1>5 DEF RunGates
  <2> QED
    BY <1>1, <2>2, <2>3, <2>4, <2>5 DEF HistoryInv, PriorVerdictBelongsToPriorPlan
<1>6. CASE EscalateBlocked
  <2>1. EscalationIsWarranted' /\ spend'.tokens = 0 /\ pc' = "done"
    BY <1>6, BlockedExitWarranted, CeilingTypes DEF EscalateBlocked, HistoryInv
  <2> QED
    BY <1>6, <2>1 DEF EscalateBlocked, HistoryInv, PriorVerdictBelongsToPriorPlan
<1>7. CASE EscalateJudged
  <2>1. EscalationIsWarranted' /\ spend'.tokens = 0 /\ pc' = "done"
    BY <1>7, JudgedExitWarranted, CeilingTypes DEF EscalateJudged, HistoryInv
  <2> QED
    BY <1>7, <2>1 DEF EscalateJudged, HistoryInv, PriorVerdictBelongsToPriorPlan
<1>8. CASE RefuseCritic
  BY <1>8, RefusalWarranted DEF RefuseCritic, HistoryInv, PriorVerdictBelongsToPriorPlan
<1>9. CASE CallCritic
  <2>1. spend'.tokens = 0 /\ ~spend'.exceeded
    BY <1>9, CeilingTypes DEF CallCritic, HistoryInv
  <2> QED
    BY <1>1, <1>9, <2>1 DEF CallCritic, HistoryInv, PriorVerdictBelongsToPriorPlan
<1>10. CASE SkipCritic \/ CriticAnswers \/ CriticFails
  BY <1>1, <1>10 DEF SkipCritic, CriticAnswers, CriticFails, HistoryInv, PriorVerdictBelongsToPriorPlan
<1>11. CASE Approve
  <2>1. EscalationIsWarranted'
    BY <1>11 DEF Approve, Result, EscalationIsWarranted
  <2> QED
    BY <1>11, <2>1 DEF Approve, HistoryInv, PriorVerdictBelongsToPriorPlan
<1>12. CASE ReviseJudged
  <2>1. ~MeetsThreshold(findings, goal.risk)
    BY <1>12 DEF ReviseJudged, Approvable
  <2>2. Gates[plan] \subseteq findings /\ plan # NoPlan
    BY <1>12, PlanAssumption DEF ReviseJudged, VerdictInv, TypeOK
  <2>3. Len(hists') = Len(hists) + 1 /\ Len(hists) < revision
    BY <1>12, HistoryGrows DEF ReviseJudged, HistoryInv
  <2>4. Len(hists') <= revision
    BY <2>3, CeilingTypes DEF TypeOK
  <2> QED
    BY <1>1, <1>12, <2>1, <2>2, <2>4 DEF ReviseJudged, HistoryInv, PriorVerdictBelongsToPriorPlan
<1>13. ASSUME NEW reason \in RunReason, RunBudgetTrips(reason)
       PROVE  HistoryInv'
  BY <1>1, <1>13 DEF RunBudgetTrips, HistoryInv, PriorVerdictBelongsToPriorPlan
<1>14. CASE UNCHANGED vars
  <2>1. EscalationIsWarranted'
    BY <1>14 DEF vars, HistoryInv, EscalationIsWarranted, EffectiveCap
  <2> QED
    BY <1>14, <2>1 DEF vars, HistoryInv, PriorVerdictBelongsToPriorPlan
<1> QED
  BY <1>3, <1>4, <1>5, <1>6, <1>7, <1>8, <1>9, <1>10, <1>11, <1>12, <1>13, <1>14 DEF Next, LoopStep

LEMMA HistoryInvariant == Spec => []HistoryInv
<1>1. Init => VerdictInv /\ SpendInv /\ HistoryInv
  <2>1. Init => HistoryInv
    BY DEF Init, HistoryInv, PriorVerdictBelongsToPriorPlan, EscalationIsWarranted, Running
  <2> QED
    BY <2>1, SpendInvInitially
       DEF Init, VerdictInv, Running, ApprovedPlanPassesGates, ApprovedOnItsOwnVerdict
<1>2. TypeOK /\ TypeOK' /\ VerdictInv /\ SpendInv /\ HistoryInv /\ [Next]_vars
        => VerdictInv' /\ SpendInv' /\ HistoryInv'
  BY VerdictInvInductive, SpendInvInductive, HistoryInvInductive
<1> QED
  BY <1>1, <1>2, TypeCorrect, PTL DEF Spec

\* Regression, stall and oscillation are judged against one earlier revision: the
\* findings remembered are those of the plan remembered, and did not approve it.
THEOREM GuardsCompareLikeWithLike == Spec => []PriorVerdictBelongsToPriorPlan
<1>1. HistoryInv => PriorVerdictBelongsToPriorPlan
  BY DEF HistoryInv
<1> QED
  BY <1>1, HistoryInvariant, PTL

\* Whatever configuration and whatever the roles answer, an escalation has the
\* cause that its reason code names.
THEOREM EscalationsAreWarranted == Spec => []EscalationIsWarranted
<1>1. HistoryInv => EscalationIsWarranted
  BY DEF HistoryInv
<1> QED
  BY <1>1, HistoryInvariant, PTL

(***************************************************************************)
(* Refinement                                                              *)
(***************************************************************************)

\* What RunGates does to a draft is one of the fixes PlanningRun allows.
LEMMA FixesAreAllowed ==
  ASSUME NEW p \in Plans
  PROVE  <<p, AfterFixes(p)>> \in UNION {{q} \X FixesOf(q) : q \in Plans}
<1>1. AfterRepair(p) \in {p, Reordered[p]} \ {NoPlan}
  BY PlanAssumption DEF AfterRepair, Repairs
<1>2. AfterFixes(p) \in FixesOf(p)
  BY <1>1, FixesType, PlanAssumption DEF AfterFixes, Closes, FixesOf
<1> QED
  BY <1>2

LEMMA ContractStep ==
  ASSUME TypeOK, VerdictInv, SpendInv, [Next]_vars
  PROVE  [Contract!RunStep]_(Contract!runVars)
<1> USE EffectiveCapType, CeilingTypes DEF inputs, history
<1>1. UNCHANGED inputs => EffectiveCap' = EffectiveCap
  BY DEF EffectiveCap
<1>2. pc # "done" => outcome = Running
  BY DEF VerdictInv
<1>3. CASE Decompose \/ Revise
  <2>1. Contract!Draft
    BY <1>1, <1>2, <1>3 DEF Decompose, Revise, Contract!Draft, SpendInv, SpendIsBounded, Running
  <2> QED
    BY <2>1 DEF Contract!RunStep
<1>4. CASE DecomposeFails \/ ReviseFails
  <2>1. Contract!Stop
    BY <1>1, <1>2, <1>4 DEF DecomposeFails, ReviseFails, Fail, Result, Contract!Stop, Running
  <2> QED
    BY <2>1 DEF Contract!RunStep
<1>5. CASE RunGates
  <2>1. plan \in Plans
    BY <1>5 DEF RunGates, TypeOK
  <2>2. Contract!FixDraft
    BY <1>1, <1>2, <1>5, <2>1, FixesAreAllowed DEF RunGates, Contract!FixDraft, Running
  <2> QED
    BY <2>2 DEF Contract!RunStep
<1>6. CASE EscalateBlocked \/ RefuseCritic \/ EscalateJudged
  <2>1. outcome'.status = "escalated" /\ outcome.status = "running"
    BY <1>2, <1>6, AutoConvergeNeverApproves DEF EscalateBlocked, RefuseCritic,
       EscalateJudged, EscalationOf, Result, Running
  <2>2. Contract!Stop
    BY <1>1, <1>6, <2>1 DEF EscalateBlocked, RefuseCritic, EscalateJudged, Contract!Stop
  <2> QED
    BY <2>2 DEF Contract!RunStep
<1>7. CASE Approve
  <2>1. plan \in Plans /\ Gates[plan] \subseteq findings
    BY <1>7 DEF Approve, VerdictInv, TypeOK
  <2>2. ~HasBlocker(Gates[plan])
    BY <1>7, <2>1, ApprovableMeetsThreshold, MeetingThresholdClearsGates DEF Approve
  <2>3. Contract!Approval
    BY <1>1, <1>2, <1>7, <2>1, <2>2 DEF Approve, Result, Contract!Approval, Running
  <2> QED
    BY <2>3 DEF Contract!RunStep
<1>8. CASE ReviseBlocked \/ CallCritic \/ SkipCritic \/ CriticAnswers \/ CriticFails \/ ReviseJudged
  BY <1>1, <1>8 DEF ReviseBlocked, CallCritic, SkipCritic, CriticAnswers, CriticFails,
     ReviseJudged, Contract!runVars
<1>9. ASSUME NEW reason \in RunReason, RunBudgetTrips(reason)
      PROVE  [Contract!RunStep]_(Contract!runVars)
  BY <1>1, <1>9 DEF RunBudgetTrips, Contract!runVars
<1>10. CASE UNCHANGED vars
  BY <1>1, <1>10 DEF vars, Contract!runVars
<1> QED
  BY <1>3, <1>4, <1>5, <1>6, <1>7, <1>8, <1>9, <1>10 DEF Next, LoopStep

\* The controller implements the safety part of PlanningRun: bounded drafting,
\* mechanical fixes, one verdict, and approval of sound drafts only.
THEOREM LoopImplementsPlanningRun == Spec => Contract!RunSafety
<1>1. Init => Contract!Start
  <2> SUFFICES ASSUME Init PROVE Contract!Start
    OBVIOUS
  <2>1. EffectiveCap \in Nat \ {0}
    BY InputAssumption DEF Init, EffectiveCap, Config
  <2> QED
    BY <2>1 DEF Init, Contract!Start, Running
<1>2. TypeOK /\ VerdictInv /\ SpendInv /\ [Next]_vars
        => [Contract!RunStep]_(Contract!runVars)
  BY ContractStep
<1>3. Init => VerdictInv /\ SpendInv
  BY SpendInvInitially
     DEF Init, VerdictInv, Running, ApprovedPlanPassesGates, ApprovedOnItsOwnVerdict
<1>4. TypeOK /\ VerdictInv /\ SpendInv /\ [Next]_vars => VerdictInv' /\ SpendInv'
  BY VerdictInvInductive, SpendInvInductive
<1> QED
  BY <1>1, <1>2, <1>3, <1>4, TypeCorrect, PTL DEF Spec, Contract!RunSafety

=============================================================================
