------------------------------- MODULE Review -------------------------------
(***************************************************************************)
(* A plan with its tasks, from draft to execution: the real gates and      *)
(* fixes, the diff-aware audit by a critic that never changes its mind,    *)
(* and the steps of the approved plan.  The engine has a posture resolver, *)
(* a quota and perhaps a domain pack (engine.py).  PlanLoop has the whole  *)
(* controller over abstract plans (ceilings, stall guards, roles that      *)
(* fail); here only the verdicts end a run, so every run of the code up to *)
(* its approval is one of these.                                           *)
(*                                                                         *)
(* The executor is external.  It takes tasks in list order, the members of *)
(* a parallel group concurrently, and checks a task right after its action *)
(* (gates/verification_ordering.py: "inline-after-task").                  *)
(***************************************************************************)
EXTENDS Gates, Posture

CONSTANTS
  Drafts,      \* Drafts[pack]: plans the planner may draft for an engine with the pack
  Revisions,   \* Revisions[pack]: plans it may answer the critique with
  Rules,       \* the rules of the posture resolver
  Contexts,    \* what the environment may say of itself
  Cap          \* revision cap

\* SEED_TEMPLATES: low-risk steps with neither a group nor preconditions.
ASSUME ReviewAssumption ==
  /\ Cap \in Nat \ {0} /\ BudgetCap \in Nat
  /\ Templates \in [Facts -> [Tasks -> Task \cup {NoStep}]]
  /\ \A f \in Facts, id \in Tasks :
       LET t == Templates[f][id] IN t # NoStep => ~t.high /\ t.group = None /\ t.pre = {}
  /\ DOMAIN Drafts \subseteq Packs \cup {None} /\ DOMAIN Revisions = DOMAIN Drafts
  /\ \A pk \in DOMAIN Drafts : \A p \in Drafts[pk] \cup Revisions[pk] :
       p \in PlanVersion /\ ValidPlan(p)

VARIABLES
  pc,
  posture,     \* the posture of the run
  mode,        \* "deterministic-first" or "llm-every-revision"
  pack,        \* the engine's domain pack, or None
  plan,
  prior,       \* the last plan that was judged, NoPlan at first
  findings,
  revision,
  started,     \* ids of the tasks whose action has run
  completed,   \* of these, the ids of those that are checked
  raised,      \* history: the blockers the critic has raised in this run
  rewired      \* history: a plan it was called on had other edges than the one before

history == <<raised, rewired>>
vars == <<pc, posture, mode, pack, plan, prior, findings, revision, started, completed, history>>

NoPlan == [tasks |-> <<>>, hard |-> {}, soft |-> {}]

(***************************************************************************)
(* The critic: its opinion of a task depends on the task and on what it    *)
(* depends on, and on nothing else.                                        *)
(***************************************************************************)
Opinion(p, id) ==
  LET say(sev, code) == [llm |-> TRUE, sev |-> sev, code |-> code, task |-> id]
  IN When(Step(p, id).flaw = "feasibility", {say("blocker", "llm_feasibility")})
     \cup When(Step(p, id).flaw = "risk", {say("warning", "llm_risk")})
     \cup When(\E t \in Steps(p) : /\ t.flaw = "shaky" /\ t.id # id
                                   /\ id \in DependentClosure(p, {t.id}),
               {say("blocker", "llm_unverified_dependencies")})

Audit(p, scope) == UNION {Opinion(p, id) : id \in scope \cap Ids(p)}

Init ==
  /\ pc = "draft"
  /\ \E goal \in {"strict", "balanced"}, known \in Contexts :
       posture = Resolve(Rules, Context(known), goal)
  /\ mode \in {"deterministic-first", "llm-every-revision"}
  /\ pack \in DOMAIN Drafts
  /\ plan = NoPlan /\ prior = NoPlan
  /\ findings = {} /\ revision = 0
  /\ started = {} /\ completed = {}
  /\ raised = {} /\ rewired = FALSE

Decompose ==
  /\ pc = "draft"
  /\ plan' \in Drafts[pack]
  /\ pc' = "gates"
  /\ UNCHANGED <<posture, mode, pack, prior, findings, revision, started, completed, history>>

RunGates ==
  /\ pc = "gates"
  /\ revision' = revision + 1
  /\ plan' \in AfterFixes(plan, pack)
  /\ findings' = GateFindings(plan', pack)
  /\ pc' = "dispatch"
  /\ UNCHANGED <<posture, mode, pack, prior, started, completed, history>>

GateBlocked == mode = "deterministic-first" /\ HasBlocker(findings)

\* A blocked draft goes back to the planner; it is not remembered.
ReturnBlocked ==
  /\ pc = "dispatch"
  /\ GateBlocked
  /\ pc' = IF revision < Cap THEN "revise" ELSE "escalated"
  /\ UNCHANGED <<posture, mode, pack, plan, prior, findings, revision, started, completed, history>>

\* scope_between, for the mode that audits the difference only.
Scope ==
  IF mode = "deterministic-first" /\ prior # NoPlan THEN AuditScope(prior, plan) ELSE Ids(plan)

CallCritic ==
  /\ pc = "dispatch"
  /\ ~GateBlocked
  /\ findings' = findings \cup Audit(plan, Scope)
  /\ raised' = raised \cup {f \in Audit(plan, Scope) : IsBlocker(f)}
  /\ rewired' = (rewired \/ (prior # NoPlan /\ <<plan.hard, plan.soft>> # <<prior.hard, prior.soft>>))
  /\ pc' = "judge"
  /\ UNCHANGED <<posture, mode, pack, plan, prior, revision, started, completed>>

Approvable == MeetsThreshold(findings, posture)

Approve ==
  /\ pc = "judge"
  /\ Approvable
  /\ pc' = "running"
  /\ UNCHANGED <<posture, mode, pack, plan, prior, findings, revision, started, completed, history>>

ReturnJudged ==
  /\ pc = "judge"
  /\ ~Approvable
  /\ prior' = plan
  /\ pc' = IF revision < Cap THEN "revise" ELSE "escalated"
  /\ UNCHANGED <<posture, mode, pack, plan, findings, revision, started, completed, history>>

\* The planner answers; it may return a plan it has drafted before.
Revise ==
  /\ pc = "revise"
  /\ plan' \in Revisions[pack] \cup {plan}
  /\ pc' = "gates"
  /\ UNCHANGED <<posture, mode, pack, prior, findings, revision, started, completed, history>>

(***************************************************************************)
(* Execution of the approved plan                                          *)
(***************************************************************************)

InFlight == started \ completed
SameGroup(t, u) == t.group # None /\ t.group = u.group

\* All tasks listed before t are done, but those it runs together with.
Ready(t) ==
  /\ t.id \notin started
  /\ \A i \in 1..Place(plan, t.id) - 1 :
       plan.tasks[i].id \in completed \/ SameGroup(plan.tasks[i], t)

Act ==
  /\ pc = "running"
  /\ \E t \in Steps(plan) : Ready(t) /\ started' = started \cup {t.id}
  /\ UNCHANGED <<pc, posture, mode, pack, plan, prior, findings, revision, completed, history>>

Check ==
  /\ pc = "running"
  /\ \E id \in InFlight : completed' = completed \cup {id}
  /\ UNCHANGED <<pc, posture, mode, pack, plan, prior, findings, revision, started, history>>

\* A check fails: what has run and has a rollback is rolled back.
StepFails ==
  /\ pc = "running"
  /\ InFlight # {}
  /\ pc' = "rolled_back"
  /\ UNCHANGED <<posture, mode, pack, plan, prior, findings, revision, started, completed, history>>

Next ==
  \/ Decompose \/ RunGates \/ ReturnBlocked \/ CallCritic
  \/ Approve \/ ReturnJudged \/ Revise
  \/ Act \/ Check \/ StepFails

Spec == Init /\ [][Next]_vars

-----------------------------------------------------------------------------
(***************************************************************************)
(* Properties                                                              *)
(***************************************************************************)

\* gates/verification_ordering.py: while a verified high-risk task is between its
\* action and its check, nobody has built on it and nobody overwrites its target.
VerificationIsNotVacuous ==
  pc = "running" =>
    \A t \in Steps(plan) : t \in Verified(plan) /\ t.id \in InFlight =>
      /\ \A u \in Consumers(plan, t) : u.id \notin started
      /\ \A u \in Steps(plan) : u # t /\ u.id \in InFlight => u.target # t.target

\* gates/parallel_safety.py, gates/rollback_credible.py: two high-risk tasks are
\* never in flight together; and when a step fails, no task that has run is left
\* on a basis rolled back under it without a check or a rollback of its own, unless
\* the rollback says what it restores.
FailureIsContained ==
  /\ \A t, u \in Steps(plan) : t.high /\ u.high /\ {t.id, u.id} \subseteq InFlight => t = u
  /\ pc = "rolled_back" =>
       \A t \in Steps(plan) : t.high /\ t.id \in started /\ t.rollback # "typed" =>
         /\ t.rollback # "none"
         /\ \A u \in Steps(plan) :
              /\ u.id \in started
              /\ \/ <<t.id, u.id>> \in plan.hard
                 \/ Place(plan, u.id) > Place(plan, t.id) /\ \E c \in u.pre : c.by = t.id
              => u.what # None \/ u.rollback # "none"

\* What t may rest on besides the tasks of S: what is done, what runs with it.
GroundsBeyond(S, t) ==
  UNION {TaskFacts(u) : u \in {v \in Steps(plan) \ S : v.id \in completed \/ SameGroup(v, t)}}

\* gates/preconditions.py: no set of tasks that have started rests on itself.  One of
\* them finds all its preconditions established by the environment, by tasks that are
\* done or by members of its group that are not of the set: neither a task alone, nor
\* the members of a group among themselves, nor a chain through both.
GroundedWhenStarted ==
  \A S \in SUBSET {t \in Steps(plan) : t.id \in started} : S # {} =>
    \E t \in S : \A c \in t.pre : Grounded(c, GroundsBeyond(S, t))

\* loop/autofix.py: a fix adds no blocker of the engine's own gates, and drops no
\* task and no edge of the draft: the repair re-orders, the closer only inserts.
\* (A step that is inserted may breach a quota or the order a pack asks for.)
FixesOnlyHelp ==
  [][pc = "gates" =>
       /\ \A f \in StandardFindings(plan') : IsBlocker(f) => f \in StandardFindings(plan)
       /\ Steps(plan) \subseteq Steps(plan')
       /\ plan'.hard = plan.hard /\ plan'.soft = plan.soft]_vars

\* critique/diff.py: as long as no revision the critic saw has other edges than the one
\* before, the critic has raised every blocker it would have of the plan at hand, now
\* or on an earlier revision: what it is not shown again is what it has judged before.
NothingNewEscapesTheCritic ==
  pc \in {"judge", "running", "rolled_back"} /\ ~rewired =>
    \A id \in Ids(plan) : \A f \in Opinion(plan, id) : IsBlocker(f) => f \in raised

\* Completed, or to be run together with t.
DoneFor(t, u) == u.id \in completed \/ SameGroup(t, u)

\* domains/*/gates.py: what the engine's pack asks for holds of the run itself,
\* however the fixes have re-ordered the plan.  secops: an isolation finds the
\* traffic drained, a destructive step all evidence preserved, unless the plan runs
\* them side by side.  The other packs: no run that completes lacks a safeguard.
PackObligationsMet ==
  LET begun(actions) == {t \in Doing(plan, actions) : t.id \in started}
      done(actions) == \E t \in Doing(plan, actions) : t.id \in completed
      over == pc = "running" /\ completed = Ids(plan)
      finished(actions) == over /\ begun(actions) # {}
  IN /\ pack = "secops" =>
          /\ \A t \in begun({"isolate"}) : \E u \in Doing(plan, {"drain"}) : DoneFor(t, u)
          /\ \A t \in begun(ForensicDestruction) :
               \A u \in Doing(plan, Preservation) : DoneFor(t, u)
          /\ finished(StsActions) =>
               done(Approvals) \/ \A t \in begun(StsActions) : t.target \notin BroadTargets
     /\ pack = "finops" =>
          /\ finished(Deletions) => \A step \in GraceSteps : done(step)
          /\ finished(ScaleUps) => done(OverrideActions) \/ ~(Spend(plan) > BudgetCap)
     /\ pack = "data_eng" =>
          /\ finished(DestructiveQueries) => done(BackupActions) /\ done(VerifyBackupActions)
          /\ finished(LiveMigrations) =>
               done(WindowActions) /\ done(DualWriteActions) /\ done(FallbackActions)
     /\ pack = "supply_chain" =>
          /\ finished(ManifestEdits) => Relocks(plan)
          /\ finished(MajorBumps) => done(MigrationActions) /\ done(LintActions)
          /\ finished(Deployments) => done(SignActions) /\ done(SbomActions)

=============================================================================
