------------------------------- MODULE Gates --------------------------------
(***************************************************************************)
(* The deterministic gates (gates/), the two automatic fixes               *)
(* (loop/autofix.py) and the scope of the diff-aware audit                 *)
(* (critique/diff.py): what the engine computes of a plan, without a model.*)
(***************************************************************************)
EXTENDS DomainPacks

CONSTANTS
  EnvFacts,    \* facts that name the environment ("env", "env:...", "infra")
  Templates,   \* Templates[f][id]: the step of the first template that matches the
               \* message of a gap, fact f of task id; NoStep when none does
  PreStateChecks,  \* the checks whose name begins with "pre-state"
  Quota        \* blast-radius quota: ceilings, restricted actions and targets

NonReversible == {"publish", "destroy", "commit"}
Destructive == {"delete", "destroy", "drop", "terminate", "remove"}
Alterations == {"drop", "alter", "migrate", "truncate", "delete", "destroy"}
Databases == {"db", "schema"}

(***************************************************************************)
(* One operator per gate                                                   *)
(***************************************************************************)

SchemaValid(p) == When(p.tasks = <<>>, {Blocker("plan_schema_invalid", NoTask)})

\* The count of Kahn's algorithm; PlanGraph shows that it is exact.
HasCycle(p) ==
  \E S \in SUBSET Ids(p) : S # {} /\ \A v \in S : \E u \in S : <<u, v>> \in p.hard
NoDepCycles(p) == When(HasCycle(p), {Blocker("dependency_cycle", NoTask)})

OrderingSane(p) ==
  {Blocker("unsafe_ordering", e[2]) : e \in {d \in p.hard : Place(p, d[1]) > Place(p, d[2])}}

VerificationPresent(p) ==
  {Blocker("missing_verification", t.id) : t \in {u \in Steps(p) : u.high /\ u.what = None}}

RollbackPresent(p) ==
  {Blocker("missing_rollback", t.id) : t \in {u \in Steps(p) : u.high /\ u.rollback = "none"}}

Verified(p) == {t \in Steps(p) : t.high /\ t.what # None}

IsPreStateCheck(t) == t.what \in PreStateChecks

\* A consumer that acts before the check, or checks what is gone.
EarlyConsumers(p, t) ==
  {u \in Consumers(p, t) :
     IF IsPreStateCheck(u) THEN Place(p, u.id) > Place(p, t.id)
                           ELSE Place(p, u.id) < Place(p, t.id)}

\* Variant: only high-risk siblings are racing.
RacingHigh(p, t) ==
  {u \in Steps(p) : u # t /\ u.high /\ t.group # None /\ u.group = t.group /\ u.target = t.target}

\* A member of the group that writes the same target.
Racing(p, t) ==
  {u \in Steps(p) : u # t /\ t.group # None /\ u.group = t.group /\ u.target = t.target}

VerificationOrdering(p) ==
  UNION {{Blocker("verification_after_consumer", u.id) :
            u \in EarlyConsumers(p, t) \cup Racing(p, t)} : t \in Verified(p)}

Bare(t) == t.what = None /\ t.rollback = "none"

\* Variant: only declared consumers count.
StrandedDeclared(p, t) == {u \in Consumers(p, t) : Bare(u)}

\* Tasks a rollback of t leaves without a basis and without a way to notice.
Stranded(p, t) ==
  {u \in Steps(p) :
     /\ Bare(u)
     /\ \/ u \in Consumers(p, t)
        \/ Place(p, u.id) > Place(p, t.id) /\ \E c \in u.pre : c.by = t.id}

RollbackCredible(p) ==
  UNION {When(t.rollback # "none" /\ t.action \in NonReversible,
              {Blocker("rollback_unreachable", t.id)})
         \cup {Blocker("rollback_self_dependent", t.id) : c \in {d \in t.pre : d.by = t.id}}
         \cup When(t.rollback = "prose",
                   {Warning("rollback_state_undeclared", t.id)}
                   \cup {Blocker(IF u \in Consumers(p, t) THEN "rollback_post_consumed"
                                                          ELSE "rollback_inconsistent_state",
                                 u.id) : u \in Stranded(p, t)})
         : t \in {u \in Steps(p) : u.high}}

\* What the gate lets a later task take for established: the task, its target, its
\* check, and what it asks for itself.
TaskFacts(t) ==
  ({t.id, "env:" \o t.target} \cup {c.fact : c \in t.pre} \cup {c.by : c \in t.pre}
     \cup When(t.what # None, {t.what, "verified:" \o t.what})) \ {None}

\* Variant: any task of the plan grounds a fact.
EstablishedAnywhere(p, i) == UNION {TaskFacts(p.tasks[j]) : j \in DOMAIN p.tasks \ {i}}

EstablishedBefore(p, i) == UNION {TaskFacts(p.tasks[j]) : j \in 1..i - 1}

Grounded(c, facts) == c.probed \/ c.by \in EnvFacts \cup facts

\* The preconditions nothing grounds, with their place in the plan.
Gaps(p) ==
  UNION {{<<i, c>> : c \in {d \in p.tasks[i].pre : ~Grounded(d, EstablishedBefore(p, i))}}
         : i \in DOMAIN p.tasks}

PreconditionsReferenced(p) ==
  {Blocker("unverified_precondition", p.tasks[g[1]].id) : g \in Gaps(p)}

\* High-risk tasks that share a group with another one.
Crowded(p) ==
  {t \in Steps(p) : /\ t.high /\ t.group # None
                    /\ Cardinality({u \in Steps(p) : u.high /\ u.group = t.group}) >= 2}

ParallelSafety(p) ==
  {Blocker("unsafe_parallelization", t.id) :
     t \in {u \in Crowded(p) : \A v \in Crowded(p) :
                                 v.group = u.group => Place(p, u.id) <= Place(p, v.id)}}

RequirementTrace(p) ==
  {Warning("step_not_traced_to_criterion", t.id) :
     t \in {u \in Steps(p) : ~u.traced /\ \E v \in Steps(p) : v.traced}}

(***************************************************************************)
(* quota.py, an extra gate like those of a pack: restricted actions and    *)
(* clusters are warnings (the engine builds it for the balanced posture,   *)
(* whatever the goal's is), ceilings block.                                *)
(***************************************************************************)
RestrictedUse(p) ==
  {Warning("blast_radius_restricted_action", t.id) : t \in Doing(p, Quota.actions)}
  \cup {Warning("blast_radius_restricted_cluster", t.id) :
          t \in {u \in Steps(p) : u.target \in Quota.targets}}

QuotaBreaches(p) ==
  When(\/ Cardinality(Steps(p)) > Quota.changes
       \/ Cardinality(Doing(p, Destructive)) > Quota.destructive
       \/ Cardinality({t \in Doing(p, Alterations) : t.target \in Databases}) > Quota.alterations,
       {Blocker("blast_radius_quota_breach", NoTask)})

\* run_deterministic_gates: the gates of every engine, and those it is given.
StandardFindings(p) ==
  SchemaValid(p) \cup NoDepCycles(p) \cup OrderingSane(p) \cup VerificationPresent(p)
    \cup VerificationOrdering(p) \cup RollbackPresent(p) \cup RollbackCredible(p)
    \cup PreconditionsReferenced(p) \cup ParallelSafety(p) \cup RequirementTrace(p)

GateFindings(p, pack) ==
  StandardFindings(p) \cup PackFindings(p, pack) \cup RestrictedUse(p) \cup QuotaBreaches(p)

Blockers(p, pack) == {f \in GateFindings(p, pack) : IsBlocker(f)}

(***************************************************************************)
(* The automatic fixes                                                     *)
(***************************************************************************)

Honours(p, l) == \A i, j \in DOMAIN l : <<l[i].id, l[j].id>> \in p.hard => i < j

ComesBefore(p, l, m) ==
  \E k \in DOMAIN l : /\ \A i \in 1..k - 1 : l[i] = m[i]
                      /\ Place(p, l[k].id) < Place(p, m[k].id)

\* topological_reorder; PlanGraph shows that it finds the least honouring list.
Reorder(p) ==
  LET lists == {l \in SetToSeqs(Steps(p)) : Honours(p, l)}
  IN [p EXCEPT !.tasks = CHOOSE l \in lists : \A m \in lists : m = l \/ ComesBefore(p, l, m)]

\* Ordering is all that is wrong, and re-ordering makes it right.
Repairable(p, pack) ==
  /\ Blockers(p, pack) # {}
  /\ \A f \in Blockers(p, pack) : f.code = "unsafe_ordering"
  /\ Blockers(Reorder(p), pack) = {}

AfterRepair(p, pack) == IF Repairable(p, pack) THEN Reorder(p) ELSE p

\* The step a template has for a gap.
StepFor(p, g) == Templates[g[2].fact][p.tasks[g[1]].id]

\* The gaps with a template whose step is new.
Closable(p) == {g \in Gaps(p) : StepFor(p, g) # NoStep /\ StepFor(p, g).id \notin Ids(p)}

\* The closer takes the first one in the order of the findings: of the first task
\* that has one, any of its preconditions, whose order is not modelled.
FirstClosable(p) == {g \in Closable(p) : \A h \in Closable(p) : g[1] <= h[1]}

\* Variant: the step takes the place of the task with the gap.
CloseReplacing(p, g) == [p EXCEPT !.tasks = [@ EXCEPT ![g[1]] = StepFor(p, g)]]

Close(p, g) == [p EXCEPT !.tasks = InsertAt(@, g[1], StepFor(p, g))]

\* The plans the two fixes may make of p.
AfterFixes(p, pack) ==
  LET r == AfterRepair(p, pack)
  IN IF Closable(r) = {} THEN {r} ELSE {Close(r, g) : g \in FirstClosable(r)}

(***************************************************************************)
(* The diff-aware audit                                                    *)
(***************************************************************************)

\* Variant: a task that was added is not a change.
ChangedOnly(a, b) == {id \in Ids(a) \cap Ids(b) : Step(a, id) # Step(b, id)}

\* changed_tasks: added, or with another content; edges and order do not count.
Changed(a, b) == {id \in Ids(b) : id \in Ids(a) => Step(a, id) # Step(b, id)}

\* dependent_closure: the least set with S that dependents do not leave.
DependentClosure(p, S) ==
  {id \in Ids(p) :
     \A C \in SUBSET Ids(p) :
       S \subseteq C /\ (\A e \in p.hard \cup p.soft : e[1] \in C => e[2] \in C) => id \in C}

AuditScope(a, b) == DependentClosure(b, Changed(a, b))

=============================================================================
