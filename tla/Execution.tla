------------------------------ MODULE Execution ------------------------------
(***************************************************************************)
(* The execution of an approved plan.  Before a step the framework passes  *)
(* its guard, checks that the approval is fresh, and has the preconditions *)
(* of the step probed one after another; after it the outcome is recorded  *)
(* as a trace and as a link of the trace to the revision, two commits.  A  *)
(* failure is classified: the step is retried, the plan replanned (a       *)
(* revision and a link to its parent, two commits again), or the execution *)
(* stops.  The library's parts are the repository's; the executor that     *)
(* puts them together in this order (Call), the framework's own turns and  *)
(* the world are external.                                                 *)
(*                                                                         *)
(* The process may stop anywhere and start anew over the same store, where *)
(* it writes the same revisions again.                                     *)
(***************************************************************************)
EXTENDS Guards, FiniteSets

CONSTANTS
  Setups,          \* [kind, mode, policy]: the guard, ReGateConfig.mode, replan_policy
  Facts,           \* the preconditions that have a probe
  Live,            \* those whose probe looks at the world (env_var, http_check);
                   \* db_query and deploy_status answer from their own query
  Needs,           \* Needs[t]: the probed preconditions of t, in order
  Ttl,             \* approval_ttl, in ticks
  StepMaxRetries, RunMaxDepth,
  MaxAsks,         \* bound: refusals after which a framework gives up
  MaxLives,        \* bound: starts of the process
  MaxDrifts        \* bound: changes of the world

ASSUME ExecutionAssumption ==
  /\ Setups \subseteq [kind : Kinds, mode : {"before-each-step", "off"},
                      policy : {"patch", "restart", "abort"}]
  /\ Live \subseteq Facts /\ Needs \in [Tasks -> Seq(Facts)]
  /\ {Ttl, StepMaxRetries, RunMaxDepth} \subseteq Nat
  /\ {MaxAsks, MaxLives} \subseteq Nat \ {0} /\ MaxDrifts \in Nat

VARIABLES
  mode,      \* ReGateConfig.mode
  policy,    \* the goal's replan_policy
  at,        \* where the executor stands
  step,      \* the step at hand: its task, the probes to come, whether one did
             \* not match, the outcome; and for the properties: whether the
             \* approval was fresh and what changed since the gate began
  done,      \* tasks the framework counts as done
  version,   \* the revision that is executed
  retries,   \* ReplanClassifier._step_retries
  depth,     \* RunBudget._cascading_depth
  asks, life, drifts,
  age,       \* now - approved_at; Ttl + 1 stands for any longer time
  world,     \* the facts that hold
  rows,      \* plan_versions
  lineage,   \* replan_links: the revisions that have one; the parent of v is v - 1
  traces, links   \* for each process, how many of its execution_traces no link
                  \* names, and how many of its links name a trace that is not
                  \* stored; the pairs that agree are left out

guard == <<kind, result>>
process == <<done, version, retries, depth, asks>>
store == <<rows, lineage, traces, links>>
env == <<age, world, drifts, life>>
vars == <<guard, mode, policy, at, step, process, store, env>>

\* The plan at hand is one of the guard's: an ApprovedPlan has its tasks.
Stale == age > Ttl
NoStep == [task |-> "none", probes |-> <<>>, stale |-> FALSE, outcome |-> "none",
           moved |-> {}, fresh |-> TRUE]

\* How a step can end; a failure is named for the class classify gives its outcome.
Outcomes == {"ok", "transient", "deterministic", "ambiguous"}

Over == at \in {"done", "stopped"}

Init ==
  /\ \E s \in Setups : kind = s.kind /\ mode = s.mode /\ policy = s.policy
  /\ result = Nothing
  /\ at = "consult" /\ step = NoStep
  /\ done = {} /\ version = 1 /\ retries = [t \in Tasks |-> 0] /\ depth = 0
  /\ asks = 0 /\ life = 1 /\ drifts = 0 /\ age = 0 /\ world = Facts
  /\ rows = {} /\ lineage = {}
  /\ traces = [l \in 1..MaxLives |-> 0] /\ links = [l \in 1..MaxLives |-> 0]

-----------------------------------------------------------------------------
\* Approval.

\* The framework asks for a plan; an approved one is stored and stamped.
Plan(r) ==
  /\ at = "consult" /\ Consult(r)
  /\ at' = "call"
  /\ IF r.status = "approved" THEN rows' = rows \cup {version} /\ age' = 0
     ELSE UNCHANGED <<rows, age>>
  /\ UNCHANGED <<mode, policy, step, process, lineage, traces, links, world, drifts, life>>

\* A refusal, or an engine that raises: the framework tries again, or plans again
\* if its guard would, until it gives up.
TryAgain(next) ==
  /\ at' = IF asks + 1 = MaxAsks THEN "stopped" ELSE next
  /\ asks' = asks + 1
  /\ UNCHANGED <<guard, mode, policy, step, done, version, retries, depth, store, env>>

PlanRaises == at = "consult" /\ MayConsult /\ TryAgain("consult")

Refused(t) ==
  /\ at = "call" /\ ~Admits(t)
  /\ \E next \in {"call", "consult"} : (next = "consult" => MayConsult) /\ TryAgain(next)

\* check_preconditions finds no such task in the approved plan.
UnknownTask(t) ==
  /\ at = "call" /\ Admits(t) /\ mode # "off" /\ t \notin result.plan
  /\ TryAgain("call")

-----------------------------------------------------------------------------
\* The step gate.

\* The call is admitted and its approval is looked at; with the gate off the step
\* runs at once.
Call(t) ==
  /\ at = "call" /\ Admits(t) /\ t \notin done
  /\ step' = [NoStep EXCEPT !.task = t, !.probes = Needs[t], !.fresh = ~Stale]
  /\ IF mode = "off" THEN at' = "run"
     ELSE t \in result.plan /\ at' = IF Stale THEN "replan" ELSE "gate"
  /\ UNCHANGED <<guard, mode, policy, process, store, env>>

\* What a probe makes of its fact.  A live one that cannot run does not match; the
\* others match what their own query says, which may be another value than the one
\* expected, or no JSON.
Observed(f) == IF f \in Live \ world THEN {FALSE} ELSE BOOLEAN

\* Variant: the last probe decides.
AfterLastProbe(matched) == [step EXCEPT !.probes = Tail(@), !.stale = ~matched]

AfterProbe(matched) == [step EXCEPT !.probes = Tail(@), !.stale = @ \/ ~matched]

Probe ==
  /\ at = "gate" /\ step.probes # <<>>
  /\ \E matched \in Observed(Head(step.probes)) : step' = AfterProbe(matched)
  /\ UNCHANGED <<guard, mode, policy, at, process, store, env>>

\* All probes have run: the step runs, or its trace says that it was blocked.
GateEnds ==
  /\ at = "gate" /\ step.probes = <<>>
  /\ IF step.stale
     THEN at' = "trace" /\ step' = [NoStep EXCEPT !.task = step.task, !.outcome = "blocked"]
     ELSE at' = "run" /\ UNCHANGED step
  /\ UNCHANGED <<guard, mode, policy, process, store, env>>

StepEnds(o) ==
  /\ at = "run"
  /\ at' = "trace" /\ step' = [NoStep EXCEPT !.task = step.task, !.outcome = o]
  /\ UNCHANGED <<guard, mode, policy, process, store, env>>

-----------------------------------------------------------------------------
\* The recorder: the trace, then its link.

\* Variant: the link is stored first.
PutTraceLast ==
  /\ at = "trace"
  /\ links' = [links EXCEPT ![life] = @ + 1]
  /\ at' = "link"
  /\ UNCHANGED <<guard, mode, policy, step, process, rows, lineage, traces, env>>

\* A trace has a new id.
PutTrace ==
  /\ at = "trace"
  /\ traces' = [traces EXCEPT ![life] = @ + 1]
  /\ at' = "link"
  /\ UNCHANGED <<guard, mode, policy, step, process, rows, lineage, links, env>>

\* The link of the trace just stored to the revision that is executed.
Link ==
  /\ at = "link"
  /\ IF traces[life] > 0 THEN traces' = [traces EXCEPT ![life] = @ - 1] /\ UNCHANGED links
     ELSE links' = [links EXCEPT ![life] = @ + 1] /\ UNCHANGED traces
  /\ at' = "judge"
  /\ UNCHANGED <<guard, mode, policy, step, process, rows, lineage, env>>

-----------------------------------------------------------------------------
\* What follows from the outcome.

NextCall == IF kind = "decorator" THEN "consult" ELSE "call"

\* Variant: a step has its retries anew once it was given up.
ClassifyAnew ==
  LET n == retries[step.task] + 1 IN
  IF n > StepMaxRetries THEN [class |-> "transient", count |-> 0]
  ELSE [class |-> "transient", count |-> n]

\* The class of a transient failure, and the count of those of the task; the
\* count is kept by task id and never reset.
Classify ==
  LET n == retries[step.task] + 1 IN
  IF n > StepMaxRetries THEN [class |-> "ambiguous", count |-> n]
  ELSE [class |-> "transient", count |-> n]

\* What the executor does: retry, replan or leave it to a human.
Follows ==
  [class \in Outcomes \cup {"blocked"} |->
     CASE class \in {"ok", "transient"} -> NextCall
       [] class \in {"deterministic", "blocked"} -> "replan"
       [] OTHER -> "stopped"]

Judge ==
  /\ at = "judge"
  /\ IF step.outcome = "transient"
     THEN /\ at' = Follows[Classify.class]
          /\ retries' = [retries EXCEPT ![step.task] = Classify.count]
     ELSE at' = Follows[step.outcome] /\ UNCHANGED retries
  /\ done' = IF step.outcome = "ok" THEN done \cup {step.task} ELSE done
  /\ step' = NoStep
  /\ UNCHANGED <<guard, mode, policy, version, depth, asks, store, env>>

Complete ==
  /\ at = "call" /\ result # Nothing /\ result.plan \subseteq done
  /\ at' = "done"
  /\ UNCHANGED <<guard, mode, policy, step, process, store, env>>

-----------------------------------------------------------------------------
\* Replanning.

\* The planner revises, replan stamps the next version, which is stored over one
\* of an earlier process.
Replan ==
  /\ at = "replan" /\ policy # "abort"
  /\ rows' = rows \cup {version + 1}
  /\ at' = "relink"
  /\ UNCHANGED <<guard, mode, policy, step, process, lineage, traces, links, env>>

\* ReplanAbort under the abort policy, or a planner that fails.
ReplanFails ==
  /\ at = "replan"
  /\ at' = "stopped"
  /\ UNCHANGED <<guard, mode, policy, step, process, store, env>>

PutReplanLink ==
  /\ at = "relink"
  /\ lineage' = lineage \cup {version + 1}
  /\ at' = "charge"
  /\ UNCHANGED <<guard, mode, policy, step, process, rows, traces, links, env>>

\* record_replan, then check.
OverDepth == depth + 1 > RunMaxDepth

\* The revision is put before a new guard; the tasks that were done are done under
\* a patch.
Charge ==
  /\ at = "charge"
  /\ depth' = depth + 1
  /\ IF OverDepth
     THEN at' = "stopped" /\ UNCHANGED <<guard, version, done>>
     ELSE /\ at' = "consult" /\ version' = version + 1
          /\ done' = IF policy = "patch" THEN done ELSE {}
          /\ IF kind = "session" THEN UNCHANGED guard ELSE Renew
  /\ UNCHANGED <<mode, policy, step, retries, asks, store, env>>

-----------------------------------------------------------------------------
\* The environment.

Stop ==
  /\ ~Over /\ at # "down"
  /\ at' = "down"
  /\ UNCHANGED <<guard, mode, policy, step, process, store, env>>

Restart ==
  /\ at = "down" /\ life < MaxLives
  /\ at' = "consult" /\ life' = life + 1 /\ Renew
  /\ step' = NoStep /\ done' = {} /\ version' = 1
  /\ retries' = [t \in Tasks |-> 0] /\ depth' = 0 /\ asks' = 0
  /\ UNCHANGED <<mode, policy, store, age, world, drifts>>

Drift(f) ==
  /\ drifts < MaxDrifts /\ drifts' = drifts + 1
  /\ world' = IF f \in world THEN world \ {f} ELSE world \cup {f}
  /\ step' = IF at \in {"gate", "run"} THEN [step EXCEPT !.moved = @ \cup {f}] ELSE step
  /\ UNCHANGED <<guard, mode, policy, at, process, store, age, life>>

Tick ==
  /\ age' = IF age > Ttl THEN age ELSE age + 1
  /\ UNCHANGED <<guard, mode, policy, at, step, process, store, world, drifts, life>>

Turn ==
  \/ \E r \in Results : Plan(r)
  \/ PlanRaises
  \/ \E t \in Tasks : Refused(t) \/ UnknownTask(t) \/ Call(t)
  \/ Probe \/ GateEnds
  \/ \E o \in Outcomes : StepEnds(o)
  \/ PutTrace \/ Link \/ Judge \/ Complete
  \/ Replan \/ ReplanFails \/ PutReplanLink \/ Charge

Next == Turn \/ Stop \/ Restart \/ Tick \/ \E f \in Facts : Drift(f)

\* A call of the library returns, a probe has a time limit of five seconds, and
\* a framework takes its turns until it gives up; nothing makes a process restart.
Spec == Init /\ [][Next]_vars /\ WF_vars(Turn)

-----------------------------------------------------------------------------

\* No tool runs unless the last word of the engine that the guard holds is an
\* approval: not after a refusal, a replan, a failure of the engine or a restart.
NoToolWithoutApproval == at = "run" => IsApproved

\* A gated step runs under an approval that was fresh when its gate began, and a
\* precondition with a live probe that does not hold has changed since: however
\* many probes the gate runs, whatever they answer and wherever one fails.
GateIsSound ==
  (at = "run" /\ mode # "off") =>
    /\ step.fresh
    /\ \A f \in Live : f \in ToSet(Needs[step.task]) => f \in world \/ f \in step.moved

\* The trail of an execution has gaps only where a process stopped between two
\* commits: at most one trace without its link and one revision without its
\* replan link for each process that is over.  What a link names is stored.
TrailIsComplete ==
  LET loose == {v \in rows : v > 1 /\ v \notin lineage}
  IN /\ \A l \in 1..MaxLives : links[l] = 0 /\ traces[l] <= 1
     /\ traces[life] = 1 => at \in {"link", "down"}
     /\ \A v \in lineage : {v - 1, v} \subseteq rows
     /\ Cardinality(loose) + (IF at \in {"relink", "down"} THEN 0 ELSE 1) <= life

\* An execution ends: its steps are done, it was stopped, or its process is down.
\* Retries are bounded for each step, replans by the depth of the run, and a
\* framework asks a bounded number of times.
ExecutionEnds == <>[](Over \/ at = "down")

=============================================================================
