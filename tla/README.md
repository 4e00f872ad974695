# A TLA+ model of planner-critic

`planner-critic` drafts a plan with a planner model, puts it through deterministic
gates and an LLM critic, and either approves it, revises it or escalates it to a
reviewer. This directory holds TLA+ modules for the parts of it whose correctness
depends on the order of steps, TLC configurations that check them on small
instances, and TLAPS proofs of the properties that matter most. Paths below are
relative to `src/src/planner_critic/` unless they start with `docs/`.

`PROJECT.json` lists, by machine, what this text describes: the components, the runs
and their properties, for each property a wrong form of the code that breaks it, the
lines of the code each definition models, the hazards, and the theorems.

## The system

| component | code | state it keeps | operations |
|---|---|---|---|
| planning loop | `loop/_controller.py`, `loop/{budget,convergence,oscillation,histogram,regression}.py`, `critique/mode.py`, `approval.py` | current plan, revision, spend, findings, prior revision, signature and histogram histories | decompose, run gates, repair, call the critic, approve, revise, escalate |
| gates, packs, fixes | `gates/`, `domains/`, `quota.py`, `policy.py`, `posture.py`, `loop/autofix.py`, `rollback_synth.py` | none: functions of a plan | findings of a plan; reorder, inject a step, synthesise a rollback |
| critic | `critique/` | none between calls | audit, audit of a diff |
| roles and providers | `roles.py`, `llm/` | the provider file; retries inside a call | load, edit and save the file; decompose, revise, structured call with retries |
| plan store | `store/sqlite.py`, `store/versions.py` | tables in SQLite: plan versions, findings, escalations, traces, links; schema ledger | one commit per `put_*`; apply and revert migrations |
| escalation manager | `escalation.py` | rows of the store | create, resolve, patch and re-critique |
| surfaces | `server/`, `cli/`, `shadow.py`, `field_test_harness.py` | a registry and a planner, kept by a server | build the roles of a request, answer it, store what a run produced in several commits |
| resource lock | `state.py` | lock per resource URI | acquire, release, conflict query |
| notifier | `notifier.py` | deduplication entries, last result | dispatch with retries |
| execution, replanning | `execution.py`, `regate.py`, `replan.py`, `loop/ttl.py`, `probe/` | traces, links | record, re-gate, replan, staleness |
| guards | `adapters/`, `guardrail.py` | what the engine answered last | consult the engine, admit or refuse a tool call |
| ledger | `ledger.py` | precondition facts, diagnostics | update per revision |
| run budget | `run_budget.py` | spend, depth, start time, retries per task | record, check, classify a failure |
| engine facade, eval, corpus, demo, observability | rest | mostly none | configuration, reports, wrappers |

How they interact. A surface calls `Engine.plan`, which runs the loop in the calling
thread; the loop calls the roles and the gates and returns a result; the surface
then writes plan, findings and escalation to the store, one commit each, and may
notify. A reviewer works on the same database from another process. Executing a plan
passes a guard before each tool call, takes locks in a process-wide lock table, re-gates,
and writes traces. Every surface finds its models in one provider file, which the CLI and
the start of a server rewrite.

What is hard, and what correctness means for each:

* **Loop.** Five paths lead back to its head and some ten exits leave it, each reading
  variables (`prior_findings`, `prior_plan`, the histories, the spend) that only some
  paths update. Correct: what is approved passes the gates and was judged itself; every
  escalation has the cause it names; spending stays within the ceilings; it ends.
* **Lock.** Expiry against late holders; polling waiters; a release that names no owner.
  Correct: plans that let go in time exclude each other; conflicts are real; `acquire`
  returns.
* **Graphs.** Kahn's count, a greedy reorder and a reversed order have to agree about the
  same graph. Correct: blocked exactly on a cycle, repaired to the least list in order,
  undone consumers first.
* **Store and escalations.** No operation of a surface or of the manager is a
  transaction, and two processes share the file. Correct: a question is about a stored
  plan, a decision stands, what is stored under a revision belongs together.
* **Migrations.** DDL commits by itself and the ledger row follows later; processes open
  a new store together and fail anywhere. Correct: the ledger is true, an opened store
  has its schema, and a half-done upgrade is finished by a later open.
* **Gates and execution.** A gate judges a list of tasks; the executor runs parallel
  groups, the fixes reorder and insert, and a critic that audits differences sees a part.
  Correct: what the gates promise of an approved plan holds while it runs.
* **Notifier.** At-least-once against deduplication before delivery. Correct: a success is
  a delivery, and who keeps dispatching arrives.
* **Guards and the step gate.** Answers kept across calls, approvals that go stale and facts
  that change between check and use, traces and links in two commits. Correct: no tool
  without an approval, and a trail with gaps only where a process stopped.
* **Provider file and servers.** A file truncated and rewritten without a lock, read once
  by one server and for each request by another. Correct: roles name providers that
  exist, a request is served from one configuration, every request is answered.

The full list of hazards, each at its line, is under `hazards` in `PROJECT.json`.

## The modules

| module | models | state | actions |
|---|---|---|---|
| `Findings` | `types.Finding`, `approval.resolve_threshold`, the keys and counts other modules read | – | – |
| `PlanLoop` | `loop/_controller.py` `_run` and what it calls | see below | `Decompose`, `RunGates`, `EscalateBlocked`, `ReviseBlocked`, `RefuseCritic`, `CallCritic`, `SkipCritic`, `CriticAnswers`, `CriticFails`, `Approve`, `EscalateJudged`, `ReviseJudged`, `Revise`, `RunBudgetTrips`, failures of the roles |
| `PlanningRun` | abstract: rounds of drafting, mechanical fixes, one verdict, only sound drafts approved | – | – |
| `StateLock` | `state.StateLock` and the plans that use it | lock table, grants as the plans see them, calls in progress | `Acquire`, `AcquireBusy`, `WaitOn`, `Poll`, `Release`, `Tick` |
| `EscalationDesk` | `store/sqlite.py` puts, `escalation.py`, the surfaces that write | three tables, what each writer still has to commit | `RunEnds`, `PatchPlan`, `StartResolve`, `PutPlan`, `PutFindings`, `CheckEscalation`, `PutEscalation`, `LookUp`, `Decide`, `JobEnds` |
| `EscalationLifecycle` | abstract: a question is asked once, whoever takes it up finds it unanswered, and answers it at most once | what was asked, is in hand, is answered | `Ask`, `TakeUp`, `Answer`, `PutDown` |
| `Migrations` | `store/versions.py` | ledger, objects, each process's place in its script | `StartUp`, `CreateObject`, `Record`, `StartDown`, `DropObject`, `Unrecord`, `Fail`, `Close` |
| `PlanGraph` | `gates/dep_cycles.py`, `gates/ordering.py`, `topological_reorder` of `loop/autofix.py`, `rollback_synth.py` | the task list and its hard edges, the in-degrees and deque of Kahn's algorithm, the order so far, the rollback list | `RunCycleGate`, `Dequeue`, `GatesEnd`, `CallReorder`, `PlaceNext`, `DeclineReorder`, `AdoptReorder`, `StepFails`, `SynthesizeFull`, `RefuseCyclic`, `StartSort`, `Synthesize` |
| `PlanSchema` | `schema/plan.py` | – | – |
| `DomainPacks` | the gates of `domains/*/gates.py` | – | – |
| `Gates` | `gates/*.py`, `quota.py`, both fixes of `loop/autofix.py`, `critique/diff.py` | – | – |
| `Posture` | `posture.py` | – | – |
| `Review` | an engine with posture, quota and pack (`engine.py`), the diff-aware audit, an executor | plan, plan judged before, findings, tasks started and completed; history: blockers raised, edges changed | `Decompose`, `RunGates`, `ReturnBlocked`, `CallCritic`, `Approve`, `ReturnJudged`, `Revise`, `Act`, `Check`, `StepFails` |
| `Policies` | `policy.py`, `cli/{check,critique,domains,policy}.py` | – | – |
| `DemoScenarios` | `demo/roles.py` | – | – |
| `ReasonCodes` | `reason_codes.py` | – | – |
| `Guards` | `adapters/`, `guardrail.py` | what the guard holds | `Consult`, `Renew` |
| `Execution` | `regate.py`, `probe/`, `execution.py`, `replan.py`, `run_budget.py`, `demo/runner.py` on top of `Guards` | the step at hand, retries, depth, rows and links of the store, the world | `Plan`, `PlanRaises`, `Refused`, `UnknownTask`, `Call`, `Probe`, `GateEnds`, `StepEnds`, `PutTrace`, `Link`, `Judge`, `Complete`, `Replan`, `ReplanFails`, `PutReplanLink`, `Charge`, `Stop`, `Restart`, `Tick`, `Drift` |
| `Notifier` | `notifier.py` | surfaces, deduplication entries, the dispatch in progress, what surfaces have and callers were told | `Register`, `Begin`, `Delivered`, `Failed`, `Tick` |
| `Delivery` | abstract: what a notifier promises of an event and a surface | – | – |
| `Service` | `llm/registry.py`, `llm/structured.py`, `server/http.py`, `server/mcp.py`, `cli/{plan,providers}.py`, `field_test_harness.py`, roles of `guardrail.py` | the provider file and its edits in progress, what servers cache, the request in progress | `Load`, `Truncate`, `Save`, `GiveUp`, `Ask…`, `ReadConfig`, `BindPlanner`, `KeepPlanner`, `BindCritic`, `CallProvider`, `PlannerFails`, `Proceeds`, `Crash` |
| `MC…` | small instances | | |
| `…Proofs` | theorems about the module of that name; `LockAndNotifierProofs` is about two, and `ReviewProofs` about `Gates`, `DomainPacks` and `Policies` too | | |

Definitions marked *Variant* are wrong forms of the definition after them (a dropped
recheck, a swapped order, an off-by-one). They are not part of any specification; they
document which slip in the code each property notices.

**PlanLoop.** The plan is an element of a set, and all the controller can see of it are
functions given as constants: its gate findings, its reordered form, its form with a
step injected, its structural signature, its content fingerprint, and what two plans
have in common. The theorems therefore hold for any gates, domain gates included. The
planner and the critic are the environment: any plan, any set of findings, or an
exception. Each pass round the loop is a few actions: `RunGates` is everything from the
loop head to the mode test (count the revision, gates, ordering repair with its
recheck, precondition closer with its recheck, signature); the dispatch actions are the
mode test; `Judge` actions are the threshold and the chain of exits in the order of
the code (`JudgedExit`). `spend`, `sigs`, `hists`, `priorPlan`, `priorFindings` are the
locals of `_run` with their update points. `RunBudgetTrips` lets the run-level ceilings
of `run_budget.py` start to report at any moment.

**StateLock.** The mutex makes each look at a record atomic; sleeping does not hold it.
Time is counted in polls. `lock` is `_locks`, `grant` is what the plans believe; a plan
that is late still has its grant when another one has the record. The
callers are external: under `punctual` they hold one resource at a time and let go
before it expires, otherwise they do as they like.

**EscalationDesk.** A writer's job is the set of commits it still has to make, taken in
the order `Before` gives, which is the order of the statements in the surface. Between
two commits anything happens, and `JobEnds` may end a job anywhere: that is a crash, a
`StoreUnavailable`, a refused check, and the regular return. `LookUp` and `Decide` are
the read and the write of `EscalationManager.resolve`. A run is stored once, over whatever is
there, so several runs with one plan id are the re-runs. The variables `acks`, `asked`,
`overlapped` and `partial`, and in a row its writer (`by`) and whether
`EscalationManager.create` stored it (`via`), are history: no guard reads them. A question is
what one writer asked about one plan id.

**Migrations.** Each DDL statement of a script is a step, and so is the ledger row. A
revert runs the down scripts the same way. Objects are those a migration creates;
`CREATE … IF NOT EXISTS` and `DROP … IF EXISTS` are idempotent. `alone` is a history
variable: nobody was at work with somebody else, and nothing failed.

**PlanGraph.** One plan from its draft to its rollback. Each turn of a loop is a step:
`Dequeue` is the body of Kahn's algorithm, which the cycle gate and both halves of the
rollback synthesis share, and `PlaceNext` the body of the reorder. An in-degree is the
set of predecessors it counts, so that the invariant can say which. The other gates and
the critic are left out: `approved` means that these two gates let the plan pass,
`blocked` that the cycle gate did not. `draft` is a history variable, the list as drafted.
The tasks of a rollback are named by the tasks they undo.

**PlanSchema, DomainPacks, Gates.** Here a plan has its tasks: an id, an action and a
target, whether its blast radius and its risk class are high, its parallel group, what it
is verified by (`what`), its rollback (none, prose, or typed, which says what it
restores), its preconditions, whether the goal asks for it (`traced`) and, for the critic, what is wrong with it.
Each gate is an operator from a plan to findings, with the code's quantifiers over list
positions and edges; `GateFindings(p, pack)` is what an engine's gate run returns, the
quota and the gates of its pack included. `AfterRepair`, `Close` and `AfterFixes` are the two
fixes in the order of the loop. The template the closer inserts is chosen by the message of the
gap, that is by its fact and its task, so `Templates` is a function of both; which of a task's
open preconditions comes first is not part of a plan here, so `AfterFixes` is the set of plans
the fixes may leave. `AuditScope` is the diff-aware scope.

**Review** puts these to work: draft, gates and fixes, audit, verdict, revision, and then
the execution of what was approved. It leaves out the ceilings and the stall guards of `PlanLoop`;
as these only end runs, every run that reaches an approval is one of `Review`. `raised` (the
blockers the critic has raised in this run) and `rewired` (a plan it was called on had other
edges than the one before) are history. The critic
has a fixed opinion of each task, so that what the audit misses is the scope's doing. The
executor is external: it takes the list in order, the members of a group concurrently, and
checks a task after its action, which is the order `gates/verification_ordering.py`
assumes. The posture is resolved from rules and signals by `Posture`, and the engine may
have one of the packs.

**Policies, DemoScenarios, ReasonCodes** have no state. They are compared with the gates over
the plans of the instance, in three assumptions that TLC evaluates with the run `review`:
every finding has a catalogued code; every scenario of the demonstration is sent back once
and then approved; and what an engine's gates let through `check` and `critique` let
through too, while a plan that `domains test` accepts can only be stopped by the quota.

**Guards and Execution.** A guard holds what the engine told it and admits a tool call by it;
`Kinds` are the forms this takes in the adapters and in the decorator. The executor around it
is external. No caller in the repository puts the guards, `check_staleness`,
`check_preconditions` and the run budget together: `demo/runner.py` has the walk over the
steps, a drift check, the traces and the replan. `Execution` is an executor that uses every
part, all checks before the step (`Call` and `Observed` are marked external): the call, the staleness of the approval, one probe after another, which may find no match although
the fact holds, the step, the trace and its link (two commits), the
classification, and a replan with its revision and its link (two commits again). `Stop` may
come anywhere, `Restart` begins anew over the same store, `Drift` changes a probed fact at
any time.

**Notifier.** `Begin` is the head of `dispatch`: eviction, the test of the key and its entry.
`Delivered` and `Failed` are attempts; one that failed may have been taken all the same (the
answer was lost). `AfterFailure` is the nesting of the two loops. The caller, who dispatches
an event until every surface confirmed it, is external.

**Service.** An edit of the provider file is a load, a change, a truncation and a write, by
the shell (`providers add`, `providers rm`) or by a server that starts
(`bootstrap_config`), and may stop between any two. A request runs through `ReadConfig`,
`BindPlanner`, `KeepPlanner` and `BindCritic`, which are the shared reads and writes of each
surface's way to its roles, and then calls the planner and the critic through
`StructuredEnforcer`. `offered` is a history variable: the pairs of providers the file has
ever given the two roles.

## The runs

| run | bounds | shows |
|---|---|---|
| `loop` | 7 plans (gate-clean, a warning, out of order, out of order with a precondition that the reorder breaks, an open precondition, both, a blocker no fix reaches), 3 critic findings of which one may come twice, 5 goals, 7 configurations, at most 3 revisions | the safety properties of the loop, that the guards compare the right revisions and every escalation is warranted, that every run ends, and that it implements `PlanningRun` |
| `lock` | 3 plans, 2 resources, timeout 1 and deadline 2 polls, 3 strategies, punctual or not | exclusion of punctual plans, that late plans lose it in one way only, real conflicts, and that `acquire` returns even from a circular wait |
| `desk` | 1 plan id, 2 revisions, 2 bodies, 2 runs and 2 reviewers, all surfaces (what the CLI stores an audit may store), re-runs | no orphan escalation; findings describe their revision and decisions stand where no writers overlap or stop half-way; the lifecycle of a question is implemented whatever they do |
| `migrate` | 3 migrations of 2 objects, 2 processes, 2 failures, with and without reverts | the ledger is true, an opened store has its schema, upgrades complete, undisturbed reverts are exact |
| `graph` | every graph of hard dependencies on 4 tasks (4096), one task list since tasks are named by their place in it | the cycle gate is exact, the reorder gives the least list in order, rollbacks respect the graph, every draft is settled |
| `review` | plans of 2 and 3 tasks around a high-risk one, in lists and in groups, with soft and hard edges both ways; circles of preconditions, plans with two gaps, plans of 4 tasks at the quota; plans for each pack, each with one safeguard missing, out of order or in a group; the plans of the demonstration; 3 revisions; both critique modes; 2 rules, 3 contexts | what the gates and packs promise of an approved plan holds in every order of its execution and when a step fails; started tasks do not rest in a circle; the fixes only help; while edges stay, what the diff-aware audit misses was raised before |
| `execution` | 2 steps and a tool no plan has, 3 preconditions of which 2 have live probes, 5 set-ups of guard, gate and policy, 2 lives of the process, 1 drift, 1 retry, depth 1, time to live 0 | no tool without an approval, a sound step gate, a complete trail, and that executions end |
| `notify` | 2 surfaces, 2 events under one key, 3 attempts, a window of 2 ticks | `Delivery` is implemented, and every event arrives |
| `service` | 2 names, 2 models, a shell and 2 servers, 2 edits or starts, 1 request at a time, 1 retry | roles resolve, one configuration serves a request, retries are bounded, every request is answered |

The bounds. The cap and the lag of the loop are the defaults or one off them; with the default
window of four no stall can be seen within a cap of three, so two configurations have a
window of three. One task and three families suffice because the controller only compares sets of
keys and counts. The audit of a difference needs three judged revisions to forget what the
first one raised. Two waiting plans and a third that takes over are the longest
chain of actors in the lock; two resources make a circular wait possible. Two runs and two
reviewers interleave any two operations of the store, and any two of one kind; one plan id is
enough because rows of different ids share nothing but the listing in which a question is
looked up. Two processes and three migrations
give a race at each version and a failed process behind and ahead of a live one. Four
tasks make cycles with tails before and behind, diamonds, and two components that a
breadth-first and a list order interleave differently. The gates compare at most three
tasks (a producer, a consumer and what stands between), and a fix adds at most one per gap.
One restart is enough for a store that an earlier process left half-written, one drift for
a fact that changes while another is probed. Two events under one key are the only way a
deduplication entry can hide another event. Two edits are a lost update, or a server that
stops, starts and binds another model. One request at a time keeps that instance within
reach; two threads of the MCP server that both find no planner kept
are possible in `Service` but not in this run (with `Workers` of two, one model and one
edit, where they are cheap, the same properties hold).
`CHECK_DEADLOCK FALSE` stands only where a run really stops: a finished planning run,
a plan that is declined, blocked, run or rolled back, an
execution that is over, and a provider file that nobody may edit any more.

### Divergences between the documentation and the code

Three runs check a sentence of the documentation that the code does not keep; TLC
reports a behaviour that breaks it.

| run | sentence | what the code does |
|---|---|---|
| `loop_failed_critic` | `llm/structured.py:7`: persistent provider failure fails closed | an exception of the critic counts as an empty audit, and the plan may be approved |
| `desk_immutable` | `store/base.py:75`: a plan revision is immutable once written | `put_plan_version` replaces: a re-run, or the second of two patches made from one revision, is stored over what is there |
| `execution_cached_refusal` | `adapters/openai_agents.py:51`: raises if the loop did not produce an approved plan | the guard keeps the refusal and returns it, without raising, the second time it is asked; the guard for PydanticAI too |

Met while modelling, visible in the modules, and listed under `findings` without a run:

* `schema/goal.py:54`: `max_tokens` bounds provider spend; the loop records calls without
  a token count, so the ceiling never trips.
* `docs/design/enterprise-safety-design.md:127`: concurrent plans on one target are
  blocked; `release` removes whatever lock is recorded, also a successor's.
* `docs/design/escalation-design.md:61`: one open escalation per plan, the manager is the
  sole gate; `POST /plan` replaces the open question of the plan.
* `store/sqlite.py:38`: opening ensures that the schema exists; after a revert that stopped
  between its drops and its ledger row it does not.
* `rollback_synth.py:318`: a partial rollback is limited to steps completed before the
  failed one; it takes the tasks Kahn's algorithm visits first, also one listed after it.
* `approval.py:5`: strict means no blockers; a critic's blocker on a task that did not
  change is not raised again on the next revision.
* `llm/registry.py:6`: the registry round-trips losslessly; a save drops token and time limits.
* The packs speak of *prior* safeguards; but for two gates of secops they look anywhere in
  the plan, and the closer may insert a missing snapshot after the delete it is for.

Other behaviour worth knowing, without a sentence it contradicts word for word:

* *Loop.* `max_revisions` is overshot by one revision (`SpendIsBounded` states it);
  `auto_converge` can never approve, because an oscillating plan already missed the
  threshold on the same findings (`AutoConvergeNeverApproves` in `PlanLoopProofs`).
* *Desk.* Two reviewers with the same question can both be told that their decision is
  recorded, and the later one replaces the earlier; a run that ends while a reviewer decides
  loses one of question and decision; two questions
  of one goal and version carry one id. The MCP tool `plan` and the CLI store no question.
* *Migrations.* A migration that fails half-way is not rolled back, as `store/versions.py:192`
  says (`CreateObject` commits each statement, `Fail` keeps them).
* *Rollback.* A partial rollback for a step the plan does not have undoes every task (outside
  `PlanGraph`, where the failed step is one of the plan's).
* *Gates.* An edge that changes alone does not put a task into the diff-aware scope, unlike
  what `docs/design/design-decisions.md` (DD-08) argues, so once edges change a blocker may
  escape that was never raised (`NothingNewEscapesTheCritic` excepts such runs); a step the closer inserts closes its gap
  only if the precondition names the template's id, and may itself breach the quota or
  the order a pack asks for; one scale-up of known cost hides that another's is unknown;
  the order gates of secops do not look at parallel groups.
* *Policies.* opa that cannot run is a warning, so `check` passes and `policy test` fails; opa
  that exceeds its time limit raises, and `check` goes on without it.
* *Notifier.* `dispatch` returns the empty list both for a skipped event and without surfaces.
  At-least-once delivery needs a caller who dispatches again after the window. The buttons of
  the Teams card post to `/v1/escalations/…`, a path the server does not route.
* *Execution.* The probes `db_query` and `deploy_status` answer from their own query; no
  adapter calls `check_preconditions`; a replanned revision is executed by the demo without a
  new approval; a later breach of the run budget overwrites the first one.
* *Service.* HTTP keeps the first registry it reads, an empty one too, until it is restarted. MCP
  keeps its planner while its critic follows the file, so the two may come from different
  contents. A save that stops half-way leaves an empty registry, and of two editors at once
  the later one undoes the other. In a field test the logging wrapper turns a
  provider's error into one that is not retried. Without a registry the guardrail decorator
  plans with a fake provider, whose empty plan is refused.

## Fairness

* `PlanLoop`: weak fairness of the loop's own steps. One thread runs it and both roles
  return or raise. None for `RunBudgetTrips`.
* `StateLock`: weak fairness of the clock and of a thread that is inside `acquire`; of
  `Release` only for punctual plans.
* `Migrations`: weak fairness of a process that is inside a script and of closing a store
  (the calls do not hang), and strong fairness of opening it at the latest version, since
  callers open the store again and again but do other things in between. None of `Fail`,
  whose number is bounded: what is claimed is recovery once failures stop.
* `PlanGraph`: weak fairness of the loops of the gates, the reorder and the synthesis, which
  run to their end in one thread. None of `StepFails`, `SynthesizeFull` or `CallReorder`.
* `EscalationDesk`: none; nothing has to happen there. `Review`: none, its properties are
  about what may not happen.
* `Execution`: weak fairness of a turn of the process. Calls of the library return, a probe has
  a time limit, and a framework gives up after `MaxAsks` refusals, which is a bound on the
  environment. None of `Stop`, `Restart`, `Tick` and `Drift`.
* `Notifier`: weak fairness of the clock and of the attempt at hand, which has a time limit of ten
  seconds. Of the environment: strong fairness of registering, of dispatching an event that was not
  confirmed, and of a surface that is offered an event again and again. `EveryEventArrives`
  is a statement about that caller and those surfaces.
* `Service`: weak fairness of a request in progress: its steps are local and each call of a
  provider has a time limit. None of asking, editing, giving up or crashing.

## The proofs

All are for arbitrary values of the constants, under the named assumptions of the modules
(`PlanAssumption`, `InputAssumption`, `LockAssumption`, `DeskAssumption`,
`MigrationsAssumption`, `GraphAssumption`, `GuardsAssumption`, `ExecutionAssumption`,
`ServiceAssumption`, `ReviewAssumption`). These say no more than the types of the parameters
and, for the loop's plans, that gate findings are not critic findings and that the fixes'
codes exist; for graphs and for the drafts of `Review`, what `PlanVersion` validates (unique
ids, known endpoints, no self-dependency); and for `Review`'s templates, what those of
`loop/autofix.py` are: low-risk steps without a group or preconditions. The theorems that
need more say so in an `ASSUME` of their own: `JudgingGuards` below.

* **PlanLoopProofs.** `TypeCorrect`. `ApprovalIsGateClean` and `ApprovalIsOnOwnVerdict`
  from `VerdictInv`: from the gates to the verdict the findings at hand contain all gate
  findings of the current plan. This is needed because the plan is replaced (by the fixes)
  and the findings are rebuilt in the same pass; a gate blocker then misses every
  threshold (`GateBlockerMissesThreshold`). `BoundedSpend` from `SpendInv`: a draft that is
  sent back leaves a revision under both ceilings, and a draft at the gates has had no
  critic call. Histograms count repeats of a family, however many the critic returns. `BlockedDraftsCostNothing` is an action property from the same invariants.
  `GuardsCompareLikeWithLike` and `EscalationsAreWarranted` from `HistoryInv`: signatures are
  one per revision, histograms at most one and none of the current revision before its
  verdict, and the budget's latch is set only on the way out; each of the exits of
  `JudgedExit` then has the cause it names. `LoopImplementsPlanningRun` maps each step to
  a step of `PlanningRun` or a stutter.
* **LockAndNotifierProofs.** `LockInv`: a recorded lock is that of a plan that counts itself
  its holder with the same age, and, for punctual plans, every grant is recorded. From it
  `ConflictsAreReal`, `PunctualPlansExcludeEachOther` and the action property
  `ExclusionBreaksLate`. For the notifier (an instance,
  `Alerts`) `NotifierInv`: the surfaces a dispatch has still to serve are a list without
  duplicates that is empty only when nothing is under way, so that advancing the list takes
  exactly one surface out of the set `Delivery` keeps. From it `NotifierImplementsDelivery`.
* **EscalationDeskProofs.** None of these theorems restricts who writes what. `IInv` carries, for
  each job, what it has committed already: a writer about to store a question has stored its
  revision, and no row is ever deleted. From it `EscalationsHavePlans` and `TypeCorrect`.
  `HandsInv` says which steps a run and a reviewer may have left, and that jobs on one plan
  id are apart unless they overlapped. `AskInv` (a run that can still ask has not; an open
  question has no decision) gives `DeskImplementsLifecycle`, overlaps included. Where nobody
  overlapped, `TurnInv` (a decision in hand is about the row as it stands) gives
  `DecisionsArePermanent`, an action property, and `PairInv` (the findings lag behind their
  revision only between the two commits of its writer) `FindingsAreOfTheirRevision`.
* **MigrationsProofs.** `UpgradeInv`, without reverts: what a process has in its counter is
  backed by objects and by ledger rows below it. From it `LedgerStaysTrue` and
  `OpenedStoreHasSchema`. `RevertInv`, with reverts: while nobody was disturbed and nothing
  failed at most one process is at work, the ledger is a run from the first version, and
  every version but the one at work is *tidy*, with all its objects or with none. From
  it `MigrationsAreReversible`.
* **PlanGraphProofs.** `IInv` adds to the properties what the loops maintain: `Waits` (an
  in-degree counts the predecessors not yet processed, and the deque holds the unprocessed
  tasks with none left), `Follows` (in the order so far a task comes after its
  predecessors) and `CycleFree` (no task of a cycle is ever placed). An empty deque with
  tasks left over then is a cycle (`StuckIsCyclic`), and a full order rules one out
  (`AllPlaced`). From these `CycleGateCounts`, `ReorderDeclines` and
  `RollbacksRespectGraph`, for every graph of any size. `ReorderDisruptsLeast` compares with
  every other list: `LeastInv` keeps the order `Greedy` (at each place the first available
  task of the draft), and at the first place where another list in order differs, found by
  well-foundedness of the naturals, that list has a task the draft puts later.
* **ServiceProofs.** `IInv` has, beside the types: a role that is bound is defined in the
  file and in every copy of it (`ResolvedInv`); a registry with a planner, the planner HTTP keeps
  and the roles of a request are of a content the file has had (`SourceInv`); the calls made
  are the attempts counted, and a role still called has some left (`BudgetInv`). From it `EveryRoleResolves`,
  `RolesAreOfOneConfiguration` and `RetriesStayBounded`, for any number of workers, servers,
  names and edits.
* **ExecutionProofs.** `TheGateIsSound` holds for any guard: a probe that has answered is out of
  the list, so what the list no longer names held when it was asked or has moved since.
  `NoToolRunsUnapproved` and `TheTrailIsComplete` are for guards that answer by the verdict
  they hold (`JudgingGuards`); for the others the first is false, which the run
  `execution_cached_refusal` shows. The trail needs three parts (`TraceInv`, `StoredInv`,
  `LooseInv`): a life of the process leaves at most one trace and one revision without
  its link, and revisions are numbered without gaps up to the one in hand.
* **ReviewProofs.** All from one invariant, `ReviewInv`: plan and prior plan are sound
  (`PlansAreSound`), the findings cover the gates and the audited scope, and meet the
  threshold once the plan runs (`FindingsCover`), and tasks start in list order but for those
  that run together (`StartedInOrder`). A gate blocker therefore is absent from a plan that
  runs (`ApprovedIsClean`), and each gate's quantifiers over list positions turn into
  statements about what has started: `NoVerificationIsVacuous`, `FailuresAreContained`,
  `PacksAreObeyed` (gate by gate for the four packs). `StartedTasksAreGrounded` is about every set
  of started tasks: the one of it that started first, in the order of the list, has its
  preconditions from outside the set. `TheAuditMissesNothingNew` needs `RaisedInv`: while no edges
  changed, every blocker the critic has of the plan judged before was raised, and a task out of
  scope has kept its opinion (`OpinionIsKept`). `TheFixesOnlyHelp` needs lemmas about the fixes: the
  repair is a permutation in which the edges point forward, so it can only clear findings of
  the order (`RepairHelps`); the closer inserts one step directly before a task, which shifts
  places but compares no two tasks differently (`InsertedOrder`, `InsertionHelps`).
  `CheckFollowsTheGates` and `DomainsTestFollowsTheGates` prove for any plan what the assumption
  `CheckFollowsTheEngine` of `MCReview` evaluates on the plans of the instance; they ask of
  the plan that a task with a high risk class counts as `high` (`Derived`), which is what `high`
  says in `PlanSchema`.

Model-checked only: what the prover does not do, which is liveness (`Terminates`,
`AcquireReturns`, `UpgradeCompletes`, `DraftIsSettled`, `ExecutionEnds`, `EveryEventArrives`,
`EveryRequestIsAnswered`, and that a planning run ends, in `ImplementsPlanningRun`). What
`Spend` adds up to is a fold over the steps and stays closed in the proofs: `PacksAreObeyed`
compares the sum as the gate does, and the sums themselves are evaluated by the run `review`.
`DemoConverges` and `CodesAreCatalogued` are about fixed data and are evaluated there too.

## What is abstracted

Plans, findings and bodies are members of small sets; messages, ids' spelling, logging,
redaction and the question's wording are left out. SQLite is taken to run each commit
atomically and to survive a process that dies. A read of the provider file is one step,
and so is the write after its truncation.

## Not modelled

* The principal and contract checks of an escalation manager, missed critiques, plan
  signatures, acceptance contracts and the in-memory store: rows that are written and read back.
* `ledger.py` and `re_gate`: the diagnostics decide nothing, and `re_gate` calls `read`, which
  the ledger does not have. `guardrail`'s `dry_run` and callbacks.
* Dollars and elapsed time of a run budget, and that an engine shares its budget and ledger
  between runs.
* `redaction.py` (strings), `provenance.py` (which nothing calls), observability and estimates
  (reports on stored rows), branches of a plan.
* The dimensions of a field test other than its runs of the engine, the evaluation and corpus
  tools, the pytest plugin, and the commands of the CLI that only read and print.
* Threads inside a notifier, concurrent calls of one guard, and the death of a process in the
  middle of a dispatch.

## Plan

Every safety property that a passing run checks is a theorem; `NoToolRunsUnapproved` and
`TheTrailIsComplete` ask for guards that answer by the verdict they hold. What is left: what holds
of the trail with guards that answer from a cache; the type invariants of `StateLock`,
`Migrations` and `Notifier` as theorems of their own; and what remains of a reverted store after a
failure. Of the model: the principal and contract checks of the escalation manager, the ledger,
and the dollars and the time of a run budget that an engine shares between its runs.
