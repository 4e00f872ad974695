--------------------------- MODULE DemoScenarios ----------------------------
(***************************************************************************)
(* The five scripted scenarios of the demonstration (demo/roles.py): a     *)
(* flawed first revision, the corrected second one, and the finding the    *)
(* scripted critic has of the first.                                       *)
(***************************************************************************)
EXTENDS Gates

\* _task, with its defaults; its target is its own name.
DemoTask(id) ==
  [id |-> id, action |-> "do", target |-> id, high |-> FALSE, risky |-> FALSE, group |-> None,
   what |-> None, rollback |-> "none", pre |-> {}, traced |-> TRUE, flaw |-> "none"]

Verifying(t, what) == [t EXCEPT !.what = what]

\* A high-risk task with its check; _rollback declares what it restores.
Safeguarded(id, what) ==
  [DemoTask(id) EXCEPT !.high = TRUE, !.risky = TRUE, !.what = what, !.rollback = "typed"]

\* _precondition
Requiring(t, fact, by, probed) == [t EXCEPT !.pre = {[fact |-> fact, by |-> by, probed |-> probed]}]

\* _plan with hard edges between tasks that follow one another.
Chain(tasks) ==
  [tasks |-> tasks, hard |-> {<<tasks[i].id, tasks[i + 1].id>> : i \in 1..Len(tasks) - 1},
   soft |-> {}]

Seeded(family, severity, task) ==
  {[llm |-> TRUE, sev |-> severity, code |-> family, task |-> task]}

Migration ==
  LET snapshot == DemoTask("snapshot")  backfill == DemoTask("backfill")
      compat == Verifying(DemoTask("verify"), "schema compatibility")
      cutover == Requiring(Safeguarded("cutover", "post-cutover reads and writes"),
                           "maintenance window open", None, TRUE)
  IN [v1 |-> Chain(<<snapshot, backfill, cutover>>),
      v2 |-> Chain(<<snapshot, backfill, compat, cutover>>),
      seeded |-> Seeded("llm_missing_steps", "warning", "cutover")]

Rollout ==
  LET create == DemoTask("create")
      half == Safeguarded("phase-5", "phase-5 traffic")
      full == Safeguarded("phase-10", "phase-10 traffic")
      window == Safeguarded("rollback-window", "rollback path")
  IN [v1 |-> Chain(<<create, half, full, window>>),
      v2 |-> Chain(<<create, window, half, full>>),
      seeded |-> Seeded("llm_unsafe_sequencing", "warning", "rollback-window")]

Refactor ==
  LET swap(probed) == Requiring(Safeguarded("swap", "checkout traffic"),
                                "maintenance window booked", "book", probed)
      plan(probed) == [tasks |-> <<DemoTask("book"), DemoTask("backup"), swap(probed)>>,
                       hard |-> {<<"book", "swap">>, <<"backup", "swap">>}, soft |-> {}]
  IN [v1 |-> plan(FALSE), v2 |-> plan(TRUE),
      seeded |-> Seeded("llm_unverified_dependencies", "warning", "swap")]

Incident ==
  LET diagnose == DemoTask("diagnose")
      remediate == Safeguarded("remediate", "write applied")
  IN [v1 |-> Chain(<<diagnose, remediate>>),
      v2 |-> Chain(<<diagnose, remediate, Verifying(DemoTask("verify-mitigation"), "mitigation")>>),
      seeded |-> Seeded("llm_weak_rollback", "warning", "remediate")]

\* The one whose flaw a gate sees too.
Adversarial ==
  LET bare == [DemoTask("cutover") EXCEPT !.high = TRUE, !.risky = TRUE]
  IN [v1 |-> Chain(<<bare>>),
      v2 |-> Chain(<<Safeguarded("cutover", "storage compatibility")>>),
      seeded |-> Seeded("llm_feasibility", "blocker", "cutover")]

Scenarios == {Migration, Rollout, Refactor, Incident, Adversarial}

\* ScriptedPlanner: any critique is answered by the same second revision.
Decomposed(s) == s.v1
Revised(s) == s.v2

\* ScriptedCritic
ScriptedAudit(s, version) == IF version = 1 THEN s.seeded ELSE {}

\* What the loop of an engine without pack or quota judges of a revision.
DemoFindings(s, version) ==
  StandardFindings(IF version = 1 THEN Decomposed(s) ELSE Revised(s)) \cup ScriptedAudit(s, version)

=============================================================================
