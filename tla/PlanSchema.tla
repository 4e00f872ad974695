----------------------------- MODULE PlanSchema -----------------------------
(***************************************************************************)
(* Plans as the gates read them (schema/plan.py): the list of the tasks    *)
(* and the sets of the hard and soft edges.                                *)
(*                                                                         *)
(* Of a task, high says that its risk class or its blast radius is high or *)
(* critical, and risky that its risk class is; what is the check it ends   *)
(* with (verification.what), rollback how its rollback is declared.  flaw  *)
(* is what a critic has to say of it, which no gate can see.  Blank ids    *)
(* and an unknown schema version are left out.                             *)
(***************************************************************************)
EXTENDS Findings, Sequences, SequencesExt

CONSTANTS
  Facts        \* names of facts; a task's id is the fact that it is done

None == "none"
NoStep == [id |-> None]

Flaw == {"none", "feasibility", "risk", "shaky"}
Reversals == {"none", "prose", "typed"}

Task == [id : Tasks, action : STRING, target : STRING, high : BOOLEAN, risky : BOOLEAN,
         group : STRING, what : Facts \cup {None}, rollback : Reversals,
         pre : SUBSET [fact : Facts, by : Facts \cup {None}, probed : BOOLEAN],
         traced : BOOLEAN, flaw : Flaw]

PlanVersion ==
  [tasks : Seq(Task), hard : SUBSET (Tasks \X Tasks), soft : SUBSET (Tasks \X Tasks)]

Steps(p) == Range(p.tasks)
Ids(p) == {t.id : t \in Steps(p)}
Place(p, id) == CHOOSE i \in DOMAIN p.tasks : p.tasks[i].id = id
Step(p, id) == p.tasks[Place(p, id)]
Consumers(p, t) == {u \in Steps(p) : <<t.id, u.id>> \in p.hard}

\* What PlanVersion's validator accepts.
ValidPlan(p) ==
  /\ \A i, j \in DOMAIN p.tasks : p.tasks[i].id = p.tasks[j].id => i = j
  /\ \A e \in p.hard \cup p.soft : e[1] \in Ids(p) /\ e[2] \in Ids(p) /\ e[1] # e[2]
  /\ \A t \in Steps(p) : \A u \in Consumers(p, t) : t.group = None \/ t.group # u.group

When(condition, S) == IF condition THEN S ELSE {}

Blocker(code, t) == [llm |-> FALSE, sev |-> "blocker", code |-> code, task |-> t]
Warning(code, t) == [llm |-> FALSE, sev |-> "warning", code |-> code, task |-> t]

=============================================================================
