----------------------------- MODULE MCPlanGraph -----------------------------
(***************************************************************************)
(* Small instances of PlanGraph: every digraph on a few tasks.  The tasks  *)
(* are named by their place in the draft, so one task list is enough.      *)
(***************************************************************************)
EXTENDS PlanGraph

CONSTANT MCSize

MCTasks == 1..MCSize
MCTaskLists == {[i \in MCTasks |-> i]}
MCEdgeSets == SUBSET {e \in MCTasks \X MCTasks : e[1] # e[2]}

=============================================================================
