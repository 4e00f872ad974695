------------------------------ MODULE PlanGraph ------------------------------
(***************************************************************************)
(* The hard-dependency graph of a plan, from the planner's draft to its    *)
(* rollback: the cycle gate, the ordering gate, the topological reorder,   *)
(* and the rollback plan synthesised after a step failed.                  *)
(*                                                                         *)
(* A plan is the list of its tasks and the set of its hard edges; an edge  *)
(* listed twice is counted and discounted alike, so a set will do.  Each   *)
(* turn of a loop of the code is a step.  An in-degree is kept as the set  *)
(* of predecessors it counts.  Who executes an approved plan is external:  *)
(* the list is in execution order (docs/reference/quickstart.md).          *)
(***************************************************************************)
EXTENDS Naturals, Sequences, FiniteSets, Functions

CONSTANTS
  Tasks,
  NoTask,
  TaskLists,  \* the task lists a planner may draft
  EdgeSets    \* the sets of hard edges a planner may draft

\* What PlanVersion validates: unique ids, known endpoints, no self-dependency.
ASSUME GraphAssumption ==
  /\ IsFiniteSet(Tasks) /\ NoTask \notin Tasks
  /\ TaskLists \subseteq Bijection(1..Cardinality(Tasks), Tasks)
  /\ EdgeSets \subseteq SUBSET (Tasks \X Tasks)
  /\ \A E \in EdgeSets : \A e \in E : e[1] # e[2]

VARIABLES
  pc,
  draft,    \* history: the task list as the planner drafted it
  list,     \* plan.tasks
  hard,     \* the hard edges of plan.dependencies
  waiting,  \* waiting[t]: the predecessors in_degree[t] counts
  queue,    \* the deque of Kahn's algorithm
  order,    \* tasks placed (topological_reorder) or dequeued (Kahn), in order
  failed,   \* the step a partial rollback is for, NoTask for a full one
  undo      \* the task list of the rollback plan

plan == <<draft, list, hard>>
vars == <<pc, draft, list, hard, waiting, queue, order, failed, undo>>

Preds(t) == {u \in Tasks : <<u, t>> \in hard}
Placed == Range(order)
Position(l, t) == CHOOSE i \in DOMAIN l : l[i] = t

\* S as a list, in the order of plan.tasks.
Listings(S) ==
  {s \in Bijection(1..Cardinality(S), S) :
     \A i, j \in DOMAIN s : i < j => Position(list, s[i]) < Position(list, s[j])}

Init ==
  /\ pc = "draft"
  /\ draft \in TaskLists /\ list = draft
  /\ hard \in EdgeSets
  /\ waiting = [t \in Tasks |-> {}]
  /\ queue = <<>> /\ order = <<>>
  /\ failed = NoTask
  /\ undo = <<>>

(***************************************************************************)
(* Kahn's algorithm: the gate no_dep_cycles, and the same loop again in    *)
(* rollback_dag_valid and _topological_order.  The deque is filled in list *)
(* order; the gate takes the order of the edges, which its count of the    *)
(* tasks processed does not depend on.                                     *)
(***************************************************************************)

StartKahn ==
  /\ waiting' = [t \in Tasks |-> Preds(t)]
  /\ queue' \in Listings({t \in Tasks : Preds(t) = {}})
  /\ order' = <<>>

\* The neighbours of t whose in-degree reaches zero.
Released(t) == {n \in Tasks : waiting[n] = {t}}

Dequeue ==
  /\ pc \in {"cycle_gate", "validate", "sort"}
  /\ queue # <<>>
  /\ LET t == Head(queue)
     IN /\ order' = Append(order, t)
        /\ waiting' = [n \in Tasks |-> waiting[n] \ {t}]
        /\ \E released \in Listings(Released(t)) : queue' = Tail(queue) \o released
  /\ UNCHANGED <<pc, plan, failed, undo>>

KahnEnds(at) == pc = at /\ queue = <<>>
AllProcessed == Len(order) = Len(list)

(***************************************************************************)
(* The gates and the ordering repair                                       *)
(***************************************************************************)

RunCycleGate ==
  /\ pc = "draft"
  /\ StartKahn
  /\ pc' = "cycle_gate"
  /\ UNCHANGED <<plan, failed, undo>>

\* Variant: a consumer right before its producer goes unnoticed.
MisplacedFar == {e \in hard : Position(list, e[1]) > Position(list, e[2]) + 1}

\* The blockers of ordering_sane.
Misplaced == {e \in hard : Position(list, e[1]) > Position(list, e[2])}

\* A cycle disables the repair; misplaced tasks alone call for it.
GateVerdict ==
  IF ~AllProcessed THEN "blocked" ELSE IF Misplaced # {} THEN "reorder" ELSE "approved"

GatesEnd ==
  /\ KahnEnds("cycle_gate")
  /\ pc' = GateVerdict
  /\ order' = <<>>
  /\ UNCHANGED <<plan, waiting, queue, failed, undo>>

\* topological_reorder is exported: it is also called on plans no gate has seen.
CallReorder ==
  /\ pc = "draft"
  /\ pc' = "reorder"
  /\ UNCHANGED <<plan, waiting, queue, order, failed, undo>>

Available == {t \in Tasks \ Placed : Preds(t) \subseteq Placed}

\* Variant: among the tasks available the last one of the list goes first.
PlaceNextFromEnd ==
  /\ pc = "reorder" /\ hard # {}
  /\ \E t \in Available :
       /\ \A u \in Available : Position(list, u) <= Position(list, t)
       /\ order' = Append(order, t)
  /\ UNCHANGED <<pc, plan, waiting, queue, failed, undo>>

\* The available task that comes first in the list is placed next.
PlaceNext ==
  /\ pc = "reorder" /\ hard # {}
  /\ \E t \in Available :
       /\ \A u \in Available : Position(list, t) <= Position(list, u)
       /\ order' = Append(order, t)
  /\ UNCHANGED <<pc, plan, waiting, queue, failed, undo>>

\* None: no edges, a cycle, or nothing to change.
DeclineReorder ==
  /\ pc = "reorder"
  /\ \/ hard = {}
     \/ Available = {} /\ Placed # Tasks
     \/ order = list
  /\ pc' = "declined"
  /\ UNCHANGED <<plan, waiting, queue, order, failed, undo>>

\* Variant: the plan checked again is the one before the repair.
AdoptReorderForgets ==
  /\ pc = "reorder"
  /\ hard # {} /\ Placed = Tasks /\ order # list
  /\ pc' = "draft"
  /\ order' = <<>>
  /\ UNCHANGED <<plan, waiting, queue, failed, undo>>

\* The reordered plan goes back to the gates.
AdoptReorder ==
  /\ pc = "reorder"
  /\ hard # {} /\ Placed = Tasks /\ order # list
  /\ list' = order
  /\ pc' = "draft"
  /\ order' = <<>>
  /\ UNCHANGED <<draft, hard, waiting, queue, failed, undo>>

(***************************************************************************)
(* Execution, and the rollback plan                                        *)
(***************************************************************************)

\* A step of the approved plan fails, and a partial rollback is asked for.
StepFails ==
  /\ pc = "approved"
  /\ failed' \in Tasks
  /\ StartKahn
  /\ pc' = "validate"
  /\ UNCHANGED <<plan, undo>>

\* build_rollback, on an approved plan or on any other.
SynthesizeFull ==
  /\ pc \in {"approved", "blocked"}
  /\ StartKahn
  /\ pc' = "validate"
  /\ UNCHANGED <<plan, failed, undo>>

\* ValueError: the plan is not a DAG.
RefuseCyclic ==
  /\ KahnEnds("validate")
  /\ ~AllProcessed
  /\ pc' = "refused"
  /\ UNCHANGED <<plan, waiting, queue, order, failed, undo>>

\* _topological_order
StartSort ==
  /\ KahnEnds("validate")
  /\ AllProcessed
  /\ StartKahn
  /\ pc' = "sort"
  /\ UNCHANGED <<plan, failed, undo>>

\* How many of the sorted tasks are undone: those before the failed step.
Cut == IF failed = NoTask THEN Len(order) ELSE Position(order, failed) - 1

\* Variant: the failed step is undone as well.
UndoListWithFailed ==
  LET n == IF failed = NoTask THEN Len(order) ELSE Position(order, failed)
  IN [i \in 1..n |-> order[n + 1 - i]]

\* What the code takes for completed: the tasks sorted before the failed step, last
\* one first.
UndoList == [i \in 1..Cut |-> order[Cut + 1 - i]]

Synthesize ==
  /\ KahnEnds("sort")
  /\ undo' = UndoList
  /\ pc' = "synthesized"
  /\ UNCHANGED <<plan, waiting, queue, order, failed>>

Next ==
  \/ RunCycleGate \/ Dequeue \/ GatesEnd
  \/ CallReorder \/ PlaceNext \/ DeclineReorder \/ AdoptReorder
  \/ StepFails \/ SynthesizeFull \/ RefuseCyclic \/ StartSort \/ Synthesize

\* The functions are plain loops of one thread; whether an approved plan fails, or
\* whether anybody asks for a rollback, is not theirs to decide.
Spec == Init /\ [][Next]_vars
          /\ WF_vars(Dequeue \/ GatesEnd \/ PlaceNext \/ DeclineReorder \/ AdoptReorder)
          /\ WF_vars(RunCycleGate) /\ WF_vars(RefuseCyclic \/ StartSort \/ Synthesize)

-----------------------------------------------------------------------------
(***************************************************************************)
(* Properties                                                              *)
(***************************************************************************)

\* Every variable has its type; lists name no task twice.
TypeOK ==
  /\ pc \in {"draft", "cycle_gate", "blocked", "reorder", "declined", "approved",
             "validate", "refused", "sort", "synthesized"}
  /\ draft \in Bijection(1..Cardinality(Tasks), Tasks)
  /\ list \in Bijection(1..Cardinality(Tasks), Tasks)
  /\ hard \in SUBSET (Tasks \X Tasks)
  /\ waiting \in [Tasks -> SUBSET Tasks]
  /\ queue \in Seq(Tasks) /\ IsInjective(queue)
  /\ order \in Seq(Tasks) /\ IsInjective(order)
  /\ failed \in Tasks \cup {NoTask}
  /\ undo \in Seq(Tasks) /\ IsInjective(undo)

\* No order exists: some tasks each wait for another one of them.
Cyclic == \E S \in SUBSET Tasks : S # {} /\ \A t \in S : Preds(t) \cap S # {}

\* Every producer is before its consumers.
Honours(l) == \A i, j \in DOMAIN l : <<l[i], l[j]>> \in hard => i < j

\* F-12: the count of Kahn's algorithm is exact.  A plan is blocked, and a rollback
\* refused, on a cycle and on nothing else; and what passes the gates is in order.
CycleGateIsExact ==
  /\ pc \in {"blocked", "refused"} => Cyclic
  /\ pc \in {"approved", "sort", "synthesized"} => ~Cyclic /\ Honours(list)

\* The reorder declines exactly the plans with nothing to repair, and those nobody
\* can repair.
ReorderDeclinesRightly ==
  pc = "declined" => Cyclic \/ Honours(list)

\* l comes before m: at the first difference it has the task drafted earlier.
ComesBefore(l, m) ==
  \E k \in DOMAIN l : /\ \A i \in 1..k - 1 : l[i] = m[i]
                      /\ Position(draft, l[k]) < Position(draft, m[k])

\* "Minimal disruption": of all the lists in which producers come first, the
\* reordered one is the least in terms of the positions of the draft.
ReorderIsLeast ==
  list # draft =>
    /\ Honours(list)
    /\ \A l \in Bijection(1..Cardinality(Tasks), Tasks) :
         Honours(l) => l = list \/ ComesBefore(list, l)

\* A rollback plan undoes consumers before producers, never the failed step, with a
\* task all that it depended on, and every prerequisite of the failed step.  So it
\* leaves out whatever depends on the failed step.
RollbackRespectsGraph ==
  pc = "synthesized" =>
    /\ \A i, j \in DOMAIN undo : <<undo[i], undo[j]>> \in hard => j < i
    /\ failed \notin Range(undo)
    /\ \A e \in hard : e[2] \in Range(undo) \cup {failed} => e[1] \in Range(undo)
    /\ failed = NoTask => Range(undo) = Tasks

\* A draft is dealt with: it is approved, blocked or declined; what was repaired is
\* not sent to repair again.
DraftIsSettled == pc = "draft" ~> pc \in {"approved", "blocked", "declined"}

=============================================================================
