---------------------------- MODULE EscalationDesk ----------------------------
(***************************************************************************)
(* One plan store shared by the processes that write it: the HTTP service, *)
(* the CLI, shadow runs, callers of EscalationManager.create, and the      *)
(* reviewers who patch plans and resolve escalations.                      *)
(*                                                                         *)
(* Every call of the store is one commit.  An operation of a process is a  *)
(* sequence of commits with nothing around it, so those of others come in  *)
(* between, and an operation may end after any of them (the process dies,  *)
(* or the store raises StoreUnavailable).                                  *)
(*                                                                         *)
(* What the engine answers is external here (module PlanLoop models it):   *)
(* a plan, approved or escalated.  An escalation asks about the plan body  *)
(* it was raised on; the principal and the note of a decision, and the     *)
(* evidence of findings, are left out.                                     *)
(*                                                                         *)
(* History variables, which no guard reads, say who did what: acks, asked, *)
(* overlapped and partial, and in a row the writer that asked (by) and     *)
(* whether EscalationManager.create did (via).  They change nothing of     *)
(* what the code does.                                                     *)
(***************************************************************************)
EXTENDS Naturals, FiniteSets

CONSTANTS
  Plans, Goals,
  GoalOf,       \* the goal a plan id was drafted for
  Rank,         \* list_plans orders the rows by plan id
  MaxVersion,   \* bound: revisions of a plan id
  Bodies,
  Clean,        \* the bodies on which the gates raise no blocker
  NoBody,
  Runners,      \* bound: the runs and critiques there are, each stored once
  Reviewers,
  Surfaces      \* the writers in play

Versions == 1..MaxVersion

\* http: POST /plan.  audit: POST /critique, of any plan.  cli: plancritic plan.
\* shadow: run_shadow with a store.  managed: a caller that stores a plan and has
\* EscalationManager.create persist the escalation.  critique: plancritic critique,
\* on a plan file.
Surface == {"http", "audit", "cli", "shadow", "managed", "critique"}

ASSUME DeskAssumption ==
  /\ GoalOf \in [Plans -> Goals] /\ Rank \in [Plans -> Nat]
  /\ \A p, q \in Plans : Rank[p] = Rank[q] => p = q
  /\ MaxVersion \in Nat
  /\ Runners \cap Reviewers = {}
  /\ Clean \subseteq Bodies /\ NoBody \notin Bodies
  /\ Surfaces \subseteq Surface

Writers == Runners \cup Reviewers
Status == {"open", "approved", "denied"}
NoRow == [status |-> "none"]
Escalations == [plan : Plans, version : Versions, status : Status, about : Bodies,
                by : Writers, via : {"create", "put"}]

VARIABLES
  revs,      \* plan_versions: the body stored for a plan id and a version
  findings,  \* findings: the body the stored findings were raised on
  escs,      \* escalations: one row per plan id
  jobs,      \* what each writer still has to commit
  acks,      \* history: the decisions reviewers were told are recorded
  asked,     \* history: the questions that were persisted
  overlapped,\* history: the plan ids on which two writers' jobs overlapped
  partial    \* history: the plan ids of which someone stored a plan or findings alone

history == <<acks, asked, partial>>
vars == <<revs, findings, escs, jobs, acks, asked, overlapped, partial>>

Row(p, v, b, w, via) ==
  [plan |-> p, version |-> v, status |-> "open", about |-> b, by |-> w, via |-> via]

\* A question is what one writer asked about one plan id.
QuestionOf(row) == <<row.by, row.plan>>

\* A job: the commits and checks to come, and the row they are about; a plan or
\* its findings are written from the same row.
Job(todo, row) == [todo |-> todo, row |-> row]
Idle == Job({}, NoRow)
Unstarted == Job({"run"}, NoRow)   \* the engine has still to answer

\* Variant: the question is persisted before the plan it is about.
BeforeQuestionFirst ==
  [escalation |-> {}, plan |-> {"escalation"}, findings |-> {"plan"}, check |-> {"plan"},
   lookup |-> {"plan", "findings"}, decide |-> {"plan", "findings", "lookup"}]

\* The order in which a writer takes the steps of its job.
Before ==
  [plan |-> {}, findings |-> {"plan"}, check |-> {"plan", "findings"},
   escalation |-> {"plan", "findings", "check"}, lookup |-> {"plan", "findings"},
   decide |-> {"plan", "findings", "lookup"}]
At(w, step) == step \in jobs[w].todo /\ jobs[w].todo \cap Before[step] = {}

\* _escalate builds the id from the goal and the version (and the revision index,
\* which follows the version).
Id(row) == <<GoalOf[row.plan], row.version>>

Stored(p) == {v \in Versions : revs[p][v] # NoBody}
IsLatest(p, v) == v \in Stored(p) /\ \A u \in Stored(p) : u <= v

\* _get_by_id: the first row of the listing that carries the id.
Matches(id) == {p \in Plans : Stored(p) # {} /\ escs[p] # NoRow /\ Id(escs[p]) = id}
IsFirst(p, id) == p \in Matches(id) /\ \A q \in Matches(id) : Rank[p] <= Rank[q]

Init ==
  /\ revs = [p \in Plans |-> [v \in Versions |-> NoBody]]
  /\ findings = [p \in Plans |-> [v \in Versions |-> NoBody]]
  /\ escs = [p \in Plans |-> NoRow]
  /\ jobs = [w \in Writers |-> IF w \in Runners THEN Unstarted ELSE Idle]
  /\ acks = {} /\ asked = {} /\ overlapped = {} /\ partial = {}

\* The writers other than w that have a job on plan id p.
Others(w, p) == {x \in Writers \ {w} : jobs[x].row # NoRow /\ jobs[x].row.plan = p}

Do(w, job) ==
  /\ jobs' = [jobs EXCEPT ![w] = job]
  /\ overlapped' = overlapped \cup
       {p \in Plans : job.row # NoRow /\ job.row.plan = p /\ Others(w, p) # {}}
Advance(w, step) == Do(w, [jobs[w] EXCEPT !.todo = @ \ {step}])

\* Variant: EscalationManager.create does not look for an open escalation.
WritesUnchecked(surface, escalated, found) ==
  IF surface = "critique" THEN {"findings"}
  ELSE {"plan"}
       \cup (IF surface = "shadow" /\ ~found THEN {} ELSE {"findings"})
       \cup (IF ~escalated \/ surface \in {"audit", "cli"} THEN {} ELSE {"escalation"})

\* What a run writes: the CLI keeps no escalation and an audit raises none, a
\* shadow run skips empty findings, EscalationManager.create looks before it writes.
Writes(surface, escalated, found) ==
  IF surface = "critique" THEN {"findings"}
  ELSE {"plan"}
       \cup (IF surface = "shadow" /\ ~found THEN {} ELSE {"findings"})
       \cup (IF ~escalated \/ surface \in {"audit", "cli"} THEN {}
             ELSE IF surface = "managed" THEN {"check", "escalation"} ELSE {"escalation"})

\* A run of the engine (or a critique) ends and its result is to be stored, over
\* whatever is there: an approved plan passed the gates, one that is escalated or
\* only audited need not have.
RunEnds(w) ==
  /\ jobs[w] = Unstarted
  /\ \E s \in Surfaces, p \in Plans, v \in Versions, b \in Bodies, escalated, found \in BOOLEAN :
       LET todo == Writes(s, escalated, found)
       IN /\ escalated \/ b \in Clean \/ s \in {"audit", "critique"}
          /\ Do(w, Job(todo, Row(p, v, b, w, IF s = "managed" THEN "create" ELSE "put")))
          /\ partial' = IF {"plan", "findings"} \subseteq todo THEN partial ELSE partial \cup {p}
  /\ UNCHANGED <<revs, findings, escs, acks, asked>>

\* patch_and_recritique up to its writes: the patch must be the next revision of
\* the latest one read, and is refused while the gates block it.  What follows is
\* the resolve of approve --patch.
PatchPlan(r) ==
  /\ jobs[r] = Idle
  /\ \E p \in Plans, v \in Versions, b \in Clean :
       /\ IsLatest(p, v) /\ v < MaxVersion
       /\ Do(r, Job({"plan", "findings", "lookup"}, Row(p, v + 1, b, r, "put")))
  /\ UNCHANGED <<revs, findings, escs, history>>

\* escalate approve without a patch, escalate deny.
StartResolve(r) ==
  /\ jobs[r] = Idle
  /\ Do(r, Job({"lookup"}, NoRow))
  /\ UNCHANGED <<revs, findings, escs, history>>

PutPlan(w) ==
  /\ At(w, "plan")
  /\ LET row == jobs[w].row
     IN revs' = [revs EXCEPT ![row.plan][row.version] = row.about]
  /\ Advance(w, "plan")
  /\ UNCHANGED <<findings, escs, history>>

\* Variant: INSERT OR IGNORE.
PutFindingsOnce(w) ==
  /\ At(w, "findings")
  /\ LET row == jobs[w].row
     IN findings' = [findings EXCEPT ![row.plan][row.version] = IF @ = NoBody THEN row.about ELSE @]
  /\ Advance(w, "findings")
  /\ UNCHANGED <<revs, escs, history>>

PutFindings(w) ==
  /\ At(w, "findings")
  /\ LET row == jobs[w].row
     IN findings' = [findings EXCEPT ![row.plan][row.version] = row.about]
  /\ Advance(w, "findings")
  /\ UNCHANGED <<revs, escs, history>>

\* EscalationManager.create: the revision is stored and no escalation is open.
CheckEscalation(w) ==
  /\ At(w, "check")
  /\ LET row == jobs[w].row
     IN revs[row.plan][row.version] # NoBody /\ escs[row.plan].status # "open"
  /\ Advance(w, "check")
  /\ UNCHANGED <<revs, findings, escs, history>>

\* put_escalation: INSERT OR REPLACE by plan id.
PutEscalation(w) ==
  /\ At(w, "escalation")
  /\ escs' = [escs EXCEPT ![jobs[w].row.plan] = jobs[w].row]
  /\ Advance(w, "escalation")
  /\ asked' = asked \cup {QuestionOf(jobs[w].row)}
  /\ UNCHANGED <<revs, findings, acks, partial>>

\* Variant: resolve does not ask whether the escalation is open.
LookUpAny(r) ==
  /\ At(r, "lookup")
  /\ \E id \in Goals \X Versions, p \in Plans, decision \in {"approved", "denied"} :
       /\ IsFirst(p, id)
       /\ Do(r, Job({"decide"}, [escs[p] EXCEPT !.status = decision]))
  /\ UNCHANGED <<revs, findings, escs, history>>

\* resolve: the first row with the id must be open; a copy of it takes the decision.
LookUp(r) ==
  /\ At(r, "lookup")
  /\ \E id \in Goals \X Versions, p \in Plans, decision \in {"approved", "denied"} :
       /\ IsFirst(p, id) /\ escs[p].status = "open"
       /\ Do(r, Job({"decide"}, [escs[p] EXCEPT !.status = decision]))
  /\ UNCHANGED <<revs, findings, escs, history>>

\* The copy is written back over whatever the row has become.
Decide(r) ==
  /\ At(r, "decide")
  /\ escs' = [escs EXCEPT ![jobs[r].row.plan] = jobs[r].row]
  /\ acks' = acks \cup {[by |-> r, row |-> jobs[r].row]}
  /\ Do(r, Idle)
  /\ UNCHANGED <<revs, findings, asked, partial>>

\* A job that has nothing left returns; one that cannot go on (StoreUnavailable, a
\* refused check, an unknown or resolved escalation, a dead process) ends as well,
\* and what it committed stays.
JobEnds(w) ==
  /\ jobs[w] \notin {Idle, Unstarted}
  /\ Do(w, Idle)
  /\ partial' = partial \cup
       {p \in Plans : At(w, "findings") /\ jobs[w].row.plan = p}
  /\ UNCHANGED <<revs, findings, escs, acks, asked>>

Commit(w) ==
  PutPlan(w) \/ PutFindings(w) \/ CheckEscalation(w) \/ PutEscalation(w) \/ JobEnds(w)

Next ==
  \/ \E w \in Runners : RunEnds(w) \/ Commit(w)
  \/ \E r \in Reviewers : PatchPlan(r) \/ StartResolve(r) \/ LookUp(r) \/ Decide(r) \/ Commit(r)

Spec == Init /\ [][Next]_vars

-----------------------------------------------------------------------------
(***************************************************************************)
(* Properties                                                              *)
(***************************************************************************)

\* Every variable has its type, and a job about to write has something to write.
TypeOK ==
  /\ revs \in [Plans -> [Versions -> Bodies \cup {NoBody}]]
  /\ findings \in [Plans -> [Versions -> Bodies \cup {NoBody}]]
  /\ escs \in [Plans -> Escalations \cup {NoRow}]
  /\ \A w \in Writers : jobs[w].row \in Escalations \cup {NoRow}
  /\ \A w \in Writers : jobs[w].row = NoRow => jobs[w].todo \subseteq {"lookup", "run"}
  /\ acks \subseteq [by : Reviewers, row : Escalations]
  /\ asked \subseteq Writers \X Plans
  /\ overlapped \subseteq Plans /\ partial \subseteq Plans

\* escalation-design.md: "never an orphan escalation".  In whatever order writers
\* interleave and wherever they stop, the revision an escalation asks about is
\* stored, so it is listed and can be shown to a reviewer.
NoOrphanEscalation ==
  \A p \in Plans : escs[p] # NoRow => /\ escs[p].plan = p
                                      /\ revs[p][escs[p].version] # NoBody

\* A stored revision is never read with the findings of another body, once the
\* writer that stored it last is past both commits: that takes two writers at once,
\* one that stopped between the two commits, or one that stores only half
\* (plancritic critique, a shadow run without findings).  Re-runs over the same
\* revision, audits and patches that come one after another do not do it.
FindingsDescribeRevision ==
  \A p \in Plans \ (overlapped \cup partial), v \in Versions :
    (\A w \in Writers : At(w, "findings") => jobs[w].row.plan # p)
      => findings[p][v] = revs[p][v]

\* Where no two writers overlapped on a plan id, its row of escalations changes only
\* to a question that was never asked before, over an open one only if it does not
\* come from EscalationManager.create, or to the decision on the question it shows:
\* no decision is lost to another one, and none is recorded over a newer question.
DecisionsStand ==
  [][\A p \in Plans \ overlapped' : escs'[p] # escs[p] =>
       \/ /\ escs'[p].status = "open" /\ QuestionOf(escs'[p]) \notin asked
          /\ escs'[p].via = "create" => escs[p].status # "open"
       \/ escs[p].status = "open" /\ escs'[p] \in {[escs[p] EXCEPT !.status = s] : s \in Status}]_vars

\* The lifecycle of a question whatever overlaps, stops or is stored over (see
\* EscalationLifecycle): a question is asked once, and once a decision on it was
\* recorded only those who had it in hand already can record another one.
Lifecycle == INSTANCE EscalationLifecycle
  WITH Questions <- Writers \X Plans,
       inHand <- {<<r, QuestionOf(jobs[r].row)>> : r \in {x \in Reviewers : "decide" \in jobs[x].todo}},
       answered <- {<<a.by, QuestionOf(a.row)>> : a \in acks}
ImplementsLifecycle == Lifecycle!Spec

\* store/base.py, of put_plan_version: "Persist a plan revision (immutable once
\* written)".  It is not: INSERT OR REPLACE stores a re-run, or the second of two
\* patches made from one revision, over what is there.
RevisionsAreImmutable ==
  [][\A p \in Plans, v \in Versions : revs[p][v] # NoBody => revs'[p][v] = revs[p][v]]_vars

=============================================================================
