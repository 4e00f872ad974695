------------------------- MODULE EscalationDeskProofs -------------------------
(***************************************************************************)
(* What holds of the plan store for any number of writers, plans and       *)
(* revisions, in any interleaving and whatever stops half-way.             *)
(***************************************************************************)
EXTENDS EscalationDesk, TLAPS

Steps == DOMAIN Before \cup {"run"}
JobType == [todo : SUBSET Steps, row : Escalations \cup {NoRow}]
HasPlan(row) == revs[row.plan][row.version] # NoBody

TypeInv ==
  /\ revs \in [Plans -> [Versions -> Bodies \cup {NoBody}]]
  /\ findings \in [Plans -> [Versions -> Bodies \cup {NoBody}]]
  /\ escs \in [Plans -> Escalations \cup {NoRow}]
  /\ jobs \in [Writers -> JobType]
  /\ acks \subseteq [by : Reviewers, row : Escalations]
  /\ asked \subseteq Writers \X Plans
  /\ overlapped \subseteq Plans /\ partial \subseteq Plans

\* A job with something to write knows its row; one that is past its plan and has a
\* row of escalations to write has that plan in the store.
JobOK(job) ==
  /\ job.row = NoRow => job.todo \subseteq {"lookup", "run"}
  /\ job.todo \cap {"escalation", "decide"} # {} /\ "plan" \notin job.todo => HasPlan(job.row)

JobsInv == \A w \in Writers : JobOK(jobs[w])

RowInv(p) == escs[p] # NoRow => escs[p].plan = p /\ HasPlan(escs[p])
RowsInv == \A p \in Plans : RowInv(p)

IInv == TypeInv /\ JobsInv /\ RowsInv

\* Nothing ever leaves the store.
RevsGrow == \A p \in Plans, v \in Versions : revs[p][v] # NoBody => revs'[p][v] # NoBody

LEMMA StepsAre ==
  Steps = {"plan", "findings", "check", "escalation", "lookup", "decide", "run"}
  BY DEF Steps, Before

\* A row of escalations is not the missing row, and has its fields.
LEMMA RowFields ==
  ASSUME NEW row \in Escalations
  PROVE  /\ row # NoRow
         /\ row.plan \in Plans /\ row.version \in Versions
         /\ row.status \in Status /\ row.about \in Bodies /\ row.by \in Writers
  BY DEF Escalations, Status, NoRow

LEMMA QuestionIsRow ==
  ASSUME NEW p \in Plans, NEW v \in Versions, NEW b \in Bodies, NEW w \in Writers,
         NEW via \in {"create", "put"}
  PROVE  /\ Row(p, v, b, w, via) \in Escalations
         /\ Row(p, v, b, w, via).plan = p /\ Row(p, v, b, w, via).version = v
         /\ Row(p, v, b, w, via).about = b /\ Row(p, v, b, w, via).status = "open"
         /\ Row(p, v, b, w, via).by = w /\ Row(p, v, b, w, via).via = via
  BY DEF Row, Escalations, Status

\* The initial store is empty.
LEMMA InitIInv == Init => IInv
<1> SUFFICES ASSUME Init PROVE IInv
  OBVIOUS
<1>1. TypeInv
  BY DEF Init, TypeInv, Idle, Unstarted, Job, JobType, Steps
<1>2. JobsInv /\ RowsInv
  BY DEF Init, JobsInv, RowsInv, RowInv, JobOK, Idle, Unstarted, Job, Writers
<1> QED
  BY <1>1, <1>2 DEF IInv

\* What a step must show: that the store grows, the job of the writer that acts is
\* in order, and the rows are.
LEMMA StepIInv ==
  ASSUME IInv, RevsGrow, NEW w \in Writers,
         NEW job \in JobType, Do(w, job),
         revs' \in [Plans -> [Versions -> Bodies \cup {NoBody}]],
         findings' \in [Plans -> [Versions -> Bodies \cup {NoBody}]],
         escs' \in [Plans -> Escalations \cup {NoRow}],
         acks' \subseteq [by : Reviewers, row : Escalations],
         asked' \subseteq Writers \X Plans, partial' \subseteq Plans,
         job.row = NoRow => job.todo \subseteq {"lookup", "run"},
         job.todo \cap {"escalation", "decide"} # {} /\ "plan" \notin job.todo
           => revs'[job.row.plan][job.row.version] # NoBody,
         \A p \in Plans : escs'[p] = escs[p] \/
           /\ escs'[p] # NoRow => /\ escs'[p].plan = p
                                  /\ revs'[p][escs'[p].version] # NoBody
  PROVE  IInv'
<1>1. TypeInv'
  BY DEF IInv, TypeInv, Do
<1>2. \A x \in Writers : jobs'[x] = IF x = w THEN job ELSE jobs[x]
  BY DEF IInv, TypeInv, Do
<1>3. ASSUME NEW x \in Writers PROVE JobOK(jobs[x])'
  <2>1. CASE x = w
    BY <1>2, <2>1 DEF JobOK, HasPlan
  <2>2. CASE x # w
    <3>1. jobs'[x] = jobs[x] /\ JobOK(jobs[x])
      BY <1>2, <2>2 DEF IInv, JobsInv
    <3>2. jobs[x].row \in Escalations \cup {NoRow}
      BY DEF IInv, TypeInv, JobType
    <3>3. CASE jobs[x].row = NoRow
      BY <3>1, <3>3 DEF JobOK
    <3>4. CASE jobs[x].row \in Escalations
      BY <3>1, <3>4, RowFields DEF JobOK, HasPlan, RevsGrow
    <3> QED
      BY <3>2, <3>3, <3>4
  <2> QED
    BY <2>1, <2>2
<1>5. ASSUME NEW p \in Plans PROVE RowInv(p)'
  <2>1. CASE escs'[p] = escs[p]
    <3>1. CASE escs[p] = NoRow
      BY <2>1, <3>1 DEF RowInv
    <3>2. CASE escs[p] # NoRow
      <4>1. escs[p] \in Escalations /\ RowInv(p)
        BY <3>2 DEF IInv, TypeInv, RowsInv
      <4> QED
        BY <2>1, <4>1, RowFields DEF RowInv, HasPlan, RevsGrow
    <3> QED
      BY <3>1, <3>2
  <2>2. CASE escs'[p] # NoRow => /\ escs'[p].plan = p
                                 /\ revs'[p][escs'[p].version] # NoBody
    BY <2>2 DEF RowInv, HasPlan
  <2> QED
    BY <2>1, <2>2
<1> QED
  BY <1>1, <1>3, <1>5 DEF IInv, JobsInv, RowsInv

\* A job that leaves the store alone needs only be in order itself.
LEMMA StartIInv ==
  ASSUME IInv, NEW w \in Writers, UNCHANGED <<revs, findings, escs, acks, asked>>,
         partial' \subseteq Plans,
         NEW job \in JobType, Do(w, job), JobOK(job)
  PROVE  IInv'
<1>1. RevsGrow
  BY DEF RevsGrow
<1> QED
  BY <1>1, StepIInv DEF IInv, TypeInv, JobOK, HasPlan

\* What RunEnds hands to its writer.
LEMMA RunJob ==
  ASSUME IInv, NEW w \in Runners, NEW s \in Surfaces, NEW p \in Plans, NEW v \in Versions,
         NEW b \in Bodies, NEW e \in BOOLEAN, NEW f \in BOOLEAN,
         NEW job, job = Job(Writes(s, e, f), Row(p, v, b, w, IF s = "managed" THEN "create" ELSE "put"))
  PROVE  /\ job \in JobType /\ JobOK(job) /\ job.row # NoRow /\ job.row \in Escalations
         /\ job.row.plan = p /\ job.row.by = w /\ job.row.status = "open"
         /\ job.todo = Writes(s, e, f)
         /\ job.todo \subseteq {"plan", "findings", "check", "escalation"}
         /\ job.row.via = "create" /\ "escalation" \in job.todo => "check" \in job.todo
<1> DEFINE row == Row(p, v, b, w, IF s = "managed" THEN "create" ELSE "put")
<1>1. w \in Writers
  BY DEF Writers
<1>2. /\ row \in Escalations /\ row.plan = p /\ row.by = w /\ row.status = "open"
      /\ row.via = IF s = "managed" THEN "create" ELSE "put"
  BY <1>1, QuestionIsRow
<1>3. job.row = row /\ job.todo = Writes(s, e, f) /\ job = [todo |-> Writes(s, e, f), row |-> row]
  BY DEF Job
<1>4. /\ Writes(s, e, f) \subseteq {"plan", "findings", "check", "escalation"}
      /\ "plan" \notin Writes(s, e, f) => Writes(s, e, f) = {"findings"}
      /\ s = "managed" /\ "escalation" \in Writes(s, e, f) => "check" \in Writes(s, e, f)
  BY DEF Writes
<1> HIDE DEF row
<1>5. row # NoRow
  BY <1>2, RowFields
<1>6. job \in JobType
  BY <1>2, <1>3, <1>4, StepsAre DEF JobType
<1>7. JobOK(job)
  BY <1>3, <1>4, <1>5 DEF JobOK
<1> QED
  BY <1>2, <1>3, <1>4, <1>5, <1>6, <1>7

LEMMA RunEndsStep ==
  ASSUME IInv, NEW w \in Runners, RunEnds(w)
  PROVE  IInv'
<1>1. PICK s \in Surfaces, p \in Plans, v \in Versions, b \in Bodies,
           e \in BOOLEAN, f \in BOOLEAN :
        /\ Do(w, Job(Writes(s, e, f), Row(p, v, b, w, IF s = "managed" THEN "create" ELSE "put")))
        /\ partial' \in {partial, partial \cup {p}}
  BY DEF RunEnds
<1> DEFINE job == Job(Writes(s, e, f), Row(p, v, b, w, IF s = "managed" THEN "create" ELSE "put"))
<1>2. job \in JobType /\ JobOK(job)
  BY RunJob
<1>3. w \in Writers /\ UNCHANGED <<revs, findings, escs, acks, asked>>
  BY DEF RunEnds, Writers
<1>4. partial' \subseteq Plans
  BY <1>1 DEF IInv, TypeInv
<1> QED
  BY <1>1, <1>2, <1>3, <1>4, StartIInv

\* What PatchPlan hands to its reviewer.
LEMMA PatchJob ==
  ASSUME NEW r \in Reviewers, PatchPlan(r)
  PROVE  \E job \in JobType :
           /\ Do(r, job) /\ JobOK(job) /\ job.row \in Escalations /\ job.row.status = "open"
           /\ job.todo = {"plan", "findings", "lookup"}
<1>1. PICK p \in Plans, v \in Versions, b \in Clean :
        /\ v < MaxVersion
        /\ Do(r, Job({"plan", "findings", "lookup"}, Row(p, v + 1, b, r, "put")))
  BY DEF PatchPlan
<1> DEFINE row == Row(p, v + 1, b, r, "put")
<1> DEFINE job == Job({"plan", "findings", "lookup"}, row)
<1>2. v + 1 \in Versions /\ b \in Bodies /\ r \in Writers
  BY <1>1, DeskAssumption DEF Versions, Writers
<1>3. row \in Escalations /\ row.status = "open"
  BY <1>2, QuestionIsRow
<1> HIDE DEF row
<1>4. job.row = row /\ job.todo = {"plan", "findings", "lookup"} /\ job \in JobType
  BY <1>3, StepsAre DEF Job, JobType
<1>5. JobOK(job)
  BY <1>3, <1>4, RowFields DEF JobOK
<1> QED
  BY <1>1, <1>3, <1>4, <1>5 DEF row

LEMMA PatchPlanStep ==
  ASSUME IInv, NEW r \in Reviewers, PatchPlan(r)
  PROVE  IInv'
<1>1. PICK job \in JobType : Do(r, job) /\ JobOK(job)
  BY PatchJob
<1>2. r \in Writers /\ UNCHANGED <<revs, findings, escs, acks, asked, partial>>
  BY DEF PatchPlan, Writers, history
<1> QED
  BY <1>1, <1>2, StartIInv DEF IInv, TypeInv

LEMMA StartResolveStep ==
  ASSUME IInv, NEW r \in Reviewers, StartResolve(r)
  PROVE  IInv'
<1>1. Job({"lookup"}, NoRow) \in JobType
  BY StepsAre DEF Job, JobType
<1>2. JobOK(Job({"lookup"}, NoRow))
  BY DEF JobOK, Job
<1>3. r \in Writers
  BY DEF Writers
<1> QED
  BY <1>1, <1>2, <1>3, StartIInv DEF StartResolve, history, IInv, TypeInv

\* r takes up a copy of the open row of p, with the decision s on it.
Copies(r, p, s, job) ==
  /\ escs[p] \in Escalations /\ escs[p].plan = p /\ escs[p].status = "open"
  /\ Do(r, job) /\ JobOK(job) /\ s \in {"approved", "denied"}
  /\ job.todo = {"decide"} /\ job.row = [escs[p] EXCEPT !.status = s]
  /\ job.row \in Escalations /\ job.row.status = s
  /\ job.row.plan = p /\ job.row.by = escs[p].by

\* What LookUp hands to its reviewer: a copy of an open row with a decision.
LEMMA CopyJob ==
  ASSUME IInv, NEW r \in Reviewers, LookUp(r)
  PROVE  \E p \in Plans, s \in Status, job \in JobType : Copies(r, p, s, job)
<1>1. PICK p \in Plans, s \in {"approved", "denied"} :
        /\ escs[p] # NoRow /\ escs[p].status = "open"
        /\ Do(r, Job({"decide"}, [escs[p] EXCEPT !.status = s]))
  BY DEF LookUp, IsFirst, Matches
<1>2. PICK row : row = [escs[p] EXCEPT !.status = s]
  OBVIOUS
<1>3. PICK job : job = Job({"decide"}, row)
  OBVIOUS
<1>4. escs[p] \in Escalations /\ RowInv(p)
  BY <1>1 DEF IInv, TypeInv, RowsInv
<1>5. /\ row \in Escalations /\ row.plan = escs[p].plan /\ row.version = escs[p].version
      /\ row.by = escs[p].by /\ row.status = s
  BY <1>2, <1>4 DEF Escalations, Status
<1>6. escs[p].plan = p /\ HasPlan(row)
  BY <1>1, <1>4, <1>5 DEF RowInv, HasPlan
<1>7. job \in JobType /\ job.row = row /\ job.todo = {"decide"}
  BY <1>3, <1>5, StepsAre DEF Job, JobType
<1>8. JobOK(job)
  BY <1>5, <1>6, <1>7, RowFields DEF JobOK
<1>9. Do(r, job) /\ job.row = [escs[p] EXCEPT !.status = s]
  BY <1>1, <1>2, <1>3, <1>7
<1>10. /\ job.row \in Escalations /\ job.row.status = s
       /\ job.row.plan = p /\ job.row.by = escs[p].by
  BY <1>5, <1>6, <1>7
<1>11. Copies(r, p, s, job)
  BY <1>1, <1>4, <1>6, <1>7, <1>8, <1>9, <1>10, Zenon DEF Copies
<1>12. job \in JobType /\ s \in Status
  BY <1>7 DEF Status
<1> QED
  BY <1>11, <1>12, Zenon

LEMMA LookUpStep ==
  ASSUME IInv, NEW r \in Reviewers, LookUp(r)
  PROVE  IInv'
<1>1. PICK job \in JobType : Do(r, job) /\ JobOK(job)
  BY CopyJob DEF Copies
<1>2. r \in Writers /\ UNCHANGED <<revs, findings, escs, acks, asked, partial>>
  BY DEF LookUp, Writers, history
<1> QED
  BY <1>1, <1>2, StartIInv DEF IInv, TypeInv

\* What is left of a job after a step that is not its plan.
LEMMA AdvanceIsJob ==
  ASSUME IInv, NEW w \in Writers, NEW step, At(w, step), Advance(w, step)
  PROVE  LET job == [jobs[w] EXCEPT !.todo = @ \ {step}]
         IN /\ job \in JobType
            /\ job.row = jobs[w].row /\ job.todo = jobs[w].todo \ {step}
            /\ Do(w, job)
            /\ step \notin {"lookup", "run"} => job.row \in Escalations
            /\ JobOK(jobs[w])
  BY DEF IInv, TypeInv, JobsInv, JobOK, Advance, At, JobType

LEMMA PutPlanStep ==
  ASSUME IInv, NEW w \in Writers, PutPlan(w)
  PROVE  IInv'
<1> DEFINE job == [jobs[w] EXCEPT !.todo = @ \ {"plan"}]
<1> DEFINE row == jobs[w].row
<1>1. /\ job \in JobType
      /\ job.row = row /\ job.todo = jobs[w].todo \ {"plan"}
      /\ Do(w, job) /\ row \in Escalations
  BY AdvanceIsJob DEF PutPlan
<1>2. row.plan \in Plans /\ row.version \in Versions /\ row.about \in Bodies /\ row # NoRow
  BY <1>1, RowFields
<1>3. revs' = [revs EXCEPT ![row.plan][row.version] = row.about]
  BY DEF PutPlan
<1>4. revs' \in [Plans -> [Versions -> Bodies \cup {NoBody}]]
  BY <1>2, <1>3 DEF IInv, TypeInv
<1>5. RevsGrow /\ revs'[row.plan][row.version] # NoBody
  BY <1>2, <1>3, DeskAssumption DEF IInv, TypeInv, RevsGrow
<1>6. UNCHANGED <<findings, escs, acks, asked, partial>>
  BY DEF PutPlan, history
<1> HIDE DEF job, row
<1> QED
  BY <1>1, <1>2, <1>4, <1>5, <1>6, StepIInv DEF IInv, TypeInv

\* Steps that leave the revisions alone and go on with a job past its plan.
LEMMA LaterStep ==
  ASSUME IInv, NEW w \in Writers, NEW step \in {"findings", "check", "escalation"},
         At(w, step), Advance(w, step), revs' = revs,
         findings' \in [Plans -> [Versions -> Bodies \cup {NoBody}]],
         acks' = acks, asked' \subseteq Writers \X Plans, partial' = partial,
         \/ escs' = escs
         \/ step = "escalation" /\ escs' = [escs EXCEPT ![jobs[w].row.plan] = jobs[w].row]
  PROVE  IInv'
<1> DEFINE job == [jobs[w] EXCEPT !.todo = @ \ {step}]
<1> DEFINE row == jobs[w].row
<1>1. /\ job \in JobType
      /\ job.row = row /\ job.todo = jobs[w].todo \ {step}
      /\ Do(w, job) /\ row \in Escalations /\ JobOK(jobs[w])
  BY AdvanceIsJob
<1>2. row.plan \in Plans /\ row.version \in Versions /\ row # NoRow
  BY <1>1, RowFields
<1>3. step \in jobs[w].todo /\ "plan" \notin jobs[w].todo
  BY DEF At, Before
<1>4. job.todo \cap {"escalation", "decide"} # {} => HasPlan(row)
  BY <1>1, <1>3 DEF JobOK
<1>5. step = "escalation" => HasPlan(row)
  BY <1>1, <1>3 DEF JobOK
<1>6. escs' \in [Plans -> Escalations \cup {NoRow}]
  BY <1>1 DEF IInv, TypeInv
<1>7. \A p \in Plans : escs'[p] = escs[p] \/ (escs'[p].plan = p /\ revs'[p][escs'[p].version] # NoBody)
  BY <1>2, <1>5 DEF IInv, TypeInv, HasPlan
<1>8. RevsGrow /\ revs' \in [Plans -> [Versions -> Bodies \cup {NoBody}]]
  BY DEF RevsGrow, IInv, TypeInv
<1>9. acks' \subseteq [by : Reviewers, row : Escalations] /\ partial' \subseteq Plans
  BY DEF IInv, TypeInv
<1>10. "plan" \notin job.todo /\ job.row # NoRow
  BY <1>1, <1>2, <1>3
<1>11. job.todo \cap {"escalation", "decide"} # {} => revs'[job.row.plan][job.row.version] # NoBody
  BY <1>1, <1>4 DEF HasPlan
<1> HIDE DEF job, row
<1> QED
  BY <1>1, <1>6, <1>7, <1>8, <1>9, <1>10, <1>11, StepIInv

LEMMA PutFindingsStep ==
  ASSUME IInv, NEW w \in Writers, PutFindings(w)
  PROVE  IInv'
<1>1. At(w, "findings") /\ Advance(w, "findings") /\ UNCHANGED <<revs, escs, acks, asked, partial>>
  BY DEF PutFindings, history
<1>2. jobs[w].row \in Escalations
  BY <1>1 DEF IInv, TypeInv, JobsInv, JobOK, At, JobType
<1>3. findings' \in [Plans -> [Versions -> Bodies \cup {NoBody}]]
  BY <1>2, RowFields DEF PutFindings, IInv, TypeInv
<1> QED
  BY <1>1, <1>3, LaterStep DEF IInv, TypeInv

LEMMA CheckEscalationStep ==
  ASSUME IInv, NEW w \in Writers, CheckEscalation(w)
  PROVE  IInv'
<1>1. At(w, "check") /\ Advance(w, "check") /\ revs' = revs /\ findings' = findings
      /\ escs' = escs /\ acks' = acks /\ asked' = asked /\ partial' = partial
  BY DEF CheckEscalation, history
<1>2. findings' \in [Plans -> [Versions -> Bodies \cup {NoBody}]] /\ asked' \subseteq Writers \X Plans
  BY <1>1 DEF IInv, TypeInv
<1> QED
  BY <1>1, <1>2, LaterStep

LEMMA PutEscalationStep ==
  ASSUME IInv, NEW w \in Writers, PutEscalation(w)
  PROVE  IInv'
<1>1. /\ At(w, "escalation") /\ Advance(w, "escalation")
      /\ escs' = [escs EXCEPT ![jobs[w].row.plan] = jobs[w].row]
      /\ revs' = revs /\ findings' = findings /\ acks' = acks /\ partial' = partial
      /\ asked' = asked \cup {QuestionOf(jobs[w].row)}
  BY DEF PutEscalation
<1>2. findings' \in [Plans -> [Versions -> Bodies \cup {NoBody}]]
  BY <1>1 DEF IInv, TypeInv
<1>3. jobs[w].row \in Escalations
  BY <1>1 DEF IInv, TypeInv, JobsInv, JobOK, At, JobType
<1>4. asked' \subseteq Writers \X Plans
  BY <1>1, <1>3, RowFields DEF IInv, TypeInv, QuestionOf
<1> QED
  BY <1>1, <1>2, <1>4, LaterStep

LEMMA IdleIsOK ==
  ASSUME IInv
  PROVE  /\ Idle \in JobType
         /\ JobOK(Idle)
         /\ Idle.todo = {} /\ Idle.row = NoRow
  BY DEF Idle, Job, JobOK, JobType

LEMMA DecideStep ==
  ASSUME IInv, NEW r \in Reviewers, Decide(r)
  PROVE  IInv'
<1> DEFINE row == jobs[r].row
<1>1. /\ r \in Writers /\ JobOK(jobs[r])
      /\ "decide" \in jobs[r].todo /\ "plan" \notin jobs[r].todo
  BY DEF Writers, IInv, JobsInv, Decide, At, Before
<1>2. row \in Escalations
  BY <1>1 DEF IInv, TypeInv, JobOK, JobType
<1>3. row.plan \in Plans /\ row.version \in Versions /\ row # NoRow
  BY <1>2, RowFields
<1>4. escs' = [escs EXCEPT ![row.plan] = row] /\ revs' = revs /\ findings' = findings
  BY DEF Decide
<1>5. escs' \in [Plans -> Escalations \cup {NoRow}]
  BY <1>2, <1>4 DEF IInv, TypeInv
<1>6. acks' \subseteq [by : Reviewers, row : Escalations]
  BY <1>2 DEF Decide, IInv, TypeInv
<1>7. revs[row.plan][row.version] # NoBody
  BY <1>1 DEF JobOK, HasPlan
<1>8. \A p \in Plans : escs'[p] = escs[p] \/ (escs'[p].plan = p /\ escs'[p] = row)
  BY <1>3, <1>4 DEF IInv, TypeInv
<1>9. RevsGrow /\ Do(r, Idle) /\ asked' = asked /\ partial' = partial
  BY <1>4 DEF RevsGrow, Decide
<1>10. UNCHANGED revs /\ \A p \in Plans : escs'[p] = escs[p] \/
         /\ escs'[p] # NoRow => /\ escs'[p].plan = p
                                /\ revs'[p][escs'[p].version] # NoBody
  BY <1>4, <1>7, <1>8
<1> HIDE DEF row
<1> QED
  BY <1>1, <1>4, <1>5, <1>6, <1>9, <1>10, IdleIsOK, StepIInv, SMTT(30) DEF IInv, TypeInv

LEMMA JobEndsStep ==
  ASSUME IInv, NEW w \in Writers, JobEnds(w)
  PROVE  IInv'
<1>1. partial' \subseteq Plans
  BY DEF JobEnds, IInv, TypeInv
<1> QED
  BY <1>1, IdleIsOK, StartIInv DEF JobEnds

\* The inductive invariant of the store.
THEOREM StoreInvariant == Spec => []IInv
<1>1. Init => IInv
  BY InitIInv
<1>2. IInv /\ [Next]_vars => IInv'
  <2> SUFFICES ASSUME IInv, [Next]_vars PROVE IInv'
    OBVIOUS
  <2>1. ASSUME NEW w \in Writers, Commit(w) PROVE IInv'
    BY <2>1, PutPlanStep, PutFindingsStep, CheckEscalationStep, PutEscalationStep, JobEndsStep
    DEF Commit
  <2>2. ASSUME NEW w \in Runners, RunEnds(w) \/ Commit(w) PROVE IInv'
    BY <2>1, <2>2, RunEndsStep DEF Writers
  <2>3. ASSUME NEW r \in Reviewers,
               PatchPlan(r) \/ StartResolve(r) \/ LookUp(r) \/ Decide(r) \/ Commit(r)
        PROVE  IInv'
    BY <2>1, <2>3, PatchPlanStep, StartResolveStep, LookUpStep, DecideStep DEF Writers
  <2>4. CASE UNCHANGED vars
    BY <2>4 DEF vars, IInv, TypeInv, JobsInv, RowsInv, RowInv, JobOK, HasPlan
  <2> QED
    BY <2>2, <2>3, <2>4 DEF Next
<1> QED
  BY <1>1, <1>2, PTL DEF Spec

\* Every variable has its type.
THEOREM TypeCorrect == Spec => []TypeOK
<1>1. IInv => TypeOK
  BY DEF IInv, TypeInv, JobsInv, JobOK, TypeOK, JobType
<1> QED
  BY <1>1, StoreInvariant, PTL

\* No escalation is ever an orphan, for any number of writers that stop anywhere.
THEOREM EscalationsHavePlans == Spec => []NoOrphanEscalation
<1>1. IInv => NoOrphanEscalation
  BY DEF IInv, RowsInv, RowInv, HasPlan, NoOrphanEscalation
<1> QED
  BY <1>1, StoreInvariant, PTL

(***************************************************************************)
(* Who has what in hand                                                    *)
(***************************************************************************)

\* What a job may still hold, by who has it: only a run asks, only a reviewer decides.
Shape(w, job) ==
  /\ w \in Runners => job.todo \cap {"lookup", "decide"} = {}
  /\ w \in Reviewers => job.todo \cap {"run", "check", "escalation"} = {}
  /\ "run" \in job.todo => job.row = NoRow
  /\ "escalation" \in job.todo => job.row.by = w /\ job.row.status = "open"
  /\ "decide" \in job.todo => job.todo = {"decide"} /\ job.row.status \in {"approved", "denied"}

\* Two writers have a job on one plan id only where jobs overlapped.
Apart ==
  \A p \in Plans \ overlapped, w, x \in Writers :
    /\ jobs[w].row # NoRow /\ jobs[w].row.plan = p
    /\ jobs[x].row # NoRow /\ jobs[x].row.plan = p
    => w = x

HandsInv == Apart /\ \A w \in Writers : Shape(w, jobs[w])

LEMMA OneJobMoves ==
  ASSUME IInv, NEW w \in Writers, NEW job, Do(w, job)
  PROVE  /\ \A x \in Writers : jobs'[x] = IF x = w THEN job ELSE jobs[x]
         /\ overlapped \subseteq overlapped'
         /\ Runners \subseteq Writers /\ Reviewers \subseteq Writers
         /\ Runners \cap Reviewers = {}
  BY DeskAssumption DEF IInv, TypeInv, Do, Writers

LEMMA DoHands ==
  ASSUME IInv, HandsInv, NEW w \in Writers, NEW job \in JobType, Do(w, job), Shape(w, job)
  PROVE  HandsInv'
<1>1. \A x \in Writers : jobs'[x] = IF x = w THEN job ELSE jobs[x]
  BY OneJobMoves
<1>2. \A x \in Writers : Shape(x, jobs'[x])
  BY <1>1 DEF HandsInv
<1>3. Apart'
  <2> SUFFICES ASSUME NEW p \in Plans \ overlapped', NEW x \in Writers, NEW y \in Writers,
                      jobs'[x].row # NoRow, jobs'[x].row.plan = p,
                      jobs'[y].row # NoRow, jobs'[y].row.plan = p, x # y
               PROVE  FALSE
    BY DEF Apart
  <2>1. p \notin overlapped /\ (job.row # NoRow /\ job.row.plan = p => Others(w, p) = {})
    BY DEF Do
  <2>2. CASE x # w /\ y # w
    BY <1>1, <2>1, <2>2 DEF HandsInv, Apart
  <2>3. CASE x = w
    <3>1. y \in Others(w, p)
      BY <1>1, <2>3 DEF Others
    <3> QED
      BY <1>1, <2>1, <2>3, <3>1
  <2>4. CASE y = w
    <3>1. x \in Others(w, p)
      BY <1>1, <2>4 DEF Others
    <3> QED
      BY <1>1, <2>1, <2>4, <3>1
  <2> QED
    BY <2>2, <2>3, <2>4
<1> QED
  BY <1>2, <1>3 DEF HandsInv, Shape

\* A commit that leaves its writer with less to do.
LEMMA AdvanceHands ==
  ASSUME IInv, HandsInv, NEW w \in Writers, NEW step, At(w, step), Advance(w, step),
         step \notin {"run", "lookup", "decide"}
  PROVE  HandsInv'
<1> DEFINE job == [jobs[w] EXCEPT !.todo = @ \ {step}]
<1>1. /\ job \in JobType /\ Do(w, job)
      /\ job.row = jobs[w].row /\ job.todo = jobs[w].todo \ {step}
      /\ step \in jobs[w].todo
  BY AdvanceIsJob DEF At
<1>2. Shape(w, jobs[w])
  BY DEF HandsInv
<1> HIDE DEF job
<1>3. Shape(w, job)
  BY <1>1, <1>2 DEF Shape
<1> QED
  BY <1>1, <1>3, DoHands

LEMMA IdleHands ==
  ASSUME IInv, HandsInv, NEW w \in Writers, Do(w, Idle)
  PROVE  HandsInv'
<1>1. Shape(w, Idle)
  BY IdleIsOK DEF Shape
<1> QED
  BY <1>1, IdleIsOK, DoHands

LEMMA HandsInductive ==
  ASSUME IInv, HandsInv, [Next]_vars
  PROVE  HandsInv'
<1>1. ASSUME NEW w \in Writers, Commit(w) PROVE HandsInv'
  <2>1. CASE PutPlan(w)
    BY <2>1, AdvanceHands DEF PutPlan
  <2>2. CASE PutFindings(w)
    BY <2>2, AdvanceHands DEF PutFindings
  <2>3. CASE CheckEscalation(w)
    BY <2>3, AdvanceHands DEF CheckEscalation
  <2>4. CASE PutEscalation(w)
    BY <2>4, AdvanceHands DEF PutEscalation
  <2>5. CASE JobEnds(w)
    BY <2>5, IdleHands DEF JobEnds
  <2> QED
    BY <1>1, <2>1, <2>2, <2>3, <2>4, <2>5 DEF Commit
<1>2. ASSUME NEW w \in Runners, RunEnds(w) PROVE HandsInv'
  <2>1. PICK s \in Surfaces, p \in Plans, v \in Versions, b \in Bodies,
             e \in BOOLEAN, f \in BOOLEAN :
          Do(w, Job(Writes(s, e, f), Row(p, v, b, w, IF s = "managed" THEN "create" ELSE "put")))
    BY <1>2 DEF RunEnds
  <2> DEFINE job == Job(Writes(s, e, f), Row(p, v, b, w, IF s = "managed" THEN "create" ELSE "put"))
  <2>2. /\ job \in JobType /\ job.row.by = w /\ job.row.status = "open"
        /\ job.todo \subseteq {"plan", "findings", "check", "escalation"}
    BY RunJob
  <2>3. w \in Writers /\ w \notin Reviewers
    BY DeskAssumption DEF Writers
  <2> HIDE DEF job
  <2>4. Shape(w, job)
    BY <2>2, <2>3 DEF Shape
  <2> QED
    BY <2>1, <2>2, <2>3, <2>4, DoHands DEF job
<1>3. ASSUME NEW r \in Reviewers, PatchPlan(r) PROVE HandsInv'
  <2>1. PICK job \in JobType : Do(r, job) /\ job.todo = {"plan", "findings", "lookup"}
    BY <1>3, PatchJob
  <2>2. r \in Writers /\ Shape(r, job)
    BY <2>1, DeskAssumption DEF Shape, Writers
  <2> QED
    BY <2>1, <2>2, DoHands
<1>4. ASSUME NEW r \in Reviewers, StartResolve(r) PROVE HandsInv'
  <2>1. /\ Job({"lookup"}, NoRow) \in JobType /\ Job({"lookup"}, NoRow).todo = {"lookup"}
        /\ Do(r, Job({"lookup"}, NoRow))
    BY <1>4, StepsAre DEF Job, JobType, StartResolve
  <2>2. r \in Writers /\ Shape(r, Job({"lookup"}, NoRow))
    BY <2>1, DeskAssumption DEF Shape, Writers
  <2> QED
    BY <2>1, <2>2, DoHands
<1>5. ASSUME NEW r \in Reviewers, LookUp(r) PROVE HandsInv'
  <2>1. PICK p \in Plans, s \in Status, job \in JobType : Copies(r, p, s, job)
    BY <1>5, CopyJob
  <2>2. r \in Writers /\ r \notin Runners
    BY DeskAssumption DEF Writers
  <2>3. Shape(r, job)
    BY <2>1, <2>2 DEF Shape, Copies
  <2> QED
    BY <2>1, <2>2, <2>3, DoHands DEF Copies
<1>6. ASSUME NEW r \in Reviewers, Decide(r) PROVE HandsInv'
  BY <1>6, IdleHands DEF Decide, Writers
<1>7. CASE UNCHANGED vars
  BY <1>7 DEF vars, HandsInv, Apart, Shape
<1> QED
  BY <1>1, <1>2, <1>3, <1>4, <1>5, <1>6, <1>7 DEF Next, Writers

LEMMA HandsInvariant == Spec => []HandsInv
<1>1. Init => HandsInv
  <2> SUFFICES ASSUME Init PROVE HandsInv
    OBVIOUS
  <2>1. \A w \in Writers : /\ jobs[w].row = NoRow
                          /\ jobs[w].todo = IF w \in Runners THEN {"run"} ELSE {}
    BY DEF Init, Idle, Unstarted, Job
  <2> QED
    BY <2>1, DeskAssumption DEF HandsInv, Apart, Shape
<1> QED
  BY <1>1, StoreInvariant, HandsInductive, PTL DEF Spec

(***************************************************************************)
(* The life of a question, whatever overlaps                               *)
(***************************************************************************)

InHand(r) == "decide" \in jobs[r].todo

\* A run that can still ask has not asked; what is shown, in hand or decided was asked;
\* an open question has no decision, and a reviewer none on the question in hand.
AskInv ==
  /\ \A w \in Runners, p \in Plans : jobs[w].todo \cap {"run", "escalation"} # {} => <<w, p>> \notin asked
  /\ \A p \in Plans : escs[p] # NoRow => QuestionOf(escs[p]) \in asked
  /\ \A p \in Plans : escs[p].status = "open" =>
       \A a \in acks : QuestionOf(a.row) # QuestionOf(escs[p])
  /\ \A a \in acks : QuestionOf(a.row) \in asked
  /\ \A r \in Reviewers : InHand(r) =>
       /\ QuestionOf(jobs[r].row) \in asked
       /\ \A a \in acks : a.by = r => QuestionOf(a.row) # QuestionOf(jobs[r].row)

\* A step that leaves the questions alone: what it hands to its writer must not be a
\* run's second question, nor a question that reviewer has decided.
LEMMA QuietAsk ==
  ASSUME IInv, AskInv, NEW w \in Writers, NEW job, Do(w, job), UNCHANGED <<escs, acks, asked>>,
         w \in Runners /\ job.todo \cap {"run", "escalation"} # {}
           => jobs[w].todo \cap {"run", "escalation"} # {},
         w \in Reviewers /\ "decide" \in job.todo =>
           /\ QuestionOf(job.row) \in asked
           /\ \A a \in acks : a.by = w => QuestionOf(a.row) # QuestionOf(job.row)
  PROVE  AskInv'
<1>1. /\ \A x \in Writers : jobs'[x] = IF x = w THEN job ELSE jobs[x]
      /\ Runners \subseteq Writers /\ Reviewers \subseteq Writers
  BY OneJobMoves
<1>2. \A x \in Runners, p \in Plans : jobs'[x].todo \cap {"run", "escalation"} # {} => <<x, p>> \notin asked'
  BY <1>1 DEF AskInv
<1>3. \A r \in Reviewers : "decide" \in jobs'[r].todo =>
        /\ QuestionOf(jobs'[r].row) \in asked
        /\ \A a \in acks : a.by = r => QuestionOf(a.row) # QuestionOf(jobs'[r].row)
  BY <1>1 DEF AskInv, InHand
<1> QED
  BY <1>2, <1>3 DEF AskInv, InHand, QuestionOf

LEMMA AdvanceAsk ==
  ASSUME IInv, AskInv, HandsInv, NEW w \in Writers, NEW step, At(w, step), Advance(w, step),
         UNCHANGED <<escs, acks, asked>>
  PROVE  AskInv'
<1> DEFINE job == [jobs[w] EXCEPT !.todo = @ \ {step}]
<1>1. Do(w, job) /\ job.row = jobs[w].row /\ job.todo = jobs[w].todo \ {step}
  BY AdvanceIsJob
<1> HIDE DEF job
<1>2. w \in Reviewers /\ "decide" \in job.todo =>
        /\ QuestionOf(job.row) \in asked
        /\ \A a \in acks : a.by = w => QuestionOf(a.row) # QuestionOf(job.row)
  BY <1>1 DEF AskInv, InHand, QuestionOf
<1> QED
  BY <1>1, <1>2, QuietAsk

LEMMA IdleAsk ==
  ASSUME IInv, AskInv, NEW w \in Writers, Do(w, Idle), UNCHANGED <<escs, acks, asked>>
  PROVE  AskInv'
  BY IdleIsOK, QuietAsk

\* A question is new when it is asked, and the run that asks it has no other.
LEMMA PutEscalationAsk ==
  ASSUME IInv, AskInv, HandsInv, NEW w \in Writers, PutEscalation(w)
  PROVE  /\ AskInv'
         /\ w \in Runners /\ jobs[w].row.plan \in Plans /\ jobs[w].row \in Escalations
         /\ jobs[w].row.by = w /\ jobs[w].row.status = "open"
         /\ QuestionOf(jobs[w].row) \notin asked
<1> DEFINE row == jobs[w].row
<1> DEFINE job == [jobs[w] EXCEPT !.todo = @ \ {"escalation"}]
<1>1. /\ Do(w, job) /\ job.row = row /\ job.todo = jobs[w].todo \ {"escalation"}
      /\ "escalation" \in jobs[w].todo /\ row \in Escalations
  BY AdvanceIsJob DEF PutEscalation, At
<1>2. /\ row.by = w /\ row.status = "open" /\ w \notin Reviewers /\ w \in Runners
      /\ "run" \notin jobs[w].todo
  <2>1. Shape(w, jobs[w]) /\ row # NoRow
    BY <1>1, RowFields DEF HandsInv
  <2> QED
    BY <1>1, <2>1 DEF Shape, Writers
<1>3. row.plan \in Plans /\ row # NoRow
  BY <1>1, RowFields
<1>4. QuestionOf(row) = <<w, row.plan>> /\ QuestionOf(row) \notin asked
  BY <1>1, <1>2, <1>3 DEF AskInv, QuestionOf
<1>5. \A p \in Plans : escs'[p] = IF p = row.plan THEN row ELSE escs[p]
  BY <1>1 DEF PutEscalation, IInv, TypeInv
<1>6. acks' = acks /\ asked' = asked \cup {QuestionOf(row)}
  BY DEF PutEscalation
<1>7. /\ \A x \in Writers : jobs'[x] = IF x = w THEN job ELSE jobs[x]
      /\ Runners \subseteq Writers /\ Reviewers \subseteq Writers
  BY <1>1, OneJobMoves
<1>8. \A x \in Runners, p \in Plans : jobs'[x].todo \cap {"run", "escalation"} # {} => <<x, p>> \notin asked'
  <2> SUFFICES ASSUME NEW x \in Runners, NEW p \in Plans, jobs'[x].todo \cap {"run", "escalation"} # {}
               PROVE  <<x, p>> \notin asked'
    OBVIOUS
  <2>1. x # w
    BY <1>1, <1>2, <1>7
  <2>2. <<x, p>> \notin asked
    BY <1>7, <2>1 DEF AskInv
  <2> QED
    BY <1>4, <1>6, <2>1, <2>2
<1>9. \A r \in Reviewers : jobs'[r] = jobs[r]
  BY <1>2, <1>7
<1> HIDE DEF row, job
<1>10. \A p \in Plans : escs'[p] # NoRow => QuestionOf(escs'[p]) \in asked'
  BY <1>3, <1>5, <1>6 DEF AskInv
<1>11. \A p \in Plans : escs'[p].status = "open" =>
         \A a \in acks' : QuestionOf(a.row) # QuestionOf(escs'[p])
  BY <1>4, <1>5, <1>6 DEF AskInv
<1>12. \A r \in Reviewers : InHand(r)' =>
         /\ QuestionOf(jobs'[r].row) \in asked'
         /\ \A a \in acks' : a.by = r => QuestionOf(a.row) # QuestionOf(jobs'[r].row)
  BY <1>6, <1>9 DEF AskInv, InHand
<1>13. \A a \in acks' : QuestionOf(a.row) \in asked'
  BY <1>6 DEF AskInv
<1>14. AskInv'
  BY <1>8, <1>10, <1>11, <1>12, <1>13 DEF AskInv, QuestionOf
<1> QED
  BY <1>1, <1>2, <1>3, <1>4, <1>14 DEF row

\* A decision closes the question it was made on, if that is still shown.
LEMMA DecideAsk ==
  ASSUME IInv, AskInv, HandsInv, NEW r \in Reviewers, Decide(r)
  PROVE  AskInv'
<1> DEFINE row == jobs[r].row
<1>1. r \in Writers /\ "decide" \in jobs[r].todo /\ row \in Escalations
  BY DEF Decide, At, Writers, IInv, TypeInv, JobsInv, JobOK, JobType
<1>2. row.plan \in Plans /\ row.status # "open" /\ row # NoRow
  <2>1. Shape(r, jobs[r])
    BY <1>1 DEF HandsInv
  <2> QED
    BY <1>1, <2>1, RowFields DEF Shape
<1>3. QuestionOf(row) \in asked
  BY <1>1 DEF AskInv, InHand
<1>4. \A p \in Plans : escs'[p] = IF p = row.plan THEN row ELSE escs[p]
  BY <1>1 DEF Decide, IInv, TypeInv
<1>5. acks' = acks \cup {[by |-> r, row |-> row]} /\ asked' = asked /\ Do(r, Idle)
  BY DEF Decide
<1>6. /\ \A x \in Writers : jobs'[x] = IF x = r THEN Idle ELSE jobs[x]
      /\ Runners \subseteq Writers /\ Reviewers \subseteq Writers /\ Idle.todo = {}
  BY <1>1, <1>5, OneJobMoves, IdleIsOK
<1> HIDE DEF row
<1>7. \A x \in Runners, p \in Plans : jobs'[x].todo \cap {"run", "escalation"} # {} => <<x, p>> \notin asked'
  BY <1>5, <1>6 DEF AskInv
<1>8. \A p \in Plans : escs'[p] # NoRow => QuestionOf(escs'[p]) \in asked'
  BY <1>3, <1>4, <1>5 DEF AskInv
<1>9. ASSUME NEW p \in Plans, escs'[p].status = "open", NEW a \in acks'
      PROVE  QuestionOf(a.row) # QuestionOf(escs'[p])
  <2>1. p # row.plan /\ escs'[p] = escs[p]
    BY <1>2, <1>4, <1>9
  <2>2. CASE a \in acks
    BY <1>9, <2>1, <2>2 DEF AskInv
  <2>3. CASE a = [by |-> r, row |-> row]
    <3>1. escs[p] # NoRow /\ escs[p].plan = p
      BY <1>9, <2>1 DEF IInv, RowsInv, RowInv, NoRow
    <3> QED
      BY <2>1, <2>3, <3>1 DEF QuestionOf
  <2> QED
    BY <1>5, <2>2, <2>3
<1>10. \A a \in acks' : QuestionOf(a.row) \in asked'
  BY <1>3, <1>5 DEF AskInv
<1>11. ASSUME NEW x \in Reviewers, "decide" \in jobs'[x].todo
       PROVE  /\ QuestionOf(jobs'[x].row) \in asked'
              /\ \A a \in acks' : a.by = x => QuestionOf(a.row) # QuestionOf(jobs'[x].row)
  <2>1. x # r /\ jobs'[x] = jobs[x]
    BY <1>6, <1>11
  <2> QED
    BY <1>5, <1>11, <2>1 DEF AskInv, InHand
<1> QED
  BY <1>7, <1>8, <1>9, <1>10, <1>11 DEF AskInv, InHand, QuestionOf

LEMMA AskInductive ==
  ASSUME IInv, HandsInv, AskInv, [Next]_vars
  PROVE  AskInv'
<1>1. ASSUME NEW w \in Writers, Commit(w) PROVE AskInv'
  <2>1. CASE PutPlan(w)
    BY <2>1, AdvanceAsk DEF PutPlan, history
  <2>2. CASE PutFindings(w)
    BY <2>2, AdvanceAsk DEF PutFindings, history
  <2>3. CASE CheckEscalation(w)
    BY <2>3, AdvanceAsk DEF CheckEscalation, history
  <2>4. CASE PutEscalation(w)
    BY <2>4, PutEscalationAsk
  <2>5. CASE JobEnds(w)
    BY <2>5, IdleAsk DEF JobEnds
  <2> QED
    BY <1>1, <2>1, <2>2, <2>3, <2>4, <2>5 DEF Commit
<1>2. ASSUME NEW w \in Runners, RunEnds(w) PROVE AskInv'
  <2>1. PICK job : Do(w, job)
    BY <1>2 DEF RunEnds
  <2>2. /\ "run" \in jobs[w].todo /\ w \in Writers /\ w \notin Reviewers
        /\ UNCHANGED <<escs, acks, asked>>
    BY <1>2, DeskAssumption DEF RunEnds, Unstarted, Job, Writers
  <2> QED
    BY <2>1, <2>2, QuietAsk
<1>3. ASSUME NEW r \in Reviewers, PatchPlan(r) PROVE AskInv'
  <2>1. PICK job \in JobType : Do(r, job) /\ job.todo = {"plan", "findings", "lookup"}
    BY <1>3, PatchJob
  <2>2. r \in Writers /\ UNCHANGED <<escs, acks, asked>>
    BY <1>3 DEF Writers, PatchPlan, history
  <2> QED
    BY <2>1, <2>2, QuietAsk
<1>4. ASSUME NEW r \in Reviewers, StartResolve(r) PROVE AskInv'
  <2>1. /\ Do(r, Job({"lookup"}, NoRow)) /\ Job({"lookup"}, NoRow).todo = {"lookup"}
        /\ r \in Writers /\ UNCHANGED <<escs, acks, asked>>
    BY <1>4 DEF Writers, StartResolve, history, Job
  <2> QED
    BY <2>1, QuietAsk
<1>5. ASSUME NEW r \in Reviewers, LookUp(r) PROVE AskInv'
  <2>1. PICK p \in Plans, s \in Status, job \in JobType : Copies(r, p, s, job)
    BY <1>5, CopyJob
  <2>2. QuestionOf(job.row) = QuestionOf(escs[p]) /\ escs[p] # NoRow
    BY <2>1, RowFields DEF QuestionOf, Copies
  <2>3. r \in Writers /\ r \notin Runners /\ UNCHANGED <<escs, acks, asked>>
    BY <1>5, DeskAssumption DEF Writers, LookUp, history
  <2>4. QuestionOf(job.row) \in asked /\ \A a \in acks : QuestionOf(a.row) # QuestionOf(job.row)
    BY <2>1, <2>2 DEF AskInv, Copies
  <2> QED
    BY <2>1, <2>3, <2>4, QuietAsk DEF Copies
<1>6. ASSUME NEW r \in Reviewers, Decide(r) PROVE AskInv'
  BY <1>6, DecideAsk
<1>7. CASE UNCHANGED vars
  BY <1>7 DEF vars, AskInv, InHand, QuestionOf
<1> QED
  BY <1>1, <1>2, <1>3, <1>4, <1>5, <1>6, <1>7 DEF Next, Writers

LEMMA AskInvariant == Spec => []AskInv
<1>1. Init => AskInv
  <2> SUFFICES ASSUME Init PROVE AskInv
    OBVIOUS
  <2>1. \A r \in Reviewers : jobs[r].todo = {}
    BY DeskAssumption DEF Init, Idle, Job, Writers
  <2>2. asked = {} /\ acks = {} /\ \A p \in Plans : escs[p] = NoRow
    BY DEF Init
  <2> QED
    BY <2>1, <2>2 DEF AskInv, InHand, NoRow
<1> QED
  BY <1>1, StoreInvariant, HandsInvariant, AskInductive, PTL DEF Spec

\* Only a run that asks and a reviewer who decides touch the questions.
LEMMA QuestionsChange ==
  ASSUME Next, escs' # escs \/ acks' # acks \/ asked' # asked
  PROVE  \/ \E w \in Writers : PutEscalation(w)
         \/ \E r \in Reviewers : Decide(r)
  BY DEF Next, Writers, Commit, RunEnds, PatchPlan, StartResolve, LookUp, PutPlan, PutFindings,
     CheckEscalation, JobEnds, history

\* The two variables of EscalationLifecycle the desk keeps in another form.
Hands == {<<r, QuestionOf(jobs[r].row)>> : r \in {x \in Reviewers : "decide" \in jobs[x].todo}}
Answered == {<<a.by, QuestionOf(a.row)>> : a \in acks}

\* What the job of one reviewer shows of the abstract desk; the others keep theirs.
LEMMA HandsMove ==
  ASSUME IInv, NEW w \in Writers, NEW job, Do(w, job)
  PROVE  /\ w \notin Reviewers => Hands' = Hands
         /\ ("decide" \in job.todo <=> "decide" \in jobs[w].todo) /\ job.row = jobs[w].row => Hands' = Hands
         /\ "decide" \notin job.todo /\ "decide" \notin jobs[w].todo => Hands' = Hands
         /\ w \in Reviewers /\ "decide" \notin jobs[w].todo /\ "decide" \in job.todo
              => Hands' = Hands \cup {<<w, QuestionOf(job.row)>>}
         /\ w \in Reviewers /\ "decide" \in jobs[w].todo /\ "decide" \notin job.todo
              => Hands' = Hands \ {<<w, QuestionOf(jobs[w].row)>>}
<1>1. /\ \A x \in Writers : jobs'[x] = IF x = w THEN job ELSE jobs[x]
      /\ Reviewers \subseteq Writers
  BY OneJobMoves
<1>2. ASSUME NEW t PROVE
        /\ t \in Hands  <=> \E r \in Reviewers : "decide" \in jobs[r].todo /\ t = <<r, QuestionOf(jobs[r].row)>>
        /\ t \in Hands' <=> \E r \in Reviewers : "decide" \in jobs'[r].todo /\ t = <<r, QuestionOf(jobs'[r].row)>>
  BY DEF Hands, QuestionOf
<1>3. ASSUME w \notin Reviewers PROVE Hands' = Hands
  BY <1>1, <1>2, <1>3
<1>4. ASSUME "decide" \in job.todo <=> "decide" \in jobs[w].todo, job.row = jobs[w].row
      PROVE  Hands' = Hands
  BY <1>1, <1>2, <1>4
<1>5. ASSUME "decide" \notin job.todo, "decide" \notin jobs[w].todo
      PROVE  Hands' = Hands
  BY <1>1, <1>2, <1>5
<1>6. ASSUME w \in Reviewers, "decide" \notin jobs[w].todo, "decide" \in job.todo
      PROVE  Hands' = Hands \cup {<<w, QuestionOf(job.row)>>}
  BY <1>1, <1>2, <1>6
<1>7. ASSUME w \in Reviewers, "decide" \in jobs[w].todo, "decide" \notin job.todo
      PROVE  Hands' = Hands \ {<<w, QuestionOf(jobs[w].row)>>}
  BY <1>1, <1>2, <1>7
<1> QED
  BY <1>3, <1>4, <1>5, <1>6, <1>7

\* Only a reviewer's look-up, decision and giving up change who has what in hand.
LEMMA QuietHands ==
  ASSUME IInv, HandsInv, Next, acks' = acks, asked' = asked
  PROVE  \/ Hands' = Hands
         \/ \E r \in Reviewers : LookUp(r)
         \/ \E r \in Reviewers : JobEnds(r) /\ "decide" \in jobs[r].todo
         \/ \E r \in Reviewers : Decide(r)
<1>1. ASSUME NEW w \in Writers, NEW step \in {"plan", "findings", "check", "escalation"},
             At(w, step), Advance(w, step)
      PROVE  Hands' = Hands
  <2> DEFINE job == [jobs[w] EXCEPT !.todo = @ \ {step}]
  <2>1. Do(w, job) /\ job.row = jobs[w].row /\ job.todo = jobs[w].todo \ {step}
    BY <1>1, AdvanceIsJob
  <2> HIDE DEF job
  <2> QED
    BY <2>1, HandsMove
<1>2. ASSUME NEW w \in Writers, Commit(w) PROVE Hands' = Hands \/ (JobEnds(w) /\ "decide" \in jobs[w].todo)
  <2>1. CASE PutPlan(w) \/ PutFindings(w) \/ CheckEscalation(w) \/ PutEscalation(w)
    BY <1>1, <2>1 DEF PutPlan, PutFindings, CheckEscalation, PutEscalation
  <2>2. CASE JobEnds(w) /\ "decide" \notin jobs[w].todo
    BY <2>2, HandsMove, IdleIsOK DEF JobEnds
  <2> QED
    BY <1>2, <2>1, <2>2 DEF Commit
<1>3. ASSUME NEW w \in Runners PROVE RunEnds(w) \/ Commit(w) => Hands' = Hands
  <2>1. w \in Writers /\ w \notin Reviewers /\ "decide" \notin jobs[w].todo
    BY DeskAssumption DEF Writers, HandsInv, Shape
  <2>2. RunEnds(w) => \E job : Do(w, job)
    BY DEF RunEnds
  <2> QED
    BY <1>2, <2>1, <2>2, HandsMove
<1>4. ASSUME NEW r \in Reviewers, PatchPlan(r) \/ StartResolve(r) PROVE Hands' = Hands
  <2>1. r \in Writers /\ "decide" \notin jobs[r].todo
    BY <1>4, IdleIsOK DEF PatchPlan, StartResolve, Writers
  <2>2. \E job : Do(r, job) /\ "decide" \notin job.todo
    BY <1>4, PatchJob DEF StartResolve, Job
  <2> QED
    BY <2>1, <2>2, HandsMove
<1> QED
  BY <1>2, <1>3, <1>4 DEF Next, Writers

LEMMA LifecycleStep ==
  ASSUME IInv, HandsInv, AskInv, [Next]_vars
  PROVE  [Lifecycle!Next]_<<asked, Hands, Answered>>
<1>1. CASE UNCHANGED vars
  <2>1. Hands' = Hands /\ Answered' = Answered
    BY <1>1 DEF vars, Hands, Answered, QuestionOf
  <2> QED
    BY <1>1, <2>1 DEF vars
<1>2. CASE \E w \in Writers : PutEscalation(w)
  <2>1. PICK w \in Writers : PutEscalation(w)
    BY <1>2
  <2> DEFINE q == QuestionOf(jobs[w].row)
  <2>2. w \in Runners /\ jobs[w].row.plan \in Plans /\ jobs[w].row.by = w /\ q \notin asked
    BY <2>1, PutEscalationAsk
  <2>3. w \notin Reviewers /\ \E job : Do(w, job)
    BY <2>1, <2>2, DeskAssumption DEF PutEscalation, Advance
  <2>4. Hands' = Hands
    BY <2>3, HandsMove
  <2>5. asked' = asked \cup {q} /\ Answered' = Answered
    BY <2>1 DEF PutEscalation, Answered, QuestionOf
  <2>6. q \in Writers \X Plans
    BY <2>2 DEF QuestionOf
  <2> HIDE DEF q
  <2> QED
    BY <2>2, <2>4, <2>5, <2>6 DEF Lifecycle!Next, Lifecycle!Ask, Hands, Answered, q
<1>3. CASE \E r \in Reviewers : Decide(r)
  <2>1. PICK r \in Reviewers : Decide(r)
    BY <1>3
  <2> DEFINE row == jobs[r].row
  <2> DEFINE q == QuestionOf(row)
  <2>2. r \in Writers /\ "decide" \in jobs[r].todo /\ row \in Escalations
    BY <2>1 DEF Decide, At, Writers, IInv, TypeInv, JobsInv, JobOK, JobType
  <2>3. q \in Writers \X Plans
    BY <2>2, RowFields DEF QuestionOf
  <2>4. Hands' = Hands \ {<<r, q>>}
    BY <2>1, <2>2, HandsMove, IdleIsOK DEF Decide
  <2>5. <<r, q>> \in Hands
    BY <2>2 DEF Hands
  <2>6. <<r, q>> \notin Answered
    <3>1. \A a \in acks : a.by = r => QuestionOf(a.row) # q
      BY <2>2 DEF AskInv, InHand
    <3> QED
      BY <3>1 DEF Answered
  <2>7. Answered' = Answered \cup {<<r, q>>} /\ asked' = asked
    <3>1. acks' = acks \cup {[by |-> r, row |-> row]} /\ asked' = asked
      BY <2>1 DEF Decide
    <3> DEFINE a0 == [by |-> r, row |-> row]
    <3>2. <<a0.by, QuestionOf(a0.row)>> = <<r, q>>
      OBVIOUS
    <3>3. Answered' = {<<a.by, QuestionOf(a.row)>> : a \in acks'}
      BY DEF Answered, QuestionOf
    <3>4. acks' = acks \cup {a0}
      BY <3>1
    <3> HIDE DEF a0, q
    <3> QED
      BY <3>1, <3>2, <3>3, <3>4 DEF Answered
  <2> HIDE DEF q
  <2> QED
    BY <2>3, <2>4, <2>5, <2>6, <2>7 DEF Lifecycle!Next, Lifecycle!Answer, Hands, Answered
<1>4. CASE Next /\ acks' = acks /\ asked' = asked /\ ~ \E r \in Reviewers : Decide(r)
  <2>1. Answered' = Answered
    BY <1>4 DEF Answered, QuestionOf
  <2>2. CASE Hands' = Hands
    BY <1>4, <2>1, <2>2
  <2>3. CASE \E r \in Reviewers : LookUp(r)
    <3>1. PICK r \in Reviewers : LookUp(r)
      BY <2>3
    <3>2. PICK p \in Plans, s \in Status, job \in JobType : Copies(r, p, s, job)
      BY <3>1, CopyJob
    <3> DEFINE q == QuestionOf(escs[p])
    <3>3. QuestionOf(job.row) = q /\ q \in Writers \X Plans /\ escs[p] # NoRow
      BY <3>2, RowFields DEF QuestionOf, Copies
    <3>4. r \in Writers /\ "decide" \notin jobs[r].todo
      <4>1. "lookup" \in jobs[r].todo /\ r \in Writers /\ Shape(r, jobs[r])
        BY <3>1 DEF LookUp, At, Writers, HandsInv
      <4> QED
        BY <4>1 DEF Shape
    <3>5. Hands' = Hands \cup {<<r, q>>}
      BY <3>2, <3>3, <3>4, HandsMove DEF Copies
    <3>6. q \in asked /\ \A a \in acks : QuestionOf(a.row) # q
      BY <3>2, <3>3 DEF AskInv, Copies
    <3>7. \A x \in Reviewers : <<x, q>> \notin Answered
      BY <3>6 DEF Answered
    <3>8. \A t : <<r, t>> \notin Hands
      BY <3>4 DEF Hands
    <3> HIDE DEF q
    <3> QED
      BY <1>4, <2>1, <3>3, <3>5, <3>6, <3>7, <3>8
      DEF Lifecycle!Next, Lifecycle!TakeUp, Hands, Answered
  <2>4. CASE \E r \in Reviewers : JobEnds(r) /\ "decide" \in jobs[r].todo
    <3>1. PICK r \in Reviewers : JobEnds(r) /\ "decide" \in jobs[r].todo
      BY <2>4
    <3> DEFINE q == QuestionOf(jobs[r].row)
    <3>2. r \in Writers /\ jobs[r].row \in Escalations
      BY <3>1 DEF Writers, IInv, TypeInv, JobsInv, JobOK, JobType
    <3>3. q \in Writers \X Plans
      BY <3>2, RowFields DEF QuestionOf
    <3>4. Hands' = Hands \ {<<r, q>>}
      BY <3>1, <3>2, HandsMove, IdleIsOK DEF JobEnds
    <3>5. <<r, q>> \in Hands
      BY <3>1 DEF Hands
    <3> HIDE DEF q
    <3> QED
      BY <1>4, <2>1, <3>3, <3>4, <3>5 DEF Lifecycle!Next, Lifecycle!PutDown, Hands, Answered
  <2> QED
    BY <1>4, <2>2, <2>3, <2>4, QuietHands
<1> QED
  BY <1>1, <1>2, <1>3, <1>4, QuestionsChange

\* A question is asked once, whoever takes it up finds it undecided, and each reviewer
\* decides it at most once: for any number of runs and reviewers, over any plan ids,
\* whatever overlaps and wherever they stop.
THEOREM DeskImplementsLifecycle == Spec => ImplementsLifecycle
<1>1. Init => asked = {} /\ Hands = {} /\ Answered = {}
  <2> SUFFICES ASSUME Init PROVE asked = {} /\ Hands = {} /\ Answered = {}
    OBVIOUS
  <2>1. \A r \in Reviewers : jobs[r].todo = {}
    BY DeskAssumption DEF Init, Idle, Job, Writers
  <2>2. asked = {} /\ acks = {}
    BY DEF Init
  <2> QED
    BY <2>1, <2>2 DEF Hands, Answered
<1>2. Init => Lifecycle!Init
  BY <1>1 DEF Lifecycle!Init, Hands, Answered
<1>3. IInv /\ HandsInv /\ AskInv /\ [Next]_vars => [Lifecycle!Next]_<<asked, Hands, Answered>>
  BY LifecycleStep
<1> QED
  BY <1>2, <1>3, StoreInvariant, HandsInvariant, AskInvariant, PTL
  DEF Spec, ImplementsLifecycle, Lifecycle!Spec, Hands, Answered

(***************************************************************************)
(* Where no two writers overlapped: decisions                              *)
(***************************************************************************)

IsAnswerTo(row, question) == row \in {[question EXCEPT !.status = s] : s \in Status}

\* A decision in hand is about the question as it is shown; a question that
\* EscalationManager.create has let through meets none that is open.
TurnOK(job, rows, laps) ==
  job.row # NoRow /\ job.row.plan \notin laps =>
    /\ "decide" \in job.todo =>
         rows[job.row.plan].status = "open" /\ IsAnswerTo(job.row, rows[job.row.plan])
    /\ "escalation" \in job.todo /\ "check" \notin job.todo /\ job.row.via = "create" =>
         rows[job.row.plan].status # "open"

TurnInv == \A w \in Writers : TurnOK(jobs[w], escs, overlapped)

\* Only the writer with a job on a plan id changes its row of escalations.
LEMMA TurnStep ==
  ASSUME IInv, HandsInv, TurnInv, NEW w \in Writers, NEW job, Do(w, job),
         \A p \in Plans : escs'[p] # escs[p] => jobs[w].row # NoRow /\ jobs[w].row.plan = p,
         TurnOK(job, escs', overlapped')
  PROVE  TurnInv'
<1>1. /\ \A x \in Writers : jobs'[x] = IF x = w THEN job ELSE jobs[x]
      /\ overlapped \subseteq overlapped'
  BY OneJobMoves
<1>2. ASSUME NEW x \in Writers PROVE TurnOK(jobs'[x], escs', overlapped')
  <2>1. CASE x = w
    BY <1>1, <2>1
  <2>2. CASE x # w
    <3> SUFFICES ASSUME jobs[x].row # NoRow, jobs[x].row.plan \notin overlapped'
                 PROVE  TurnOK(jobs[x], escs', overlapped')
      BY <1>1, <2>2 DEF TurnOK
    <3>1. jobs[x].row.plan \in Plans
      BY RowFields DEF IInv, TypeInv, JobType
    <3>2. jobs[x].row.plan \notin overlapped
      BY <1>1
    <3>3. escs'[jobs[x].row.plan] = escs[jobs[x].row.plan]
      BY <2>2, <3>1, <3>2 DEF HandsInv, Apart
    <3> QED
      BY <3>2, <3>3 DEF TurnInv, TurnOK
  <2> QED
    BY <2>1, <2>2
<1> QED
  BY <1>2 DEF TurnInv

\* A commit that is not the check leaves its writer with less to be careful about.
LEMMA AdvanceTurn ==
  ASSUME IInv, HandsInv, TurnInv, NEW w \in Writers, NEW step \in {"plan", "findings"},
         At(w, step), Advance(w, step), escs' = escs
  PROVE  TurnInv'
<1> DEFINE job == [jobs[w] EXCEPT !.todo = @ \ {step}]
<1>1. Do(w, job) /\ job.row = jobs[w].row /\ job.todo = jobs[w].todo \ {step}
  BY AdvanceIsJob
<1> HIDE DEF job
<1>2. TurnOK(jobs[w], escs, overlapped) /\ overlapped \subseteq overlapped'
  BY <1>1, OneJobMoves DEF TurnInv
<1>3. TurnOK(job, escs', overlapped')
  BY <1>1, <1>2 DEF TurnOK
<1> QED
  BY <1>1, <1>3, TurnStep

LEMMA IdleTurn ==
  ASSUME IInv, HandsInv, TurnInv, NEW w \in Writers, Do(w, Idle),
         \A p \in Plans : escs'[p] # escs[p] => jobs[w].row # NoRow /\ jobs[w].row.plan = p
  PROVE  TurnInv'
<1>1. TurnOK(Idle, escs', overlapped')
  BY IdleIsOK DEF TurnOK
<1> QED
  BY <1>1, TurnStep

\* The row of escalations that a commit replaces.
LEMMA RowMoves ==
  ASSUME IInv, NEW w \in Writers, escs' = [escs EXCEPT ![jobs[w].row.plan] = jobs[w].row],
         NEW step \in {"escalation", "decide"}, At(w, step)
  PROVE  /\ jobs[w].row \in Escalations /\ jobs[w].row # NoRow /\ jobs[w].row.plan \in Plans
         /\ \A p \in Plans : escs'[p] = IF p = jobs[w].row.plan THEN jobs[w].row ELSE escs[p]
<1>1. jobs[w].row \in Escalations
  BY DEF At, IInv, TypeInv, JobsInv, JobOK, JobType
<1>2. jobs[w].row.plan \in Plans /\ jobs[w].row # NoRow
  BY <1>1, RowFields
<1> QED
  BY <1>1, <1>2 DEF IInv, TypeInv

LEMMA TurnInductive ==
  ASSUME IInv, HandsInv, TurnInv, [Next]_vars
  PROVE  TurnInv'
<1>1. ASSUME NEW w \in Writers, Commit(w) PROVE TurnInv'
  <2>1. CASE PutPlan(w)
    BY <2>1, AdvanceTurn DEF PutPlan
  <2>2. CASE PutFindings(w)
    BY <2>2, AdvanceTurn DEF PutFindings
  <2>3. CASE CheckEscalation(w)
    <3> DEFINE job == [jobs[w] EXCEPT !.todo = @ \ {"check"}]
    <3>1. /\ Do(w, job) /\ job.row = jobs[w].row /\ job.todo = jobs[w].todo \ {"check"}
          /\ "check" \in jobs[w].todo
      BY <2>3, AdvanceIsJob DEF CheckEscalation, At
    <3>2. escs' = escs /\ escs[jobs[w].row.plan].status # "open"
      BY <2>3 DEF CheckEscalation
    <3>3. "decide" \notin jobs[w].todo
      BY <3>1 DEF HandsInv, Shape
    <3> HIDE DEF job
    <3>4. TurnOK(job, escs', overlapped')
      BY <3>1, <3>2, <3>3 DEF TurnOK
    <3> QED
      BY <3>1, <3>2, <3>4, TurnStep
  <2>4. CASE PutEscalation(w)
    <3> DEFINE job == [jobs[w] EXCEPT !.todo = @ \ {"escalation"}]
    <3>1. /\ Do(w, job) /\ job.row = jobs[w].row /\ job.todo = jobs[w].todo \ {"escalation"}
          /\ "escalation" \in jobs[w].todo
      BY <2>4, AdvanceIsJob DEF PutEscalation, At
    <3>2. "decide" \notin jobs[w].todo
      BY <3>1 DEF HandsInv, Shape
    <3>3. \A p \in Plans : escs'[p] # escs[p] => jobs[w].row # NoRow /\ jobs[w].row.plan = p
      BY <2>4, RowMoves DEF PutEscalation
    <3> HIDE DEF job
    <3>4. TurnOK(job, escs', overlapped')
      BY <3>1, <3>2 DEF TurnOK
    <3> QED
      BY <3>1, <3>3, <3>4, TurnStep
  <2>5. CASE JobEnds(w)
    BY <2>5, IdleTurn DEF JobEnds
  <2> QED
    BY <1>1, <2>1, <2>2, <2>3, <2>4, <2>5 DEF Commit
<1>2. ASSUME NEW w \in Runners, RunEnds(w) PROVE TurnInv'
  <2>1. PICK s \in Surfaces, p \in Plans, v \in Versions, b \in Bodies,
             e \in BOOLEAN, f \in BOOLEAN :
          Do(w, Job(Writes(s, e, f), Row(p, v, b, w, IF s = "managed" THEN "create" ELSE "put")))
    BY <1>2 DEF RunEnds
  <2> DEFINE job == Job(Writes(s, e, f), Row(p, v, b, w, IF s = "managed" THEN "create" ELSE "put"))
  <2>2. /\ job.todo \subseteq {"plan", "findings", "check", "escalation"}
        /\ job.row.via = "create" /\ "escalation" \in job.todo => "check" \in job.todo
    BY RunJob
  <2>3. w \in Writers /\ escs' = escs
    BY <1>2 DEF Writers, RunEnds
  <2> HIDE DEF job
  <2>4. TurnOK(job, escs', overlapped')
    BY <2>2 DEF TurnOK
  <2> QED
    BY <2>1, <2>3, <2>4, TurnStep DEF job
<1>3. ASSUME NEW r \in Reviewers, PatchPlan(r) PROVE TurnInv'
  <2>1. PICK job \in JobType : Do(r, job) /\ job.todo = {"plan", "findings", "lookup"}
    BY <1>3, PatchJob
  <2>2. r \in Writers /\ escs' = escs /\ TurnOK(job, escs', overlapped')
    BY <1>3, <2>1 DEF Writers, PatchPlan, TurnOK
  <2> QED
    BY <2>1, <2>2, TurnStep
<1>4. ASSUME NEW r \in Reviewers, StartResolve(r) PROVE TurnInv'
  <2>1. /\ r \in Writers /\ escs' = escs /\ Do(r, Job({"lookup"}, NoRow))
        /\ TurnOK(Job({"lookup"}, NoRow), escs', overlapped')
    BY <1>4 DEF Writers, StartResolve, TurnOK, Job
  <2> QED
    BY <2>1, TurnStep
<1>5. ASSUME NEW r \in Reviewers, LookUp(r) PROVE TurnInv'
  <2>1. PICK p \in Plans, s \in Status, job \in JobType : Copies(r, p, s, job)
    BY <1>5, CopyJob
  <2>2. r \in Writers /\ escs' = escs
    BY <1>5 DEF Writers, LookUp
  <2>3. IsAnswerTo(job.row, escs[p])
    BY <2>1 DEF IsAnswerTo, Status, Copies
  <2>4. TurnOK(job, escs', overlapped')
    BY <2>1, <2>2, <2>3 DEF TurnOK, Copies
  <2> QED
    BY <2>1, <2>2, <2>4, TurnStep DEF Copies
<1>6. ASSUME NEW r \in Reviewers, Decide(r) PROVE TurnInv'
  <2>1. r \in Writers /\ Do(r, Idle) /\ At(r, "decide")
        /\ escs' = [escs EXCEPT ![jobs[r].row.plan] = jobs[r].row]
    BY <1>6 DEF Decide, Writers
  <2>2. \A p \in Plans : escs'[p] # escs[p] => jobs[r].row # NoRow /\ jobs[r].row.plan = p
    BY <2>1, RowMoves
  <2> QED
    BY <2>1, <2>2, IdleTurn
<1>7. CASE UNCHANGED vars
  BY <1>7 DEF vars, TurnInv
<1> QED
  BY <1>1, <1>2, <1>3, <1>4, <1>5, <1>6, <1>7 DEF Next, Writers

LEMMA TurnInvariant == Spec => []TurnInv
<1>1. Init => TurnInv
  <2> SUFFICES ASSUME Init PROVE TurnInv
    OBVIOUS
  <2>1. \A w \in Writers : jobs[w].row = NoRow
    BY DEF Init, Idle, Unstarted, Job
  <2> QED
    BY <2>1 DEF TurnInv, TurnOK
<1> QED
  BY <1>1, StoreInvariant, HandsInvariant, TurnInductive, PTL DEF Spec

\* Where no two writers overlapped on a plan id, a question only makes way for its own
\* decision or for a new question, and a decision only for a new question: for any
\* number of runs and reviewers on any plan ids, re-runs and stops included.
THEOREM DecisionsArePermanent == Spec => DecisionsStand
<1>1. ASSUME IInv, HandsInv, AskInv, TurnInv, Next, NEW p \in Plans, p \notin overlapped', escs'[p] # escs[p]
      PROVE  \/ /\ escs'[p].status = "open" /\ QuestionOf(escs'[p]) \notin asked
                /\ escs'[p].via = "create" => escs[p].status # "open"
             \/ escs[p].status = "open" /\ IsAnswerTo(escs'[p], escs[p])
  <2>1. CASE \E w \in Writers : PutEscalation(w)
    <3>1. PICK w \in Writers : PutEscalation(w)
      BY <2>1
    <3>2. /\ At(w, "escalation") /\ escs' = [escs EXCEPT ![jobs[w].row.plan] = jobs[w].row]
          /\ "escalation" \in jobs[w].todo /\ "check" \notin jobs[w].todo
          /\ Do(w, [jobs[w] EXCEPT !.todo = @ \ {"escalation"}])
      BY <3>1 DEF PutEscalation, At, Before, Advance
    <3>0. /\ jobs[w].row # NoRow
          /\ \A q \in Plans : escs'[q] = IF q = jobs[w].row.plan THEN jobs[w].row ELSE escs[q]
      BY <1>1, <3>2, RowMoves
    <3>3. p = jobs[w].row.plan /\ escs'[p] = jobs[w].row /\ jobs[w].row # NoRow
      BY <1>1, <3>0
    <3>4. p \notin overlapped
      BY <1>1, <3>2, OneJobMoves
    <3>5. jobs[w].row.via = "create" => escs[p].status # "open"
      BY <1>1, <3>2, <3>3, <3>4 DEF TurnInv, TurnOK
    <3> QED
      BY <1>1, <3>1, <3>3, <3>5, PutEscalationAsk
  <2>2. CASE \E r \in Reviewers : Decide(r)
    <3>1. PICK r \in Reviewers : Decide(r)
      BY <2>2
    <3>2. /\ At(r, "decide") /\ escs' = [escs EXCEPT ![jobs[r].row.plan] = jobs[r].row]
          /\ "decide" \in jobs[r].todo /\ r \in Writers
          /\ Do(r, Idle)
      BY <3>1 DEF Decide, At, Writers
    <3>0. /\ jobs[r].row # NoRow
          /\ \A q \in Plans : escs'[q] = IF q = jobs[r].row.plan THEN jobs[r].row ELSE escs[q]
      BY <1>1, <3>2, RowMoves
    <3>3. p = jobs[r].row.plan /\ escs'[p] = jobs[r].row /\ jobs[r].row # NoRow
      BY <1>1, <3>0
    <3>4. p \notin overlapped
      BY <1>1, <3>2, OneJobMoves
    <3> QED
      BY <1>1, <3>2, <3>3, <3>4 DEF TurnInv, TurnOK
  <2> QED
    BY <1>1, <2>1, <2>2, QuestionsChange
<1>2. IInv /\ HandsInv /\ AskInv /\ TurnInv /\ [Next]_vars =>
        [\A p \in Plans \ overlapped' : escs'[p] # escs[p] =>
           \/ /\ escs'[p].status = "open" /\ QuestionOf(escs'[p]) \notin asked
              /\ escs'[p].via = "create" => escs[p].status # "open"
           \/ escs[p].status = "open" /\ escs'[p] \in {[escs[p] EXCEPT !.status = s] : s \in Status}]_vars
  BY <1>1 DEF IsAnswerTo
<1> QED
  BY <1>2, StoreInvariant, HandsInvariant, AskInvariant, TurnInvariant, PTL DEF Spec, DecisionsStand

(***************************************************************************)
(* Where no two writers overlapped: findings                               *)
(***************************************************************************)

\* A writer between its two commits, about revision v of plan id p.
Between(w, p, v) == At(w, "findings") /\ jobs[w].row.plan = p /\ jobs[w].row.version = v
Sound == Plans \ (overlapped \cup partial)

\* A job that will store a plan will store its findings; between the two the plan is
\* what its writer stored; and only there the findings lag behind.
PairInv ==
  /\ \A w \in Writers : jobs[w].row # NoRow /\ jobs[w].row.plan \in Sound =>
       /\ "plan" \in jobs[w].todo => "findings" \in jobs[w].todo
       /\ At(w, "findings") => revs[jobs[w].row.plan][jobs[w].row.version] = jobs[w].row.about
  /\ \A p \in Sound, v \in Versions :
       findings[p][v] = revs[p][v] \/ \E w \in Writers : Between(w, p, v)

LEMMA SoundShrinks ==
  ASSUME IInv, NEW w \in Writers, NEW job, Do(w, job), partial \subseteq partial'
  PROVE  /\ Sound' \subseteq Sound
         /\ \A x \in Writers : jobs'[x] = IF x = w THEN job ELSE jobs[x]
  BY OneJobMoves DEF Sound

\* A step that stores neither plan nor findings.
LEMMA QuietPair ==
  ASSUME IInv, PairInv, NEW w \in Writers, NEW job, Do(w, job), partial \subseteq partial',
         UNCHANGED <<revs, findings>>,
         job.row # NoRow /\ job.row.plan \in Sound' =>
           /\ "plan" \in job.todo => "findings" \in job.todo
           /\ "findings" \in job.todo /\ "plan" \notin job.todo => At(w, "findings") /\ job.row = jobs[w].row,
         At(w, "findings") /\ jobs[w].row.plan \in Sound' =>
           "findings" \in job.todo /\ "plan" \notin job.todo /\ job.row = jobs[w].row
  PROVE  PairInv'
<1>1. Sound' \subseteq Sound /\ \A x \in Writers : jobs'[x] = IF x = w THEN job ELSE jobs[x]
  BY SoundShrinks
<1>2. \A x \in Writers : At(x, "findings")' <=> "findings" \in jobs'[x].todo /\ "plan" \notin jobs'[x].todo
  BY DEF At, Before
<1>3. \A x \in Writers : At(x, "findings") <=> "findings" \in jobs[x].todo /\ "plan" \notin jobs[x].todo
  BY DEF At, Before
<1>4. ASSUME NEW x \in Writers, jobs'[x].row # NoRow, jobs'[x].row.plan \in Sound'
      PROVE  /\ "plan" \in jobs'[x].todo => "findings" \in jobs'[x].todo
             /\ At(x, "findings")' => revs'[jobs'[x].row.plan][jobs'[x].row.version] = jobs'[x].row.about
  <2>1. CASE x = w
    BY <1>1, <1>2, <1>4, <2>1 DEF PairInv
  <2>2. CASE x # w
    BY <1>1, <1>2, <1>3, <1>4, <2>2 DEF PairInv
  <2> QED
    BY <2>1, <2>2
<1>5. ASSUME NEW p \in Sound', NEW v \in Versions, NEW x \in Writers, Between(x, p, v)
      PROVE  Between(x, p, v)'
  <2>1. CASE x = w
    BY <1>1, <1>2, <1>5, <2>1 DEF Between
  <2>2. CASE x # w
    BY <1>1, <1>2, <1>3, <1>5, <2>2 DEF Between
  <2> QED
    BY <2>1, <2>2
<1>6. ASSUME NEW p \in Sound', NEW v \in Versions
      PROVE  findings'[p][v] = revs'[p][v] \/ \E x \in Writers : Between(x, p, v)'
  BY <1>1, <1>5 DEF PairInv
<1> QED
  BY <1>4, <1>6 DEF PairInv

\* A plan goes in: its writer is now between its two commits.
LEMMA PutPlanPair ==
  ASSUME IInv, HandsInv, PairInv, NEW w \in Writers, PutPlan(w)
  PROVE  PairInv'
<1> DEFINE job == [jobs[w] EXCEPT !.todo = @ \ {"plan"}]
<1> DEFINE row == jobs[w].row
<1>1. /\ Do(w, job) /\ job.row = row /\ job.todo = jobs[w].todo \ {"plan"}
      /\ "plan" \in jobs[w].todo /\ row \in Escalations
  BY AdvanceIsJob DEF PutPlan, At
<1>2. row.plan \in Plans /\ row.version \in Versions /\ row # NoRow
  BY <1>1, RowFields
<1>3. /\ \A p \in Plans, v \in Versions :
           revs'[p][v] = IF p = row.plan /\ v = row.version THEN row.about ELSE revs[p][v]
      /\ findings' = findings /\ partial' = partial
  BY <1>2 DEF PutPlan, IInv, TypeInv, history
<1> HIDE DEF job
<1>4. Sound' \subseteq Sound /\ \A x \in Writers : jobs'[x] = IF x = w THEN job ELSE jobs[x]
  BY <1>1, <1>3, SoundShrinks
<1>5. \A x \in Writers : At(x, "findings")' <=> "findings" \in jobs'[x].todo /\ "plan" \notin jobs'[x].todo
  BY DEF At, Before
<1>6. \A x \in Writers : At(x, "findings") <=> "findings" \in jobs[x].todo /\ "plan" \notin jobs[x].todo
  BY DEF At, Before
<1>7. \A p \in Sound : p \in Plans /\ p \notin overlapped
  BY DEF Sound
<1>8. ASSUME NEW x \in Writers, x # w, jobs[x].row # NoRow, jobs[x].row.plan \in Sound
      PROVE  jobs[x].row.plan # row.plan
  BY <1>2, <1>7, <1>8 DEF HandsInv, Apart
<1> HIDE DEF row
<1>9. ASSUME NEW x \in Writers, jobs'[x].row # NoRow, jobs'[x].row.plan \in Sound'
      PROVE  /\ "plan" \in jobs'[x].todo => "findings" \in jobs'[x].todo
             /\ At(x, "findings")' => revs'[jobs'[x].row.plan][jobs'[x].row.version] = jobs'[x].row.about
  <2>1. CASE x = w
    BY <1>1, <1>2, <1>3, <1>4, <2>1
  <2>2. CASE x # w
    <3>1. /\ jobs'[x] = jobs[x] /\ jobs[x].row.plan \in Sound /\ jobs[x].row # NoRow
          /\ jobs[x].row.plan # row.plan /\ jobs[x].row.plan \in Plans
      BY <1>4, <1>7, <1>8, <1>9, <2>2
    <3>2. jobs[x].row.version \in Versions
      BY <3>1, RowFields DEF IInv, TypeInv, JobType
    <3> QED
      BY <1>3, <1>5, <1>6, <3>1, <3>2 DEF PairInv
  <2> QED
    BY <2>1, <2>2
<1>10. ASSUME NEW p \in Sound', NEW v \in Versions
       PROVE  findings'[p][v] = revs'[p][v] \/ \E x \in Writers : Between(x, p, v)'
  <2>1. p \in Sound /\ p \in Plans
    BY <1>4, <1>7
  <2>2. CASE p = row.plan /\ v = row.version
    <3>1. "findings" \in jobs[w].todo
      BY <1>1, <1>2, <2>1, <2>2 DEF PairInv, row
    <3>2. Between(w, p, v)'
      BY <1>1, <1>4, <1>5, <2>2, <3>1 DEF Between
    <3> QED
      BY <3>2
  <2>3. CASE ~ (p = row.plan /\ v = row.version)
    <3>1. revs'[p][v] = revs[p][v] /\ findings'[p][v] = findings[p][v]
      BY <1>3, <2>1, <2>3
    <3>2. ASSUME NEW x \in Writers, Between(x, p, v) PROVE Between(x, p, v)'
      <4>1. x # w
        BY <1>1, <1>6, <3>2 DEF Between
      <4> QED
        BY <1>4, <1>5, <1>6, <3>2, <4>1 DEF Between
    <3> QED
      BY <2>1, <3>1, <3>2 DEF PairInv
  <2> QED
    BY <2>2, <2>3
<1> QED
  BY <1>9, <1>10 DEF PairInv

\* The findings follow: they describe what the same writer stored.
LEMMA PutFindingsPair ==
  ASSUME IInv, HandsInv, PairInv, NEW w \in Writers, PutFindings(w)
  PROVE  PairInv'
<1> DEFINE job == [jobs[w] EXCEPT !.todo = @ \ {"findings"}]
<1> DEFINE row == jobs[w].row
<1>1. /\ Do(w, job) /\ job.row = row /\ job.todo = jobs[w].todo \ {"findings"}
      /\ At(w, "findings") /\ row \in Escalations
  BY AdvanceIsJob DEF PutFindings
<1>2. row.plan \in Plans /\ row.version \in Versions /\ row # NoRow
  BY <1>1, RowFields
<1>3. /\ \A p \in Plans, v \in Versions :
           findings'[p][v] = IF p = row.plan /\ v = row.version THEN row.about ELSE findings[p][v]
      /\ revs' = revs /\ partial' = partial
  BY <1>2 DEF PutFindings, IInv, TypeInv, history
<1>4. row.plan \in Sound => revs[row.plan][row.version] = row.about
  BY <1>1, <1>2 DEF PairInv
<1> HIDE DEF job
<1>5. Sound' \subseteq Sound /\ \A x \in Writers : jobs'[x] = IF x = w THEN job ELSE jobs[x]
  BY <1>1, <1>3, SoundShrinks
<1>6. \A x \in Writers : At(x, "findings")' <=> "findings" \in jobs'[x].todo /\ "plan" \notin jobs'[x].todo
  BY DEF At, Before
<1>7. \A x \in Writers : At(x, "findings") <=> "findings" \in jobs[x].todo /\ "plan" \notin jobs[x].todo
  BY DEF At, Before
<1>8. \A p \in Sound : p \in Plans
  BY DEF Sound
<1>9. ASSUME NEW x \in Writers, jobs'[x].row # NoRow, jobs'[x].row.plan \in Sound'
      PROVE  /\ "plan" \in jobs'[x].todo => "findings" \in jobs'[x].todo
             /\ At(x, "findings")' => revs'[jobs'[x].row.plan][jobs'[x].row.version] = jobs'[x].row.about
  <2>1. CASE x = w
    BY <1>1, <1>2, <1>3, <1>5, <1>6, <1>7, <2>1
  <2>2. CASE x # w
    BY <1>3, <1>5, <1>6, <1>7, <1>9, <2>2 DEF PairInv
  <2> QED
    BY <2>1, <2>2
<1>10. ASSUME NEW p \in Sound', NEW v \in Versions
       PROVE  findings'[p][v] = revs'[p][v] \/ \E x \in Writers : Between(x, p, v)'
  <2>1. p \in Sound /\ p \in Plans
    BY <1>5, <1>8
  <2>2. CASE p = row.plan /\ v = row.version
    BY <1>3, <1>4, <2>1, <2>2
  <2>3. CASE ~ (p = row.plan /\ v = row.version)
    <3>1. findings'[p][v] = findings[p][v] /\ revs' = revs
      BY <1>3, <2>1, <2>3
    <3>2. ASSUME NEW x \in Writers, Between(x, p, v) PROVE Between(x, p, v)'
      <4>1. x # w
        BY <2>3, <3>2 DEF Between
      <4> QED
        BY <1>5, <1>6, <1>7, <3>2, <4>1 DEF Between
    <3> QED
      BY <2>1, <3>1, <3>2 DEF PairInv
  <2> QED
    BY <2>2, <2>3
<1> QED
  BY <1>9, <1>10 DEF PairInv

LEMMA AdvancePair ==
  ASSUME IInv, PairInv, NEW w \in Writers, NEW step \in {"check", "escalation"},
         At(w, step), Advance(w, step), UNCHANGED <<revs, findings, partial>>
  PROVE  PairInv'
<1> DEFINE job == [jobs[w] EXCEPT !.todo = @ \ {step}]
<1>1. Do(w, job) /\ job.row = jobs[w].row /\ job.todo = jobs[w].todo \ {step}
  BY AdvanceIsJob
<1> HIDE DEF job
<1>2. At(w, "findings") <=> "findings" \in job.todo /\ "plan" \notin job.todo
  BY <1>1 DEF At, Before
<1>3. job.row # NoRow /\ job.row.plan \in Sound' =>
         ("plan" \in job.todo => "findings" \in job.todo)
  <2>1. "plan" \notin job.todo
    BY <1>1 DEF At, Before
  <2> QED
    BY <2>1
<1> QED
  BY <1>1, <1>2, <1>3, QuietPair

LEMMA PairInductive ==
  ASSUME IInv, HandsInv, PairInv, [Next]_vars
  PROVE  PairInv'
<1>1. ASSUME NEW w \in Writers, Commit(w) PROVE PairInv'
  <2>1. CASE PutPlan(w)
    BY <2>1, PutPlanPair
  <2>2. CASE PutFindings(w)
    BY <2>2, PutFindingsPair
  <2>3. CASE CheckEscalation(w)
    BY <2>3, AdvancePair DEF CheckEscalation, history
  <2>4. CASE PutEscalation(w)
    BY <2>4, AdvancePair DEF PutEscalation
  <2>5. CASE JobEnds(w)
    <3>1. Do(w, Idle) /\ partial \subseteq partial' /\ UNCHANGED <<revs, findings>>
      BY <2>5 DEF JobEnds
    <3>2. At(w, "findings") => jobs[w].row.plan \notin Sound'
      BY <2>5 DEF JobEnds, Sound
    <3> QED
      BY <3>1, <3>2, IdleIsOK, QuietPair
  <2> QED
    BY <1>1, <2>1, <2>2, <2>3, <2>4, <2>5 DEF Commit
<1>2. ASSUME NEW w \in Runners, RunEnds(w) PROVE PairInv'
  <2>1. PICK s \in Surfaces, p \in Plans, v \in Versions, b \in Bodies,
             e \in BOOLEAN, f \in BOOLEAN :
          /\ Do(w, Job(Writes(s, e, f), Row(p, v, b, w, IF s = "managed" THEN "create" ELSE "put")))
          /\ partial' = IF {"plan", "findings"} \subseteq Writes(s, e, f) THEN partial ELSE partial \cup {p}
    BY <1>2 DEF RunEnds
  <2> DEFINE job == Job(Writes(s, e, f), Row(p, v, b, w, IF s = "managed" THEN "create" ELSE "put"))
  <2>2. job.todo = Writes(s, e, f) /\ job.row.plan = p
    BY RunJob
  <2>3. w \in Writers /\ UNCHANGED <<revs, findings>> /\ ~ At(w, "findings")
    BY <1>2 DEF Writers, RunEnds, At, Unstarted, Job
  <2> HIDE DEF job
  <2>4. job.row.plan \in Sound' => "plan" \in job.todo /\ "findings" \in job.todo
    BY <2>1, <2>2 DEF Sound
  <2> QED
    BY <2>1, <2>3, <2>4, QuietPair DEF job
<1>3. ASSUME NEW r \in Reviewers, PatchPlan(r) PROVE PairInv'
  <2>1. PICK job \in JobType : Do(r, job) /\ job.todo = {"plan", "findings", "lookup"}
    BY <1>3, PatchJob
  <2>2. r \in Writers /\ UNCHANGED <<revs, findings, partial>> /\ ~ At(r, "findings")
    BY <1>3 DEF Writers, PatchPlan, history, At, Idle, Job
  <2> QED
    BY <2>1, <2>2, QuietPair
<1>4. ASSUME NEW r \in Reviewers, StartResolve(r) PROVE PairInv'
  <2>1. Job({"lookup"}, NoRow).todo = {"lookup"} /\ Do(r, Job({"lookup"}, NoRow))
    BY <1>4 DEF Job, StartResolve
  <2>2. r \in Writers /\ UNCHANGED <<revs, findings, partial>> /\ ~ At(r, "findings")
    BY <1>4 DEF Writers, StartResolve, history, At, Idle, Job
  <2> QED
    BY <2>1, <2>2, QuietPair
<1>5. ASSUME NEW r \in Reviewers, LookUp(r) PROVE PairInv'
  <2>1. PICK job \in JobType : Do(r, job) /\ job.todo = {"decide"}
    BY <1>5, CopyJob DEF Copies
  <2>2. r \in Writers /\ UNCHANGED <<revs, findings, partial>> /\ ~ At(r, "findings")
    BY <1>5 DEF Writers, LookUp, history, At, Before
  <2> QED
    BY <2>1, <2>2, QuietPair
<1>6. ASSUME NEW r \in Reviewers, Decide(r) PROVE PairInv'
  <2>1. r \in Writers /\ Do(r, Idle) /\ UNCHANGED <<revs, findings, partial>> /\ ~ At(r, "findings")
    BY <1>6 DEF Writers, Decide, At, Before
  <2> QED
    BY <2>1, IdleIsOK, QuietPair
<1>7. CASE UNCHANGED vars
  <2>1. \A w \in Writers : (At(w, "findings")' <=> At(w, "findings"))
          /\ \A p \in Plans, v \in Versions : Between(w, p, v)' <=> Between(w, p, v)
    BY <1>7 DEF vars, At, Between
  <2> QED
    BY <1>7, <2>1 DEF vars, PairInv, Sound
<1> QED
  BY <1>1, <1>2, <1>3, <1>4, <1>5, <1>6, <1>7 DEF Next, Writers

LEMMA PairInvariant == Spec => []PairInv
<1>1. Init => PairInv
  <2> SUFFICES ASSUME Init PROVE PairInv
    OBVIOUS
  <2>1. \A w \in Writers : jobs[w].row = NoRow
    BY DEF Init, Idle, Unstarted, Job
  <2>2. \A p \in Plans, v \in Versions : findings[p][v] = revs[p][v]
    BY DEF Init
  <2> QED
    BY <2>1, <2>2 DEF PairInv, Sound
<1> QED
  BY <1>1, StoreInvariant, HandsInvariant, PairInductive, PTL DEF Spec

\* A revision stored beside the findings of another body takes two writers at once, one
\* that stopped between its two commits, or one that stores only half; nothing else
\* does it, for any number of writers and re-runs.
THEOREM FindingsAreOfTheirRevision == Spec => []FindingsDescribeRevision
<1>1. PairInv => FindingsDescribeRevision
  BY DEF PairInv, Sound, Between, FindingsDescribeRevision
<1> QED
  BY <1>1, PairInvariant, PTL

=============================================================================
