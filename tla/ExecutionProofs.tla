--------------------------- MODULE ExecutionProofs ---------------------------
(***************************************************************************)
(* What holds of Execution for all tasks, plans, preconditions and probes, *)
(* every limit and any number of processes, however many tasks look alike; *)
(* where it says so, of the guards that answer by the verdict they hold.   *)
(***************************************************************************)
EXTENDS Execution, FiniteSetTheorems, TLAPS

\* The guards of the OpenAI Agents SDK and of PydanticAI return a cached result
\* whatever it says: with them NoToolWithoutApproval is violated.
JudgingGuards == "cached" \notin Kinds

Places == {"consult", "call", "gate", "run", "trace", "link", "judge", "replan", "relink",
           "charge", "done", "stopped", "down"}
InStep == {"gate", "run", "trace", "link", "judge"}

Steps == [task : Tasks \cup {"none"}, probes : Seq(Facts), stale : BOOLEAN,
          outcome : Outcomes \cup {"none", "blocked"}, moved : SUBSET Facts, fresh : BOOLEAN]

TypeInv ==
  /\ kind \in Kinds /\ result \in Results \cup {Nothing}
  /\ mode \in {"before-each-step", "off"} /\ policy \in {"patch", "restart", "abort"}
  /\ at \in Places /\ step \in Steps
  /\ done \subseteq Tasks /\ version \in Nat \ {0} /\ retries \in [Tasks -> Nat]
  /\ depth \in Nat /\ asks \in Nat /\ drifts \in Nat /\ age \in Nat
  /\ life \in 1..MaxLives /\ world \subseteq Facts
  /\ rows \subseteq Nat /\ IsFiniteSet(rows) /\ lineage \subseteq Nat
  /\ traces \in [1..MaxLives -> Nat] /\ links \in [1..MaxLives -> Nat]

\* A step that is under way has a task, and one that is over an outcome.
StepInv ==
  /\ at \in InStep => step.task \in Tasks
  /\ at \in {"trace", "link", "judge"} => step.outcome \in Outcomes \cup {"blocked"}

\* Whoever keeps only approved results holds one or nothing.  If guards judge, a step
\* that is gated or runs was admitted by an approval, which still stands.
ApprovalInv ==
  /\ kind \in {"hook", "interceptor"} => result = Nothing \/ IsApproved
  /\ JudgingGuards /\ at \in {"gate", "run"} => IsApproved

\* A precondition that was probed held then, unless the step is stale.
GateInv ==
  at \in {"gate", "run"} /\ mode # "off" =>
    /\ step.fresh
    /\ \A f \in Live : f \in ToSet(Needs[step.task]) =>
         f \in ToSet(step.probes) \/ step.stale \/ f \in world \/ f \in step.moved
    /\ at = "run" => step.probes = <<>> /\ ~step.stale

\* Only the process at hand has a trace that waits for its link.
TraceInv ==
  /\ \A l \in 1..MaxLives : links[l] = 0 /\ traces[l] <= 1 /\ (l > life => traces[l] = 0)
  /\ at = "link" => traces[life] = 1
  /\ traces[life] = 1 => at \in {"link", "down"}

\* The revision that is executed is stored once it was approved or came of a replan.
StoredInv ==
  /\ version > 1 \/ IsApproved => version \in rows
  /\ JudgingGuards /\ at \in InStep \cup {"replan", "relink", "charge"} => version \in rows
  /\ at \in {"relink", "charge"} => version + 1 \in rows
  /\ \A v \in lineage : v \in rows /\ (JudgingGuards => v - 1 \in rows)

Loose == {v \in rows : v > 1 /\ v \notin lineage}

\* A process leaves at most one revision loose: the one whose link it was about to
\* store.
LooseInv ==
  /\ at = "relink" => Cardinality(Loose \ {version + 1}) + 1 <= life
  /\ at = "down" => Cardinality(Loose) <= life
  /\ at \notin {"relink", "down"} => Cardinality(Loose) + 1 <= life

IInv == TypeInv /\ StepInv /\ ApprovalInv /\ GateInv /\ TraceInv /\ StoredInv /\ LooseInv

-----------------------------------------------------------------------------
\* Sequences and sets.

LEMMA ProbesLeft ==
  ASSUME NEW s \in Seq(Facts), s # <<>>
  PROVE  /\ ToSet(s) = {Head(s)} \cup ToSet(Tail(s))
         /\ Tail(s) \in Seq(Facts) /\ Head(s) \in Facts
<1>1. Len(s) \in Nat \ {0} /\ DOMAIN s = 1..Len(s)
  OBVIOUS
<1>2. /\ Tail(s) \in Seq(Facts) /\ Len(Tail(s)) = Len(s) - 1 /\ Head(s) = s[1]
      /\ \A i \in 1..Len(s) - 1 : Tail(s)[i] = s[i + 1]
  OBVIOUS
<1>3. DOMAIN Tail(s) = 1..Len(s) - 1
  BY <1>1, <1>2
<1>4. \A i \in 1..Len(s) : i = 1 \/ (i - 1 \in 1..Len(s) - 1 /\ s[i] = Tail(s)[i - 1])
  BY <1>1, <1>2
<1>5. \A i \in 1..Len(s) - 1 : i + 1 \in 1..Len(s)
  BY <1>1
<1>6. \A x : x \in ToSet(s) <=> \E i \in 1..Len(s) : x = s[i]
  BY <1>1 DEF ToSet
<1>7. \A x : x \in ToSet(Tail(s)) <=> \E i \in 1..Len(s) - 1 : x = Tail(s)[i]
  BY <1>3 DEF ToSet
<1>8. \A x : x \in ToSet(s) <=> x = Head(s) \/ x \in ToSet(Tail(s))
  <2>1. ASSUME NEW x \in ToSet(s) PROVE x = Head(s) \/ x \in ToSet(Tail(s))
    BY <1>2, <1>4, <1>6, <1>7
  <2>2. ASSUME NEW x \in ToSet(Tail(s)) PROVE x \in ToSet(s)
    BY <1>2, <1>5, <1>6, <1>7
  <2>3. Head(s) \in ToSet(s)
    BY <1>1, <1>2, <1>6
  <2> QED
    BY <2>1, <2>2, <2>3
<1> QED
  BY <1>2, <1>8

\* A guard that judges admits a call by an approval.
LEMMA AdmittedIsApproved ==
  ASSUME JudgingGuards, IInv, NEW t \in Tasks, Admits(t)
  PROVE  IsApproved
<1>1. kind # "cached"
  BY DEF JudgingGuards, IInv, TypeInv
<1>2. CASE kind = "interceptor" /\ Resembles[t] \cap result.plan # {}
  <2>1. result # Nothing
    BY <1>2 DEF Nothing
  <2> QED
    BY <1>2, <2>1 DEF IInv, ApprovalInv
<1> QED
  BY <1>1, <1>2 DEF Admits

-----------------------------------------------------------------------------
\* Steps, one after another.

LEMMA InitExecution == Init => IInv
<1> SUFFICES ASSUME Init PROVE IInv
  OBVIOUS
<1>1. NoStep \in Steps
  BY DEF NoStep, Steps
<1>2. TypeInv
  BY <1>1, FS_EmptySet, ExecutionAssumption DEF Init, TypeInv, Places
<1>3. Loose = {}
  BY DEF Init, Loose
<1>4. LooseInv
  BY <1>3, FS_EmptySet DEF Init, LooseInv
<1>5. StepInv /\ ApprovalInv /\ GateInv /\ StoredInv
  BY DEF Init, StepInv, ApprovalInv, GateInv, StoredInv, InStep, IsApproved, Nothing
<1>6. TraceInv
  BY ExecutionAssumption DEF Init, TraceInv
<1> QED
  BY <1>2, <1>4, <1>5, <1>6 DEF IInv

\* The trail after a step that stores nothing and neither begins nor ends a pair of
\* commits.
LEMMA TrailStays ==
  ASSUME IInv, UNCHANGED <<store, version, life>>, IsApproved' => IsApproved,
         at \notin {"link", "relink", "charge", "down"},
         at' \in Places \ {"link", "relink", "charge", "down"},
         JudgingGuards /\ at' \in InStep \cup {"replan"} => version \in rows
  PROVE  TraceInv' /\ StoredInv' /\ LooseInv'
<1>1. UNCHANGED <<rows, lineage, traces, links>> /\ Loose' = Loose
  BY DEF store, Loose
<1>2. TraceInv'
  BY <1>1 DEF IInv, TraceInv
<1>3. StoredInv'
  BY <1>1 DEF IInv, StoredInv
<1>4. LooseInv'
  BY <1>1 DEF IInv, LooseInv
<1> QED
  BY <1>2, <1>3, <1>4

LEMMA PlanStep ==
  ASSUME IInv, NEW r \in Results, Plan(r)
  PROVE  IInv'
<1>1. /\ at = "consult" /\ at' = "call" /\ result' = Kept(r)
      /\ UNCHANGED <<kind, mode, policy, step, done, version, retries, depth, asks>>
      /\ UNCHANGED <<lineage, traces, links, world, drifts, life>>
  BY DEF Plan, Consult, process
<1>2. /\ r.status = "approved" => rows' = rows \cup {version} /\ age' = 0
      /\ r.status # "approved" => UNCHANGED <<rows, age>>
  BY DEF Plan
<1>3. result' \in Results \cup {Nothing} /\ (IsApproved' => r.status = "approved")
  BY <1>1 DEF Kept, Nothing, IsApproved
<1>4. kind \in {"hook", "interceptor"} => result' = Nothing \/ IsApproved'
  BY <1>1 DEF Kept, IsApproved
<1>5. rows' \subseteq Nat /\ IsFiniteSet(rows') /\ rows \subseteq rows'
  <2>1. CASE r.status = "approved"
    <3>1. rows' = rows \cup {version} /\ IsFiniteSet(rows \cup {version})
      BY <1>2, <2>1, FS_AddElement DEF IInv, TypeInv
    <3> QED
      BY <3>1 DEF IInv, TypeInv
  <2>2. CASE r.status # "approved"
    BY <1>2, <2>2 DEF IInv, TypeInv
  <2> QED
    BY <2>1, <2>2
<1>6. TypeInv'
  <2>1. age' \in Nat
    BY <1>2 DEF IInv, TypeInv
  <2> QED
    BY <1>1, <1>3, <1>5, <2>1 DEF IInv, TypeInv, Places
<1>7. StepInv' /\ ApprovalInv' /\ GateInv' /\ TraceInv'
  BY <1>1, <1>4 DEF IInv, StepInv, ApprovalInv, GateInv, TraceInv, InStep
<1>8. StoredInv'
  BY <1>1, <1>2, <1>3, <1>5 DEF IInv, StoredInv, InStep
<1>9. Loose' = Loose
  \* A revision after the first is stored already.
  <2>1. version > 1 => version \in rows
    BY DEF IInv, StoredInv
  <2> QED
    BY <1>1, <1>2, <2>1 DEF Loose
<1>10. LooseInv'
  BY <1>1, <1>9 DEF IInv, LooseInv
<1> QED
  BY <1>6, <1>7, <1>8, <1>10 DEF IInv

LEMMA TryAgainStep ==
  ASSUME IInv, at \in {"consult", "call"}, NEW next \in {"consult", "call"}, TryAgain(next)
  PROVE  IInv'
<1>1. /\ at' \in {"consult", "call", "stopped"} /\ asks' = asks + 1
      /\ UNCHANGED <<kind, result, mode, policy, step, done, version, retries, depth>>
      /\ UNCHANGED <<store, age, world, drifts, life>>
  BY DEF TryAgain, guard, env
<1>2. TypeInv'
  BY <1>1 DEF IInv, TypeInv, Places, store
<1>3. StepInv' /\ ApprovalInv' /\ GateInv'
  BY <1>1 DEF IInv, StepInv, ApprovalInv, GateInv, InStep, IsApproved
<1>4. IsApproved' => IsApproved
  BY <1>1 DEF IsApproved
<1> QED
  BY <1>1, <1>2, <1>3, <1>4, TrailStays DEF IInv, Places, InStep

\* A call is admitted by an approval, so that its plan is stored.
LEMMA CallStep ==
  ASSUME IInv, NEW t \in Tasks, Call(t)
  PROVE  IInv'
<1>1. /\ at = "call" /\ at' \in {"run", "replan", "gate"} /\ Admits(t)
      /\ mode = "off" => at' = "run"
      /\ mode # "off" => at' = IF Stale THEN "replan" ELSE "gate"
      /\ UNCHANGED <<kind, result, mode, policy, done, version, retries, depth, asks>>
      /\ UNCHANGED <<store, age, world, drifts, life>>
  BY DEF Call, guard, process, env
<1>2. JudgingGuards => IsApproved
  BY <1>1, AdmittedIsApproved
<1>3. Needs[t] \in Seq(Facts)
  BY ExecutionAssumption
<1>4. /\ step' = [NoStep EXCEPT !.task = t, !.probes = Needs[t], !.fresh = ~Stale]
  BY DEF Call
<1>5. /\ step' \in Steps /\ step'.task = t /\ step'.probes = Needs[t] /\ step'.fresh = ~Stale
  BY <1>3, <1>4 DEF NoStep, Steps, Stale
<1>6. TypeInv'
  BY <1>1, <1>5 DEF IInv, TypeInv, Places, store
<1>7. StepInv' /\ ApprovalInv' /\ GateInv'
  BY <1>1, <1>2, <1>5 DEF IInv, StepInv, ApprovalInv, GateInv, InStep, IsApproved
<1>8. JudgingGuards => version \in rows
  BY <1>2 DEF IInv, StoredInv
<1>9. IsApproved' => IsApproved
  BY <1>1 DEF IsApproved
<1> QED
  BY <1>1, <1>6, <1>7, <1>8, <1>9, TrailStays DEF IInv, Places

LEMMA ProbeStep ==
  ASSUME IInv, Probe
  PROVE  IInv'
<1>1. /\ at = "gate" /\ step.probes # <<>> /\ step \in Steps
      /\ UNCHANGED <<kind, result, mode, policy, at, done, version, retries, depth, asks>>
      /\ UNCHANGED <<store, age, world, drifts, life>>
  BY DEF Probe, guard, process, env, IInv, TypeInv
<1>2. PICK matched \in Observed(Head(step.probes)) : step' = AfterProbe(matched)
  BY DEF Probe
<1>3. step.probes \in Seq(Facts) /\ Head(step.probes) \in Facts /\ Tail(step.probes) \in Seq(Facts)
  BY <1>1, ProbesLeft DEF Steps
<1>4. matched \in BOOLEAN /\ (Head(step.probes) \in Live /\ matched => Head(step.probes) \in world)
  BY DEF Observed
<1>5. /\ step' \in Steps /\ step'.task = step.task /\ step'.probes = Tail(step.probes)
      /\ step'.stale = (step.stale \/ ~matched) /\ step'.moved = step.moved
      /\ step'.fresh = step.fresh /\ step'.outcome = step.outcome
  BY <1>1, <1>2, <1>3, <1>4 DEF AfterProbe, Steps
<1>6. TypeInv'
  BY <1>1, <1>5 DEF IInv, TypeInv, Places, store
<1>7. StepInv' /\ ApprovalInv'
  BY <1>1, <1>5 DEF IInv, StepInv, ApprovalInv, InStep, IsApproved
<1>8. GateInv'
  <2> SUFFICES ASSUME mode # "off", NEW f \in Live, f \in ToSet(Needs[step.task])
               PROVE  f \in ToSet(Tail(step.probes)) \/ step.stale \/ ~matched
                      \/ f \in world \/ f \in step.moved
    BY <1>1, <1>5 DEF IInv, GateInv
  <2>1. f \in ToSet(step.probes) \/ step.stale \/ f \in world \/ f \in step.moved
    BY <1>1 DEF IInv, GateInv
  <2>2. ToSet(step.probes) = {Head(step.probes)} \cup ToSet(Tail(step.probes))
    BY <1>1, <1>3, ProbesLeft
  <2> QED
    BY <1>4, <2>1, <2>2
<1>9. IsApproved' => IsApproved
  BY <1>1 DEF IsApproved
<1>10. JudgingGuards => version \in rows
  BY <1>1 DEF IInv, StoredInv, InStep
<1> QED
  BY <1>1, <1>6, <1>7, <1>8, <1>9, <1>10, TrailStays DEF IInv, Places

LEMMA GateEndsStep ==
  ASSUME IInv, GateEnds
  PROVE  IInv'
<1>1. /\ at = "gate" /\ at' \in {"trace", "run"} /\ step.probes = <<>> /\ step \in Steps
      /\ UNCHANGED <<kind, result, mode, policy, done, version, retries, depth, asks>>
      /\ UNCHANGED <<store, age, world, drifts, life>>
  BY DEF GateEnds, guard, process, env, IInv, TypeInv
<1>2. \/ step.stale /\ at' = "trace" /\ step' = [NoStep EXCEPT !.task = step.task, !.outcome = "blocked"]
      \/ ~step.stale /\ at' = "run" /\ step' = step
  BY DEF GateEnds
<1>3. /\ step' \in Steps /\ step'.task = step.task
      /\ at' = "trace" => step'.outcome = "blocked"
  BY <1>1, <1>2 DEF NoStep, Steps
<1>4. TypeInv'
  BY <1>1, <1>3 DEF IInv, TypeInv, Places, store
<1>5. StepInv' /\ ApprovalInv'
  BY <1>1, <1>3 DEF IInv, StepInv, ApprovalInv, InStep, IsApproved
<1>6. GateInv'
  BY <1>1, <1>2 DEF IInv, GateInv
<1>7. (JudgingGuards => version \in rows) /\ (IsApproved' => IsApproved)
  BY <1>1 DEF IInv, StoredInv, InStep, IsApproved
<1> QED
  BY <1>1, <1>4, <1>5, <1>6, <1>7, TrailStays DEF IInv, Places

LEMMA StepEndsStep ==
  ASSUME IInv, NEW o \in Outcomes, StepEnds(o)
  PROVE  IInv'
<1>1. /\ at = "run" /\ at' = "trace" /\ step \in Steps
      /\ step' = [NoStep EXCEPT !.task = step.task, !.outcome = o]
      /\ UNCHANGED <<kind, result, mode, policy, done, version, retries, depth, asks>>
      /\ UNCHANGED <<store, age, world, drifts, life>>
  BY DEF StepEnds, guard, process, env, IInv, TypeInv
<1>2. step' \in Steps /\ step'.task = step.task /\ step'.outcome = o
  <2>1. step' = [task |-> step.task, probes |-> <<>>, stale |-> FALSE, outcome |-> o,
                 moved |-> {}, fresh |-> TRUE]
    BY <1>1 DEF NoStep
  <2>2. step.task \in Tasks \cup {"none"}
    BY <1>1 DEF Steps
  <2> QED
    BY <2>1, <2>2 DEF Steps
<1>3. TypeInv'
  BY <1>1, <1>2 DEF IInv, TypeInv, Places, store
<1>4. StepInv' /\ ApprovalInv' /\ GateInv'
  BY <1>1, <1>2 DEF IInv, StepInv, ApprovalInv, GateInv, InStep, IsApproved
<1>5. (JudgingGuards => version \in rows) /\ (IsApproved' => IsApproved)
  BY <1>1 DEF IInv, StoredInv, InStep, IsApproved
<1> QED
  BY <1>1, <1>3, <1>4, <1>5, TrailStays DEF IInv, Places

LEMMA PutTraceStep ==
  ASSUME IInv, PutTrace
  PROVE  IInv'
<1>1. /\ at = "trace" /\ at' = "link" /\ traces' = [traces EXCEPT ![life] = @ + 1]
      /\ UNCHANGED <<kind, result, mode, policy, step, done, version, retries, depth, asks>>
      /\ UNCHANGED <<rows, lineage, links, age, world, drifts, life>>
  BY DEF PutTrace, guard, process, env
<1>2. TypeInv'
  <2>1. traces' \in [1..MaxLives -> Nat]
    BY <1>1 DEF IInv, TypeInv
  <2> QED
    BY <1>1, <2>1 DEF IInv, TypeInv, Places
<1>3. StepInv' /\ ApprovalInv' /\ GateInv'
  BY <1>1 DEF IInv, StepInv, ApprovalInv, GateInv, InStep, IsApproved
<1>4. traces[life] = 0 /\ life \in 1..MaxLives
  BY <1>1 DEF IInv, TypeInv, TraceInv
<1>5. \A l \in 1..MaxLives : traces'[l] = IF l = life THEN 1 ELSE traces[l]
  BY <1>1, <1>4 DEF IInv, TypeInv
<1>6. TraceInv'
  BY <1>1, <1>4, <1>5, ExecutionAssumption DEF IInv, TypeInv, TraceInv
<1>7. StoredInv' /\ LooseInv'
  BY <1>1 DEF IInv, StoredInv, LooseInv, Loose, InStep, IsApproved
<1> QED
  BY <1>2, <1>3, <1>6, <1>7 DEF IInv

\* The link names the trace that was just stored.
LEMMA LinkStep ==
  ASSUME IInv, Link
  PROVE  IInv'
<1>1. /\ at = "link" /\ at' = "judge"
      /\ UNCHANGED <<kind, result, mode, policy, step, done, version, retries, depth, asks>>
      /\ UNCHANGED <<rows, lineage, age, world, drifts, life>>
  BY DEF Link, guard, process, env
<1>2. traces[life] = 1 /\ life \in 1..MaxLives
  BY <1>1 DEF IInv, TypeInv, TraceInv
<1>3. traces' = [traces EXCEPT ![life] = @ - 1] /\ links' = links
  BY <1>2 DEF Link
<1>4. \A l \in 1..MaxLives : traces'[l] = IF l = life THEN 0 ELSE traces[l]
  BY <1>2, <1>3 DEF IInv, TypeInv
<1>5. traces' \in [1..MaxLives -> Nat]
  BY <1>2, <1>3 DEF IInv, TypeInv
<1>6. TypeInv'
  BY <1>1, <1>3, <1>5 DEF IInv, TypeInv, Places
<1>7. StepInv' /\ ApprovalInv' /\ GateInv'
  BY <1>1 DEF IInv, StepInv, ApprovalInv, GateInv, InStep, IsApproved
<1>8. TraceInv'
  BY <1>1, <1>2, <1>3, <1>4 DEF IInv, TraceInv
<1>9. StoredInv' /\ LooseInv'
  BY <1>1 DEF IInv, StoredInv, LooseInv, Loose, InStep, IsApproved
<1> QED
  BY <1>6, <1>7, <1>8, <1>9 DEF IInv

LEMMA JudgeStep ==
  ASSUME IInv, Judge
  PROVE  IInv'
<1>1. /\ at = "judge" /\ step' = NoStep
      /\ UNCHANGED <<kind, result, mode, policy, version, depth, asks>>
      /\ UNCHANGED <<store, age, world, drifts, life>>
  BY DEF Judge, guard, env
<1>2. /\ step \in Steps /\ step.task \in Tasks /\ step.outcome \in Outcomes \cup {"blocked"}
  BY <1>1 DEF IInv, TypeInv, StepInv, InStep
<1>3. Classify.class \in Outcomes /\ Classify.count \in Nat
  BY <1>2 DEF Classify, Outcomes, IInv, TypeInv
<1>4. \A class \in Outcomes \cup {"blocked"} : Follows[class] \in {"consult", "call", "replan", "stopped"}
  BY DEF Follows, NextCall, Outcomes
<1>5. at' \in {"consult", "call", "replan", "stopped"}
  BY <1>2, <1>3, <1>4 DEF Judge
<1>6. retries' \in [Tasks -> Nat] /\ done' \subseteq Tasks
  BY <1>2, <1>3 DEF Judge, IInv, TypeInv
<1>7. NoStep \in Steps
  BY DEF NoStep, Steps
<1>8. TypeInv'
  BY <1>1, <1>5, <1>6, <1>7 DEF IInv, TypeInv, Places, store
<1>9. StepInv' /\ ApprovalInv' /\ GateInv'
  BY <1>1, <1>5 DEF IInv, StepInv, ApprovalInv, GateInv, InStep, IsApproved
<1>10. (JudgingGuards => version \in rows) /\ (IsApproved' => IsApproved)
  BY <1>1 DEF IInv, StoredInv, InStep, IsApproved
<1> QED
  BY <1>1, <1>5, <1>8, <1>9, <1>10, TrailStays DEF IInv, Places

LEMMA CompleteStep ==
  ASSUME IInv, Complete
  PROVE  IInv'
<1>1. /\ at = "call" /\ at' = "done"
      /\ UNCHANGED <<kind, result, mode, policy, step, done, version, retries, depth, asks>>
      /\ UNCHANGED <<store, age, world, drifts, life>>
  BY DEF Complete, guard, process, env
<1>2. TypeInv'
  BY <1>1 DEF IInv, TypeInv, Places, store
<1>3. StepInv' /\ ApprovalInv' /\ GateInv' /\ (IsApproved' => IsApproved)
  BY <1>1 DEF IInv, StepInv, ApprovalInv, GateInv, InStep, IsApproved
<1> QED
  BY <1>1, <1>2, <1>3, TrailStays DEF IInv, Places, InStep

LEMMA ReplanFailsStep ==
  ASSUME IInv, ReplanFails
  PROVE  IInv'
<1>1. /\ at = "replan" /\ at' = "stopped"
      /\ UNCHANGED <<kind, result, mode, policy, step, done, version, retries, depth, asks>>
      /\ UNCHANGED <<store, age, world, drifts, life>>
  BY DEF ReplanFails, guard, process, env
<1>2. TypeInv'
  BY <1>1 DEF IInv, TypeInv, Places, store
<1>3. StepInv' /\ ApprovalInv' /\ GateInv' /\ (IsApproved' => IsApproved)
  BY <1>1 DEF IInv, StepInv, ApprovalInv, GateInv, InStep, IsApproved
<1> QED
  BY <1>1, <1>2, <1>3, TrailStays DEF IInv, Places, InStep

\* A replan stores a revision; it is loose until its link is stored, and until then the
\* process counts it as the one it may leave.
LEMMA ReplanStep ==
  ASSUME IInv, Replan
  PROVE  IInv'
<1>1. /\ at = "replan" /\ at' = "relink" /\ rows' = rows \cup {version + 1}
      /\ UNCHANGED <<kind, result, mode, policy, step, done, version, retries, depth, asks>>
      /\ UNCHANGED <<lineage, traces, links, age, world, drifts, life>>
  BY DEF Replan, guard, process, env
<1>2. rows' \subseteq Nat /\ IsFiniteSet(rows')
  <2>1. rows \subseteq Nat /\ IsFiniteSet(rows) /\ version + 1 \in Nat
    BY DEF IInv, TypeInv
  <2>2. IsFiniteSet(rows \cup {version + 1})
    BY <2>1, FS_AddElement
  <2> QED
    BY <1>1, <2>1, <2>2
<1>3. TypeInv'
  BY <1>1, <1>2 DEF IInv, TypeInv, Places
<1>4. StepInv' /\ ApprovalInv' /\ GateInv' /\ TraceInv'
  BY <1>1 DEF IInv, StepInv, ApprovalInv, GateInv, TraceInv, InStep, IsApproved
<1>5. StoredInv'
  BY <1>1 DEF IInv, StoredInv, InStep, IsApproved
<1>6. (Loose \ {version + 1})' = Loose \ {version + 1}
  BY <1>1 DEF Loose
<1>7. Cardinality(Loose \ {version + 1}) <= Cardinality(Loose) /\ Cardinality(Loose) \in Nat
      /\ Cardinality(Loose \ {version + 1}) \in Nat
  <2>1. IsFiniteSet(Loose)
    BY FS_Subset DEF Loose, IInv, TypeInv
  <2> QED
    BY <2>1, FS_Subset, FS_CardinalityType
<1>8. LooseInv'
  <2>1. life \in Nat /\ Cardinality(Loose) + 1 <= life
    BY <1>1, ExecutionAssumption DEF IInv, TypeInv, LooseInv
  <2>2. Cardinality(Loose \ {version + 1}) + 1 <= life
    BY <1>7, <2>1
  <2> QED
    BY <1>1, <1>6, <2>2 DEF LooseInv
<1> QED
  BY <1>3, <1>4, <1>5, <1>8 DEF IInv

LEMMA PutReplanLinkStep ==
  ASSUME IInv, PutReplanLink
  PROVE  IInv'
<1>1. /\ at = "relink" /\ at' = "charge" /\ lineage' = lineage \cup {version + 1}
      /\ UNCHANGED <<kind, result, mode, policy, step, done, version, retries, depth, asks>>
      /\ UNCHANGED <<rows, traces, links, age, world, drifts, life>>
  BY DEF PutReplanLink, guard, process, env
<1>2. TypeInv'
  BY <1>1 DEF IInv, TypeInv, Places
<1>3. StepInv' /\ ApprovalInv' /\ GateInv' /\ TraceInv'
  BY <1>1 DEF IInv, StepInv, ApprovalInv, GateInv, TraceInv, InStep, IsApproved
<1>4. (JudgingGuards => version \in rows) /\ version + 1 \in rows /\ version \in Nat
  BY <1>1 DEF IInv, TypeInv, StoredInv
<1>5. version + 1 - 1 = version
  BY <1>4
<1>6. StoredInv'
  BY <1>1, <1>4, <1>5 DEF IInv, StoredInv, InStep, IsApproved
<1>7. Loose' = Loose \ {version + 1}
  BY <1>1 DEF Loose
<1>8. LooseInv'
  BY <1>1, <1>7 DEF IInv, LooseInv
<1> QED
  BY <1>2, <1>3, <1>6, <1>8 DEF IInv

LEMMA ChargeStep ==
  ASSUME IInv, Charge
  PROVE  IInv'
<1>1. /\ at = "charge" /\ at' \in {"stopped", "consult"} /\ depth' = depth + 1
      /\ UNCHANGED <<kind, mode, policy, step, retries, asks>>
      /\ UNCHANGED <<rows, lineage, traces, links, age, world, drifts, life>>
      /\ result' \in {result, Nothing} /\ version' \in {version, version + 1}
      /\ done' \in {done, {}} /\ Loose' = Loose
  BY DEF Charge, guard, store, env, Renew, Loose
<1>2. version + 1 \in rows /\ version \in Nat \ {0} /\ (version > 1 => version \in rows)
  BY <1>1 DEF IInv, TypeInv, StoredInv
<1>3. TypeInv'
  BY <1>1, <1>2 DEF IInv, TypeInv, Places
<1>4. StepInv' /\ ApprovalInv' /\ GateInv' /\ TraceInv'
  BY <1>1 DEF IInv, StepInv, ApprovalInv, GateInv, TraceInv, InStep, IsApproved
<1>5. StoredInv'
  <2>1. version' > 1 \/ IsApproved' => version' \in rows
    <3>1. CASE version' = version + 1
      BY <1>2, <3>1
    <3>2. CASE version' = version
      <4>1. IsApproved' => IsApproved
        BY <1>1 DEF IsApproved, Nothing
      <4> QED
        BY <3>2, <4>1 DEF IInv, StoredInv
    <3> QED
      BY <1>1, <3>1, <3>2
  <2> QED
    BY <1>1, <2>1 DEF IInv, StoredInv, InStep
<1>6. LooseInv'
  BY <1>1 DEF IInv, LooseInv
<1> QED
  BY <1>3, <1>4, <1>5, <1>6 DEF IInv

LEMMA StopStep ==
  ASSUME IInv, Stop
  PROVE  IInv'
<1>1. /\ at # "down" /\ at' = "down"
      /\ UNCHANGED <<kind, result, mode, policy, step, done, version, retries, depth, asks>>
      /\ UNCHANGED <<rows, lineage, traces, links, age, world, drifts, life>>
  BY DEF Stop, guard, process, store, env
<1>2. TypeInv'
  BY <1>1 DEF IInv, TypeInv, Places
<1>3. StepInv' /\ ApprovalInv' /\ GateInv' /\ TraceInv'
  BY <1>1 DEF IInv, StepInv, ApprovalInv, GateInv, TraceInv, InStep, IsApproved
<1>4. StoredInv'
  BY <1>1 DEF IInv, StoredInv, InStep, IsApproved
<1>5. IsFiniteSet(Loose)
  BY FS_Subset DEF Loose, IInv, TypeInv
<1>6. Cardinality(Loose) \in Nat /\ Loose' = Loose
  BY <1>1, <1>5, FS_CardinalityType DEF Loose
<1>7. CASE at = "relink"
  <2>1. Cardinality(Loose \ {version + 1}) + 1 >= Cardinality(Loose)
    BY <1>5, <1>6, FS_RemoveElement
  <2>2. Cardinality(Loose \ {version + 1}) \in Nat
    BY <1>5, FS_Subset, FS_CardinalityType
  <2> QED
    BY <1>1, <1>2, <1>3, <1>4, <1>6, <1>7, <2>1, <2>2 DEF IInv, TypeInv, LooseInv
<1>8. CASE at # "relink"
  BY <1>1, <1>2, <1>3, <1>4, <1>6, <1>8 DEF IInv, TypeInv, LooseInv
<1> QED
  BY <1>7, <1>8

\* The next process starts over: nothing is held, nothing waits for a link.
LEMMA RestartStep ==
  ASSUME IInv, Restart
  PROVE  IInv'
<1>1. /\ at = "down" /\ at' = "consult" /\ life < MaxLives /\ life' = life + 1
      /\ result' = Nothing /\ step' = NoStep /\ done' = {} /\ version' = 1
      /\ retries' = [t \in Tasks |-> 0] /\ depth' = 0 /\ asks' = 0
      /\ UNCHANGED <<kind, mode, policy, rows, lineage, traces, links, age, world, drifts>>
  BY DEF Restart, Renew, store
<1>2. NoStep \in Steps /\ life \in 1..MaxLives /\ life' \in 1..MaxLives /\ Loose' = Loose
  BY <1>1, ExecutionAssumption DEF NoStep, Steps, IInv, TypeInv, Loose
<1>3. TypeInv'
  BY <1>1, <1>2 DEF IInv, TypeInv, Places
<1>4. StepInv' /\ ApprovalInv' /\ GateInv'
  BY <1>1 DEF StepInv, ApprovalInv, GateInv, InStep
<1>5. TraceInv'
  BY <1>1, <1>2, ExecutionAssumption DEF IInv, TraceInv
<1>6. StoredInv'
  BY <1>1 DEF IInv, StoredInv, InStep, IsApproved, Nothing
<1>7. Cardinality(Loose) \in Nat
  BY FS_Subset, FS_CardinalityType DEF Loose, IInv, TypeInv
<1>8. LooseInv'
  BY <1>1, <1>2, <1>7 DEF IInv, LooseInv
<1> QED
  BY <1>3, <1>4, <1>5, <1>6, <1>8 DEF IInv

\* A fact that changes while a step is gated or runs has moved since its gate began.
LEMMA DriftStep ==
  ASSUME IInv, NEW f \in Facts, Drift(f)
  PROVE  IInv'
<1>1. /\ drifts' = drifts + 1 /\ step \in Steps
      /\ world' = IF f \in world THEN world \ {f} ELSE world \cup {f}
      /\ UNCHANGED <<kind, result, mode, policy, at, done, version, retries, depth, asks>>
      /\ UNCHANGED <<rows, lineage, traces, links, age, life>>
  BY DEF Drift, guard, process, store, IInv, TypeInv
<1>2. /\ step' \in Steps /\ step'.task = step.task /\ step'.outcome = step.outcome
      /\ step'.probes = step.probes /\ step'.stale = step.stale /\ step'.fresh = step.fresh
      /\ at \in {"gate", "run"} => step'.moved = step.moved \cup {f}
  <2>1. CASE at \in {"gate", "run"}
    <3>1. step' = [step EXCEPT !.moved = @ \cup {f}]
      BY <2>1 DEF Drift
    <3> QED
      BY <1>1, <3>1 DEF Steps
  <2>2. CASE at \notin {"gate", "run"}
    BY <1>1, <2>2 DEF Drift
  <2> QED
    BY <2>1, <2>2
<1>3. TypeInv'
  BY <1>1, <1>2 DEF IInv, TypeInv
<1>4. StepInv' /\ ApprovalInv' /\ TraceInv' /\ StoredInv' /\ LooseInv'
  BY <1>1, <1>2 DEF IInv, StepInv, ApprovalInv, TraceInv, StoredInv, LooseInv, Loose, InStep,
     IsApproved
<1>5. GateInv'
  BY <1>1, <1>2 DEF IInv, GateInv
<1> QED
  BY <1>3, <1>4, <1>5 DEF IInv

LEMMA TickStep ==
  ASSUME IInv, Tick
  PROVE  IInv'
<1>1. /\ age' \in {age, age + 1}
      /\ UNCHANGED <<kind, result, mode, policy, at, step, done, version, retries, depth, asks>>
      /\ UNCHANGED <<rows, lineage, traces, links, world, drifts, life>>
  BY DEF Tick, guard, process, store
<1>2. TypeInv'
  BY <1>1 DEF IInv, TypeInv
<1> QED
  BY <1>1, <1>2 DEF IInv, StepInv, ApprovalInv, GateInv, TraceInv, StoredInv, LooseInv, Loose,
     InStep, IsApproved

LEMMA ExecutionInductive ==
  ASSUME IInv, [Next]_vars
  PROVE  IInv'
<1>1. ASSUME PlanRaises PROVE IInv'
  BY <1>1, TryAgainStep DEF PlanRaises
<1>2. ASSUME NEW t \in Tasks, Refused(t) PROVE IInv'
  BY <1>2, TryAgainStep DEF Refused
<1>3. ASSUME NEW t \in Tasks, UnknownTask(t) PROVE IInv'
  BY <1>3, TryAgainStep DEF UnknownTask
<1>4. CASE Turn
  BY <1>1, <1>2, <1>3, <1>4, PlanStep, CallStep, ProbeStep, GateEndsStep, StepEndsStep,
     PutTraceStep, LinkStep, JudgeStep, CompleteStep, ReplanStep, ReplanFailsStep,
     PutReplanLinkStep, ChargeStep DEF Turn
<1>5. CASE UNCHANGED vars
  BY <1>5 DEF vars, guard, process, store, env, IInv, TypeInv, StepInv, ApprovalInv, GateInv,
     TraceInv, StoredInv, LooseInv, Loose, IsApproved
<1> QED
  BY <1>4, <1>5, StopStep, RestartStep, DriftStep, TickStep DEF Next

LEMMA ExecutionInvariant == Spec => []IInv
<1>1. IInv /\ [Next]_vars => IInv'
  BY ExecutionInductive
<1> QED
  BY <1>1, InitExecution, PTL DEF Spec

\* Whatever the agent tries, however plans resemble each other, and after any number of
\* refusals, replans and restarts: a guard that judges lets no tool run without an
\* approval.
THEOREM NoToolRunsUnapproved ==
  ASSUME JudgingGuards
  PROVE  Spec => []NoToolWithoutApproval
<1>1. IInv => NoToolWithoutApproval
  BY DEF IInv, ApprovalInv, NoToolWithoutApproval
<1> QED
  BY <1>1, ExecutionInvariant, PTL

\* However many preconditions a step has and whatever their probes answer, and with a
\* guard that caches too: a gated step that runs had an approval that was still fresh,
\* and a precondition that does not hold has changed since.
THEOREM TheGateIsSound == Spec => []GateIsSound
<1>1. IInv => GateIsSound
  <2> SUFFICES ASSUME IInv, at = "run", mode # "off"
               PROVE  /\ step.fresh
                      /\ \A f \in Live : f \in ToSet(Needs[step.task]) => f \in world \/ f \in step.moved
    BY DEF GateIsSound
  <2>1. ToSet(<<>>) = {}
    BY DEF ToSet
  <2> QED
    BY <2>1 DEF IInv, GateInv
<1> QED
  BY <1>1, ExecutionInvariant, PTL

\* Whatever number of processes follow each other over one store, and wherever each of
\* them stops: each leaves at most one trace and one revision without its link.
THEOREM TheTrailIsComplete ==
  ASSUME JudgingGuards
  PROVE  Spec => []TrailIsComplete
<1>1. IInv => TrailIsComplete
  <2> SUFFICES ASSUME IInv PROVE TrailIsComplete
    OBVIOUS
  <2>1. life \in Nat /\ IsFiniteSet(Loose)
    BY FS_Subset, ExecutionAssumption DEF IInv, TypeInv, Loose
  <2>2. Cardinality(Loose) + (IF at \in {"relink", "down"} THEN 0 ELSE 1) <= life
    <3>1. /\ Cardinality(Loose) \in Nat
          /\ Cardinality(Loose \ {version + 1}) + 1 >= Cardinality(Loose)
          /\ Cardinality(Loose \ {version + 1}) \in Nat
      BY <2>1, FS_RemoveElement, FS_Subset, FS_CardinalityType
    <3> QED
      BY <2>1, <3>1 DEF IInv, LooseInv
  <2> QED
    BY <2>2 DEF IInv, TraceInv, StoredInv, TrailIsComplete, Loose
<1> QED
  BY <1>1, ExecutionInvariant, PTL

=============================================================================
