--------------------------- MODULE MigrationsProofs ---------------------------
(***************************************************************************)
(* For any number of migrations, processes and failures: the ledger of the *)
(* migrations is true as long as nobody reverts, and the migrations are    *)
(* reversible as long as nobody gets in between.                           *)
(***************************************************************************)
EXTENDS Migrations, TLAPS

Procs ==
  [at : {"idle", "up", "record", "down", "unrecord", "opened", "failed"},
   version : Targets, part : 1..Parts, target : Targets]

\* What a process in the middle of an upgrade knows: the versions below its own are
\* recorded, the statements before its own have run.
ProcOK(state) ==
  /\ state \in Procs
  /\ state.at \notin {"down", "unrecord"}
  /\ state.at \in {"up", "record"} =>
       state.version # 0 /\ \A u \in Versions : u < state.version => u \in ledger
  /\ state.at = "up" =>
       \A k \in 1..Parts : k < state.part => k \in objects[state.version]
  /\ state.at = "record" => Complete(state.version)
  /\ state.at = "opened" => \A u \in Versions : u <= state.target => u \in ledger

TablesInv ==
  /\ ledger \subseteq Versions
  /\ objects \in [Versions -> SUBSET (1..Parts)]
  /\ failures \in 0..MaxFailures

ProcsInv ==
  /\ proc \in [Processes -> Procs]
  /\ \A p \in Processes : ProcOK(proc[p])

IInv == ~mayRevert /\ TablesInv /\ LedgerHolds /\ ProcsInv

\* Or somebody reverts, and nothing is claimed.
UpgradeInv == mayRevert \in BOOLEAN /\ (mayRevert \/ IInv)

\* Without reverts nothing leaves the ledger or the schema.
Grows == ledger \subseteq ledger' /\ \A v \in Versions : objects[v] \subseteq objects'[v]

LEMMA Naturals1 == SchemaVersion \in Nat \ {0} /\ Parts \in Nat \ {0} /\ MaxFailures \in Nat
  BY MigrationsAssumption DEF MigrationsAssumption

\* A process in order stays so while the ledger and the schema grow.
LEMMA GrowthKeepsProc ==
  ASSUME NEW state, ProcOK(state), Grows, TablesInv'
  PROVE  /\ state \in Procs
         /\ state.at \notin {"down", "unrecord"}
         /\ state.at \in {"up", "record"} =>
              state.version # 0 /\ \A u \in Versions : u < state.version => u \in ledger'
         /\ state.at = "up" =>
              \A k \in 1..Parts : k < state.part => k \in objects'[state.version]
         /\ state.at = "record" => objects'[state.version] = 1..Parts
         /\ state.at = "opened" => \A u \in Versions : u <= state.target => u \in ledger'
<1>1. state.at \in {"up", "record"} => state.version \in Versions
  BY Naturals1 DEF ProcOK, Procs, Targets, Versions
<1> QED
  BY <1>1 DEF ProcOK, Grows, TablesInv, Complete

\* What a step must show: that it only adds, and that the process that acts and
\* the ledger are in order.
LEMMA StepIInv ==
  ASSUME IInv, mayRevert' = mayRevert, Grows, TablesInv', NEW p \in Processes, NEW state, Become(p, state),
         ProcOK(proc[p])', LedgerHolds', state \in Procs
  PROVE  IInv'
<1>1. proc' \in [Processes -> Procs] /\ \A q \in Processes : q # p => proc'[q] = proc[q]
  BY DEF IInv, ProcsInv, Become
<1>2. ASSUME NEW q \in Processes PROVE ProcOK(proc[q])'
  <2>1. CASE q = p
    BY <2>1
  <2>2. CASE q # p
    <3>1. proc'[q] = proc[q] /\ ProcOK(proc[q])
      BY <1>1, <2>2 DEF IInv, ProcsInv
    <3> QED
      BY <3>1, GrowthKeepsProc DEF ProcOK, Complete
  <2> QED
    BY <2>1, <2>2
<1> QED
  BY <1>1, <1>2 DEF IInv, ProcsInv

\* A step that leaves the ledger and the schema alone.
LEMMA QuietStep ==
  ASSUME IInv, NEW p \in Processes, NEW state, Become(p, state), ProcOK(state),
         UNCHANGED <<ledger, objects, mayRevert>>, failures' \in 0..MaxFailures
  PROVE  IInv'
<1>1. Grows /\ TablesInv' /\ LedgerHolds'
  BY DEF Grows, IInv, TablesInv, LedgerHolds, Complete
<1>2. state \in Procs /\ proc'[p] = state
  BY DEF ProcOK, IInv, ProcsInv, Become
<1>3. ProcOK(proc[p])'
  BY <1>2 DEF ProcOK, Complete
<1> QED
  BY <1>1, <1>2, <1>3, StepIInv

\* Where the loop of apply_migrations goes on from.
LEMMA UpwardIsProc ==
  ASSUME NEW v \in Targets, NEW target \in Targets, v <= target
  PROVE  /\ Upward(v, target) \in Procs
         /\ v < target => Upward(v, target) = Proc("up", v + 1, 1, target) /\ v + 1 \in Versions
         /\ v >= target => Upward(v, target) = Proc("opened", v, 1, target)
  BY Naturals1 DEF Upward, Proc, Procs, Targets, Versions

LEMMA UpwardOK ==
  ASSUME NEW v \in Targets, NEW target \in Targets, v <= target, TablesInv,
         \A u \in Versions : u <= v => u \in ledger
  PROVE  ProcOK(Upward(v, target))
<1>1. CASE v < target
  <2>1. Upward(v, target) = Proc("up", v + 1, 1, target) /\ v + 1 \in Versions
    BY <1>1, UpwardIsProc
  <2>2. \A u \in Versions : u < v + 1 => u <= v
    BY Naturals1 DEF Versions, Targets
  <2> QED
    BY <2>1, <2>2, UpwardIsProc DEF ProcOK, Proc, Versions
<1>2. CASE v >= target
  <2>1. Upward(v, target) = Proc("opened", v, 1, target)
    BY <1>2, UpwardIsProc
  <2>2. \A u \in Versions : u <= target => u <= v
    BY <1>2, Naturals1 DEF Versions, Targets
  <2> QED
    BY <2>1, <2>2, UpwardIsProc DEF ProcOK, Proc
<1> QED
  BY <1>1, <1>2 DEF Targets

LEMMA RestOK ==
  ASSUME NEW target \in Targets
  PROVE  ProcOK(Proc("failed", 0, 1, target)) /\ ProcOK(Idle)
  BY Naturals1 DEF ProcOK, Proc, Procs, Idle, Targets

LEMMA InitIInv == Init /\ ~mayRevert => IInv
<1> SUFFICES ASSUME Init, ~mayRevert PROVE IInv
  OBVIOUS
<1>1. TablesInv /\ LedgerHolds
  BY Naturals1 DEF Init, TablesInv, LedgerHolds
<1>2. Idle \in Procs /\ ProcOK(Idle)
  <2>1. 0 \in Targets
    BY Naturals1 DEF Targets
  <2> QED
    BY <2>1, RestOK DEF ProcOK
<1> QED
  BY <1>1, <1>2 DEF Init, IInv, ProcsInv

LEMMA StartUpStep ==
  ASSUME IInv, NEW p \in Processes, NEW target \in Targets, StartUp(p, target)
  PROVE  IInv'
<1>1. PICK v \in Targets :
        /\ IsCurrent(v)
        /\ Become(p, IF target < v THEN Proc("failed", 0, 1, target) ELSE Upward(v, target))
  BY DEF StartUp
<1>2. \A u \in Versions : u <= v => u \in ledger
  <2> SUFFICES ASSUME NEW u \in Versions, u <= v PROVE u \in ledger
    OBVIOUS
  <2>1. v \in ledger /\ v \in Nat /\ u \in Nat
    BY <1>1 DEF IsCurrent, Versions, Targets
  <2> QED
    BY <2>1 DEF IInv, LedgerHolds
<1>3. CASE target < v
  BY <1>1, <1>3, RestOK, QuietStep DEF StartUp, Starts, IInv, TablesInv
<1>4. CASE ~(target < v)
  <2>1. ProcOK(Upward(v, target))
    BY <1>2, <1>4, UpwardOK DEF IInv, Targets
  <2> QED
    BY <1>1, <1>4, <2>1, QuietStep DEF StartUp, Starts, IInv, TablesInv
<1> QED
  BY <1>3, <1>4

LEMMA CreateObjectStep ==
  ASSUME IInv, NEW p \in Processes, CreateObject(p)
  PROVE  IInv'
<1> DEFINE v == proc[p].version
<1> DEFINE k == proc[p].part
<1> DEFINE state == IF k < Parts THEN [proc[p] EXCEPT !.part = k + 1]
                                 ELSE [proc[p] EXCEPT !.at = "record"]
<1>1. /\ proc[p] \in Procs /\ ProcOK(proc[p]) /\ proc[p].at = "up"
      /\ v \in Versions /\ k \in 1..Parts
  BY DEF CreateObject, IInv, ProcsInv, ProcOK, Procs, Targets, Versions
<1>2. /\ objects' = [objects EXCEPT ![v] = @ \cup {k}] /\ Become(p, state)
      /\ ledger' = ledger /\ failures' = failures /\ mayRevert' = mayRevert
  BY DEF CreateObject
<1>3. TablesInv' /\ Grows
  BY <1>1, <1>2 DEF IInv, TablesInv, Grows
<1>4. LedgerHolds'
  <2> SUFFICES ASSUME NEW x \in ledger'
               PROVE  objects'[x] = 1..Parts /\ \A u \in Versions : u < x => u \in ledger'
    BY DEF LedgerHolds, Complete
  <2>1. x \in ledger /\ x \in Versions /\ LedgerHolds
    BY <1>2 DEF IInv, TablesInv
  <2>2. objects[x] = 1..Parts /\ objects[x] \subseteq objects'[x] /\ objects'[x] \subseteq 1..Parts
    BY <1>3, <2>1 DEF LedgerHolds, Complete, Grows, TablesInv
  <2>3. \A u \in Versions : u < x => u \in ledger'
    BY <1>2, <2>1 DEF LedgerHolds
  <2> QED
    BY <2>2, <2>3
<1>5. state \in Procs
  BY <1>1, Naturals1 DEF Procs
<1>6. proc'[p] = state
  BY <1>2 DEF Become, IInv, ProcsInv
<1>7. ProcOK(proc[p])'
  <2>1. \A i \in 1..Parts : i < k + 1 => i \in objects'[v]
    <3> SUFFICES ASSUME NEW i \in 1..Parts, i < k + 1 PROVE i \in objects'[v]
      OBVIOUS
    <3>1. i < k \/ i = k
      BY <1>1
    <3> QED
      BY <1>1, <1>2, <3>1 DEF ProcOK, IInv, TablesInv
  <2>2. CASE k < Parts
    BY <1>1, <1>2, <1>5, <1>6, <2>1, <2>2 DEF ProcOK, Procs
  <2>3. CASE ~(k < Parts)
    <3>1. k = Parts
      BY <1>1, <2>3, Naturals1
    <3>2. objects'[v] \subseteq 1..Parts
      BY <1>1, <1>3 DEF TablesInv
    <3>3. \A i \in 1..Parts : i < k + 1
      BY <3>1, Naturals1
    <3>4. objects'[v] = 1..Parts
      BY <2>1, <3>2, <3>3
    <3> QED
      BY <1>1, <1>2, <1>5, <1>6, <2>3, <3>4 DEF ProcOK, Procs, Complete
  <2> QED
    BY <2>2, <2>3
<1> HIDE DEF state
<1> QED
  BY <1>2, <1>3, <1>4, <1>5, <1>7, StepIInv

LEMMA RecordStep ==
  ASSUME IInv, NEW p \in Processes, Record(p)
  PROVE  IInv'
<1> DEFINE v == proc[p].version
<1> DEFINE target == proc[p].target
<1>1. /\ proc[p] \in Procs /\ ProcOK(proc[p]) /\ proc[p].at = "record"
      /\ v \in Versions /\ v \in Targets /\ target \in Targets /\ Complete(v)
      /\ \A u \in Versions : u < v => u \in ledger
  BY DEF Record, IInv, ProcsInv, ProcOK, Procs, Targets, Versions
<1>2. CASE v \in ledger
  BY <1>1, <1>2, RestOK, QuietStep DEF Record, IInv, TablesInv
<1>3. CASE v \notin ledger
  <2>1. /\ ledger' = ledger \cup {v} /\ Become(p, Upward(v, target))
        /\ objects' = objects /\ failures' = failures /\ mayRevert' = mayRevert
    BY <1>3 DEF Record
  <2>2. TablesInv' /\ Grows
    BY <1>1, <2>1 DEF IInv, TablesInv, Grows
  <2>3. LedgerHolds'
    BY <1>1, <2>1 DEF IInv, LedgerHolds, Complete
  <2>4. proc'[p] = Upward(v, target)
    BY <2>1 DEF Become, IInv, ProcsInv
  <2>5. \A u \in Versions : u <= v => u \in ledger'
    BY <1>1, <2>1 DEF Versions
  <2>6. ProcOK(proc[p])' /\ Upward(v, target) \in Procs
    <3>1. CASE v < target
      <4>1. /\ Upward(v, target) = Proc("up", v + 1, 1, target) /\ v + 1 \in Versions
            /\ Upward(v, target) \in Procs
        BY <1>1, <3>1, UpwardIsProc DEF Targets
      <4>2. \A u \in Versions : u < v + 1 => u \in ledger'
        BY <1>1, <2>5 DEF Versions
      <4> QED
        BY <2>4, <4>1, <4>2 DEF ProcOK, Proc, Versions
    <3>2. CASE ~(v < target)
      <4>1. Upward(v, target) = Proc("opened", v, 1, target)
        BY <3>2 DEF Upward
      <4>2. \A u \in Versions : u <= target => u \in ledger'
        BY <1>1, <2>5, <3>2 DEF Versions, Targets
      <4>3. Upward(v, target) \in Procs
        BY <1>1, <4>1, Naturals1 DEF Proc, Procs
      <4> QED
        BY <2>4, <4>1, <4>2, <4>3 DEF ProcOK, Proc
    <3> QED
      BY <3>1, <3>2
  <2> QED
    BY <2>1, <2>2, <2>3, <2>6, StepIInv
<1> QED
  BY <1>2, <1>3

\* Without reverts no process ever drops anything.
LEMMA NoDownStep ==
  ASSUME IInv, NEW p \in Processes
  PROVE  ~DropObject(p) /\ ~Unrecord(p)
  BY DEF IInv, ProcsInv, ProcOK, DropObject, Unrecord

LEMMA FailStep ==
  ASSUME IInv, NEW p \in Processes, Fail(p)
  PROVE  IInv'
<1>1. proc[p].target \in Targets
  BY DEF IInv, ProcsInv, Procs
<1>2. failures' \in 0..MaxFailures
  BY Naturals1 DEF Fail, IInv, TablesInv
<1> QED
  BY <1>1, <1>2, RestOK, QuietStep DEF Fail

LEMMA CloseStep ==
  ASSUME IInv, NEW p \in Processes, Close(p)
  PROVE  IInv'
<1>1. 0 \in Targets
  BY Naturals1 DEF Targets
<1> QED
  BY <1>1, RestOK, QuietStep DEF Close, IInv, TablesInv

LEMMA UpgradeStep ==
  ASSUME IInv, [Next]_vars
  PROVE  IInv'
<1>1. ASSUME NEW p \in Processes, Migrate(p) \/ Fail(p) \/ Close(p) PROVE IInv'
  BY <1>1, CreateObjectStep, RecordStep, NoDownStep, FailStep, CloseStep DEF Migrate
<1>2. ASSUME NEW p \in Processes, NEW target \in Targets,
             StartUp(p, target) \/ StartDown(p, target)
      PROVE  IInv'
  BY <1>2, StartUpStep DEF StartDown, IInv
<1>3. CASE UNCHANGED vars
  BY <1>3 DEF vars, IInv, TablesInv, LedgerHolds, ProcsInv, ProcOK, Complete
<1> QED
  BY <1>1, <1>2, <1>3 DEF Next

\* Whether anybody reverts is settled from the start.
LEMMA RegimeStep == [Next]_vars => mayRevert' = mayRevert
  BY DEF Next, Migrate, CreateObject, Record, DropObject, Unrecord, Fail, Close,
         StartUp, StartDown, Starts, vars

\* The inductive invariant of the upgrades.
THEOREM UpgradeInvariant == Spec => []UpgradeInv
<1>1. Init => UpgradeInv
  BY InitIInv DEF UpgradeInv, Init
<1>2. UpgradeInv /\ [Next]_vars => UpgradeInv'
  BY UpgradeStep, RegimeStep DEF UpgradeInv
<1> QED
  BY <1>1, <1>2, PTL DEF Spec

\* Unless somebody reverts, the ledger never claims a schema that is not there, for
\* any number of migrations, processes and failures.
THEOREM LedgerStaysTrue == Spec => []LedgerIsTrue
<1>1. UpgradeInv => LedgerIsTrue
  BY DEF UpgradeInv, IInv, LedgerIsTrue
<1> QED
  BY <1>1, UpgradeInvariant, PTL

\* Unless somebody reverts, a store that opened has its whole schema.
THEOREM OpenedStoreHasSchema == Spec => []SchemaExistsOnOpen
<1>1. UpgradeInv => SchemaExistsOnOpen
  BY DEF UpgradeInv, IInv, ProcsInv, ProcOK, LedgerHolds, SchemaExistsOnOpen
<1> QED
  BY <1>1, UpgradeInvariant, PTL

-----------------------------------------------------------------------------
\* Ups and downs, one process at a time.

Rests(state) == state.at \in {"idle", "opened", "failed"}
Tidy(v) == IF v \in ledger THEN Complete(v) ELSE objects[v] = {}
LedgerIsPrefix == \A v \in ledger : \A u \in Versions : u < v => u \in ledger

\* The ledger and the objects of the version a process is at, statement by statement.
WorkOK(state) ==
  /\ state.at \in {"up", "record"} =>
       state.version \notin ledger /\ \A u \in Versions : u < state.version => u \in ledger
  /\ state.at \in {"down", "unrecord"} =>
       state.version \in ledger /\ \A u \in ledger : u <= state.version
  /\ state.at = "up" => objects[state.version] = 1..(state.part - 1)
  /\ state.at = "record" => objects[state.version] = 1..Parts
  /\ state.at = "down" => objects[state.version] = state.part..Parts
  /\ state.at = "unrecord" => objects[state.version] = {}

SoloInv ==
  /\ LedgerIsPrefix
  /\ \A p, q \in Processes : ~Rests(proc[p]) /\ ~Rests(proc[q]) => p = q
  /\ \A p \in Processes : WorkOK(proc[p])
  /\ \A v \in Versions :
       (\A p \in Processes : ~Rests(proc[p]) => proc[p].version # v) => Tidy(v)

RevertInv ==
  /\ ledger \subseteq Versions /\ objects \in [Versions -> SUBSET (1..Parts)]
  /\ proc \in [Processes -> Procs] /\ alone \in BOOLEAN
  /\ \A p \in Processes : ~Rests(proc[p]) => proc[p].version \in Versions
  /\ alone => SoloInv

\* A step of a process beside which all others rest.
LEMMA SoloStep ==
  ASSUME RevertInv, NEW p \in Processes, NEW state \in Procs, Become(p, state),
         alone' \in BOOLEAN, ~Rests(state) => state.version \in Versions,
         ledger' \subseteq Versions, objects' \in [Versions -> SUBSET (1..Parts)],
         alone' => /\ \A q \in Processes : q # p => Rests(proc[q])
                   /\ LedgerIsPrefix' /\ WorkOK(state)'
                   /\ \A v \in Versions : (~Rests(state) => state.version # v) => Tidy(v)'
  PROVE  RevertInv'
<1>1. proc' \in [Processes -> Procs] /\ proc'[p] = state
      /\ \A q \in Processes : q # p => proc'[q] = proc[q]
  BY DEF RevertInv, Become
<1>2. ASSUME alone' PROVE SoloInv'
  <2>1. \A q \in Processes : q # p => Rests(proc[q]) /\ proc'[q] = proc[q]
    BY <1>1, <1>2
  <2>2. LedgerIsPrefix'
    BY <1>2
  <2>3. ASSUME NEW q \in Processes PROVE WorkOK(proc[q])'
    <3>1. CASE q = p
      <4>1. proc'[q] = state /\ WorkOK(state)'
        BY <1>1, <1>2, <3>1
      <4> QED
        BY <4>1 DEF WorkOK, Rests
    <3>2. CASE q # p
      <4>1. Rests(proc'[q])
        BY <2>1, <3>2
      <4> QED
        BY <4>1 DEF WorkOK, Rests
    <3> QED
      BY <3>1, <3>2
  <2>4. ASSUME NEW q \in Processes, NEW r \in Processes, ~Rests(proc'[q]), ~Rests(proc'[r])
        PROVE  q = r
    BY <2>1, <2>4
  <2>5. ASSUME NEW v \in Versions, \A q \in Processes : ~Rests(proc'[q]) => proc'[q].version # v
        PROVE  Tidy(v)'
    BY <1>1, <1>2, <2>5
  <2> QED
    BY <2>2, <2>3, <2>4, <2>5 DEF SoloInv, Rests
<1> QED
  BY <1>1, <1>2 DEF RevertInv, Rests

LEMMA StartAlone ==
  ASSUME RevertInv, NEW p \in Processes, NEW target \in Targets,
         StartUp(p, target) \/ StartDown(p, target)
  PROVE  RevertInv'
<1>1. PICK v, state :
        /\ v \in Targets /\ IsCurrent(v) /\ Become(p, state)
        /\ \/ target < v /\ state = Proc("failed", 0, 1, target)
           \/ ~(target < v) /\ state = Upward(v, target)
           \/ target <= v /\ state = Downward(v, target)
  BY DEF StartUp, StartDown
<1>2. /\ proc[p].at = "idle" /\ UNCHANGED <<ledger, objects>>
      /\ alone' = (alone /\ \A q \in Processes \ {p} : proc[q].at \in {"idle", "opened", "failed"})
  BY DEF StartUp, StartDown, Starts
<1>3. v \in Nat /\ target \in Nat /\ v <= SchemaVersion /\ target <= SchemaVersion
  BY <1>1, Naturals1 DEF Targets
<1>4. \/ state \in {Proc("failed", 0, 1, target), Idle, Proc("opened", v, 1, target)}
      \/ state = Proc("up", v + 1, 1, target) /\ v < target
      \/ state = Proc("down", v, 1, target) /\ v > target
  BY <1>1 DEF Upward, Downward
<1>5. state \in Procs
  BY <1>3, <1>4, Naturals1 DEF Procs, Proc, Idle, Targets
<1>6. alone' \in BOOLEAN
  BY <1>2
<1>7. ASSUME alone'
      PROVE  /\ \A q \in Processes : q # p => Rests(proc[q])
             /\ LedgerIsPrefix' /\ WorkOK(state)'
             /\ \A x \in Versions : (~Rests(state) => state.version # x) => Tidy(x)'
  <2>1. SoloInv /\ \A q \in Processes : Rests(proc[q])
    BY <1>2, <1>7 DEF RevertInv, Rests
  <2>2. LedgerIsPrefix /\ \A x \in Versions : Tidy(x)
    BY <2>1 DEF SoloInv
  <2>3. LedgerIsPrefix' /\ \A x \in Versions : Tidy(x)'
    BY <1>2, <2>2 DEF LedgerIsPrefix, Tidy, Complete
  <2>4. WorkOK(state)'
    <3>1. CASE state \in {Proc("failed", 0, 1, target), Idle, Proc("opened", v, 1, target)}
      BY <3>1 DEF WorkOK, Proc, Idle, Rests
    <3>2. CASE state = Proc("up", v + 1, 1, target) /\ v < target
      <4>1. v + 1 \in Versions /\ v + 1 \notin ledger
        BY <1>1, <1>3, <3>2, Naturals1 DEF IsCurrent, Versions, RevertInv
      <4>2. \A u \in Versions : u < v + 1 => u \in ledger
        BY <1>1, <1>3, <2>2 DEF IsCurrent, Versions, LedgerIsPrefix
      <4>3. objects[v + 1] = 1..(1 - 1)
        BY <2>2, <4>1 DEF Tidy
      <4> QED
        BY <1>2, <3>2, <4>1, <4>2, <4>3 DEF WorkOK, Proc, Rests
    <3>3. CASE state = Proc("down", v, 1, target) /\ v > target
      <4>1. v \in ledger /\ v \in Versions /\ \A u \in ledger : u <= v
        BY <1>1, <1>3, <3>3 DEF IsCurrent, RevertInv
      <4>2. objects[v] = 1..Parts
        BY <2>2, <4>1 DEF Tidy, Complete
      <4> QED
        BY <1>2, <3>3, <4>1, <4>2 DEF WorkOK, Proc, Rests
    <3> QED
      BY <1>4, <3>1, <3>2, <3>3
  <2> QED
    BY <2>1, <2>3, <2>4
<1>8. ~Rests(state) => state.version \in Versions
  BY <1>3, <1>4, Naturals1 DEF Rests, Proc, Idle, Versions
<1> QED
  BY <1>1, <1>2, <1>5, <1>6, <1>7, <1>8, SoloStep DEF RevertInv

\* At work alone, a process knows where it is.
LEMMA AtWork ==
  ASSUME RevertInv, NEW p \in Processes, ~Rests(proc[p]), alone
  PROVE  /\ WorkOK(proc[p]) /\ LedgerIsPrefix /\ proc[p].version \in Versions
         /\ \A q \in Processes : q # p => Rests(proc[q])
         /\ \A v \in Versions : v # proc[p].version => Tidy(v)
  BY DEF RevertInv, SoloInv, WorkOK

LEMMA CreateAlone ==
  ASSUME RevertInv, NEW p \in Processes, CreateObject(p)
  PROVE  RevertInv'
<1>1. PICK v, k, state :
        /\ v = proc[p].version /\ k = proc[p].part
        /\ state = IF k < Parts THEN [proc[p] EXCEPT !.part = k + 1]
                   ELSE [proc[p] EXCEPT !.at = "record"]
  OBVIOUS
<1>2. /\ proc[p].at = "up" /\ ~Rests(proc[p]) /\ proc[p] \in Procs /\ k \in 1..Parts
      /\ v \in Versions
      /\ objects' = [objects EXCEPT ![v] = @ \cup {k}] /\ Become(p, state)
      /\ UNCHANGED <<ledger, alone>>
  BY <1>1 DEF CreateObject, Rests, RevertInv, Procs
<1>3. /\ state \in Procs /\ state.version = v /\ ~Rests(state)
      /\ \/ k < Parts /\ state.at = "up" /\ state.part = k + 1
         \/ k = Parts /\ state.at = "record"
  BY <1>1, <1>2, Naturals1 DEF Procs, Rests
<1>4. objects' \in [Versions -> SUBSET (1..Parts)] /\ alone' \in BOOLEAN
  BY <1>2 DEF RevertInv
<1>5. ASSUME alone'
      PROVE  /\ \A q \in Processes : q # p => Rests(proc[q])
             /\ LedgerIsPrefix' /\ WorkOK(state)'
             /\ \A x \in Versions : (~Rests(state) => state.version # x) => Tidy(x)'
  <2>1. /\ WorkOK(proc[p]) /\ LedgerIsPrefix /\ v \in Versions
        /\ \A q \in Processes : q # p => Rests(proc[q])
        /\ \A x \in Versions : x # v => Tidy(x)
    BY <1>1, <1>2, <1>5, AtWork
  <2>2. /\ v \notin ledger /\ \A u \in Versions : u < v => u \in ledger
        /\ objects[v] = 1..(k - 1)
    BY <1>1, <1>2, <2>1 DEF WorkOK
  <2>3. objects'[v] = 1..k /\ \A x \in Versions : x # v => objects'[x] = objects[x]
    BY <1>2, <2>1, <2>2 DEF RevertInv
  <2>4. WorkOK(state)'
    <3>1. CASE k < Parts /\ state.at = "up" /\ state.part = k + 1
      <4>1. k + 1 - 1 = k
        BY <1>2
      <4> QED
        BY <1>2, <1>3, <2>1, <2>2, <2>3, <3>1, <4>1 DEF WorkOK, Rests
    <3>2. CASE k = Parts /\ state.at = "record"
      BY <1>2, <1>3, <2>1, <2>2, <2>3, <3>2 DEF WorkOK, Rests
    <3> QED
      BY <1>3, <3>1, <3>2
  <2>5. \A x \in Versions : x # v => Tidy(x)'
    BY <1>2, <2>1, <2>3 DEF Tidy, Complete
  <2>6. LedgerIsPrefix'
    BY <1>2, <2>1 DEF LedgerIsPrefix
  <2> QED
    BY <1>3, <2>1, <2>4, <2>5, <2>6
<1> QED
  BY <1>2, <1>3, <1>4, <1>5, SoloStep DEF RevertInv

LEMMA RecordAlone ==
  ASSUME RevertInv, NEW p \in Processes, Record(p)
  PROVE  RevertInv'
<1>1. PICK v, target, state :
        /\ v = proc[p].version /\ target = proc[p].target
        /\ state = IF v \in ledger THEN Proc("failed", 0, 1, target) ELSE Upward(v, target)
  OBVIOUS
<1>2. /\ proc[p].at = "record" /\ ~Rests(proc[p]) /\ proc[p] \in Procs
      /\ v \in Versions /\ target \in Targets
      /\ v \in ledger => ledger' = ledger
      /\ v \notin ledger => ledger' = ledger \cup {v}
      /\ Become(p, state) /\ UNCHANGED <<objects, alone>>
  BY <1>1 DEF Record, Rests, RevertInv, Procs
<1>3. v \in Nat /\ target \in Nat /\ v <= SchemaVersion /\ target <= SchemaVersion
  BY <1>2, Naturals1 DEF Targets, Versions
<1>4. state \in Procs /\ (~Rests(state) => state.version \in Versions)
  BY <1>1, <1>3, Naturals1 DEF Procs, Proc, Upward, Targets, Versions, Rests
<1>5. ASSUME alone'
      PROVE  /\ \A q \in Processes : q # p => Rests(proc[q])
             /\ LedgerIsPrefix' /\ WorkOK(state)'
             /\ \A x \in Versions : (~Rests(state) => state.version # x) => Tidy(x)'
  <2>1. /\ WorkOK(proc[p]) /\ LedgerIsPrefix /\ v \in Versions
        /\ \A q \in Processes : q # p => Rests(proc[q])
        /\ \A x \in Versions : x # v => Tidy(x)
    BY <1>1, <1>2, <1>5, AtWork
  <2>2. /\ v \notin ledger /\ \A u \in Versions : u < v => u \in ledger
        /\ objects[v] = 1..Parts /\ ledger' = ledger \cup {v}
    BY <1>1, <1>2, <2>1 DEF WorkOK
  <2>3. LedgerIsPrefix'
    BY <2>1, <2>2 DEF LedgerIsPrefix
  <2>4. \A x \in Versions : Tidy(x)'
    BY <1>2, <2>1, <2>2 DEF Tidy, Complete
  <2>5. state = Upward(v, target)
    BY <1>1, <2>2
  <2>6. WorkOK(state)'
    <3>1. CASE v < target
      <4>1. state = Proc("up", v + 1, 1, target) /\ v + 1 \in Versions
        BY <1>3, <2>5, <3>1, Naturals1 DEF Upward, Versions
      <4>2. v + 1 \notin ledger'
        BY <1>3, <2>1, <2>2, <4>1 DEF LedgerIsPrefix
      <4>3. objects'[v + 1] = 1..(1 - 1)
        BY <2>4, <4>1, <4>2 DEF Tidy
      <4>4. \A u \in Versions : u < v + 1 => u \in ledger'
        BY <1>3, <2>2 DEF Versions
      <4> QED
        BY <4>1, <4>2, <4>3, <4>4 DEF WorkOK, Proc, Rests
    <3>2. CASE ~(v < target)
      BY <2>5, <3>2 DEF WorkOK, Upward, Proc, Rests
    <3> QED
      BY <3>1, <3>2
  <2> QED
    BY <2>1, <2>3, <2>4, <2>6
<1>6. alone' \in BOOLEAN
  BY <1>2 DEF RevertInv
<1>7. ledger' \subseteq Versions
  BY <1>2 DEF RevertInv
<1> QED
  BY <1>2, <1>4, <1>5, <1>6, <1>7, SoloStep DEF RevertInv

LEMMA DropAlone ==
  ASSUME RevertInv, NEW p \in Processes, DropObject(p)
  PROVE  RevertInv'
<1>1. PICK v, k, state :
        /\ v = proc[p].version /\ k = proc[p].part
        /\ state = IF k < Parts THEN [proc[p] EXCEPT !.part = k + 1]
                   ELSE [proc[p] EXCEPT !.at = "unrecord"]
  OBVIOUS
<1>2. /\ proc[p].at = "down" /\ ~Rests(proc[p]) /\ proc[p] \in Procs /\ k \in 1..Parts
      /\ v \in Versions
      /\ objects' = [objects EXCEPT ![v] = @ \ {k}] /\ Become(p, state)
      /\ UNCHANGED <<ledger, alone>>
  BY <1>1 DEF DropObject, Rests, RevertInv, Procs
<1>3. /\ state \in Procs /\ state.version = v /\ ~Rests(state)
      /\ \/ k < Parts /\ state.at = "down" /\ state.part = k + 1
         \/ k = Parts /\ state.at = "unrecord"
  BY <1>1, <1>2, Naturals1 DEF Procs, Rests
<1>4. objects' \in [Versions -> SUBSET (1..Parts)] /\ alone' \in BOOLEAN
  BY <1>2 DEF RevertInv
<1>5. ASSUME alone'
      PROVE  /\ \A q \in Processes : q # p => Rests(proc[q])
             /\ LedgerIsPrefix' /\ WorkOK(state)'
             /\ \A x \in Versions : (~Rests(state) => state.version # x) => Tidy(x)'
  <2>1. /\ WorkOK(proc[p]) /\ LedgerIsPrefix
        /\ \A q \in Processes : q # p => Rests(proc[q])
        /\ \A x \in Versions : x # v => Tidy(x)
    BY <1>1, <1>2, <1>5, AtWork
  <2>2. /\ v \in ledger /\ \A u \in ledger : u <= v
        /\ objects[v] = k..Parts
    BY <1>1, <1>2, <2>1 DEF WorkOK
  <2>3. objects'[v] = (k + 1)..Parts /\ \A x \in Versions : x # v => objects'[x] = objects[x]
    <3>1. (k..Parts) \ {k} = (k + 1)..Parts
      BY <1>2, Naturals1
    <3> QED
      BY <1>2, <2>2, <3>1 DEF RevertInv
  <2>4. WorkOK(state)'
    <3>1. CASE k < Parts /\ state.at = "down" /\ state.part = k + 1
      BY <1>2, <1>3, <2>1, <2>2, <2>3, <3>1 DEF WorkOK, Rests
    <3>2. CASE k = Parts /\ state.at = "unrecord"
      <4>1. (k + 1)..Parts = {}
        BY <1>2, <3>2, Naturals1
      <4> QED
        BY <1>2, <1>3, <2>1, <2>2, <2>3, <3>2, <4>1 DEF WorkOK, Rests
    <3> QED
      BY <1>3, <3>1, <3>2
  <2>5. \A x \in Versions : x # v => Tidy(x)'
    BY <1>2, <2>1, <2>3 DEF Tidy, Complete
  <2>6. LedgerIsPrefix'
    BY <1>2, <2>1 DEF LedgerIsPrefix
  <2> QED
    BY <1>3, <2>1, <2>4, <2>5, <2>6
<1> QED
  BY <1>2, <1>3, <1>4, <1>5, SoloStep DEF RevertInv

LEMMA UnrecordAlone ==
  ASSUME RevertInv, NEW p \in Processes, Unrecord(p)
  PROVE  RevertInv'
<1>1. PICK v, target, state :
        /\ v = proc[p].version /\ target = proc[p].target
        /\ state = Downward(v - 1, target)
  OBVIOUS
<1>2. /\ proc[p].at = "unrecord" /\ ~Rests(proc[p]) /\ proc[p] \in Procs
      /\ v \in Versions /\ target \in Targets
      /\ ledger' = ledger \ {v}
      /\ Become(p, state) /\ UNCHANGED <<objects, alone>>
  BY <1>1 DEF Unrecord, Rests, RevertInv, Procs
<1>3. v \in Nat /\ v - 1 \in Nat /\ target \in Nat /\ v <= SchemaVersion /\ target <= SchemaVersion
  BY <1>2, Naturals1 DEF Targets, Versions
<1>4. \/ v - 1 > target /\ state = Proc("down", v - 1, 1, target) /\ v - 1 \in Versions
      \/ state = Idle
  BY <1>1, <1>3, Naturals1 DEF Downward, Versions
<1>5. state \in Procs /\ (~Rests(state) => state.version \in Versions)
  BY <1>3, <1>4, Naturals1 DEF Procs, Proc, Idle, Targets, Versions, Rests
<1>6. ASSUME alone'
      PROVE  /\ \A q \in Processes : q # p => Rests(proc[q])
             /\ LedgerIsPrefix' /\ WorkOK(state)'
             /\ \A x \in Versions : (~Rests(state) => state.version # x) => Tidy(x)'
  <2>1. /\ WorkOK(proc[p]) /\ LedgerIsPrefix
        /\ \A q \in Processes : q # p => Rests(proc[q])
        /\ \A x \in Versions : x # v => Tidy(x)
    BY <1>1, <1>2, <1>6, AtWork
  <2>2. v \in ledger /\ (\A u \in ledger : u <= v) /\ objects[v] = {}
    BY <1>1, <1>2, <2>1 DEF WorkOK
  <2>3. LedgerIsPrefix'
    <3>1. ASSUME NEW x \in ledger', NEW u \in Versions, u < x PROVE u \in ledger'
      <4>1. x \in ledger /\ x <= v /\ x \in Nat /\ u \in Nat
        BY <1>2, <2>2, <3>1 DEF RevertInv, Versions
      <4> QED
        BY <1>2, <1>3, <2>1, <3>1, <4>1 DEF LedgerIsPrefix
    <3> QED
      BY <3>1 DEF LedgerIsPrefix
  <2>4. \A x \in Versions : Tidy(x)'
    BY <1>2, <2>1, <2>2 DEF Tidy, Complete
  <2>5. WorkOK(state)'
    <3>1. CASE v - 1 > target /\ state = Proc("down", v - 1, 1, target) /\ v - 1 \in Versions
      <4>1. v - 1 \in ledger'
        BY <1>2, <1>3, <2>1, <2>2, <3>1 DEF LedgerIsPrefix
      <4>2. \A u \in ledger' : u <= v - 1
        BY <1>2, <1>3, <2>2 DEF RevertInv, Versions
      <4>3. objects'[v - 1] = 1..Parts
        BY <2>4, <3>1, <4>1 DEF Tidy, Complete
      <4> QED
        BY <3>1, <4>1, <4>2, <4>3 DEF WorkOK, Proc, Rests
    <3>2. CASE state = Idle
      BY <3>2 DEF WorkOK, Idle, Proc, Rests
    <3> QED
      BY <1>4, <3>1, <3>2
  <2> QED
    BY <2>1, <2>3, <2>4, <2>5
<1>7. ledger' \subseteq Versions /\ alone' \in BOOLEAN /\ objects' \in [Versions -> SUBSET (1..Parts)]
  BY <1>2 DEF RevertInv
<1> QED
  BY <1>2, <1>5, <1>6, <1>7, SoloStep DEF RevertInv

\* A failure ends the solitude; to close is to rest on.
LEMMA RestAlone ==
  ASSUME RevertInv, NEW p \in Processes, Fail(p) \/ Close(p)
  PROVE  RevertInv'
<1>1. CASE Fail(p)
  <2>1. proc[p].target \in Targets
    BY DEF RevertInv, Procs
  <2>2. PICK state : state = Proc("failed", 0, 1, proc[p].target)
    OBVIOUS
  <2>3. state \in Procs /\ Rests(state)
    BY <2>1, <2>2, Naturals1 DEF Procs, Proc, Rests, Targets
  <2>4. Become(p, state) /\ alone' = FALSE /\ UNCHANGED <<ledger, objects>>
    BY <1>1, <2>2 DEF Fail
  <2> QED
    BY <2>3, <2>4, SoloStep DEF RevertInv
<1>2. CASE Close(p)
  <2>1. Idle \in Procs /\ Rests(Idle)
    BY Naturals1 DEF Procs, Proc, Rests, Idle, Targets
  <2>2. Become(p, Idle) /\ Rests(proc[p]) /\ UNCHANGED <<ledger, objects, alone>>
    BY <1>2 DEF Close, Rests
  <2>3. proc' \in [Processes -> Procs] /\ proc'[p] = Idle
        /\ \A q \in Processes : q # p => proc'[q] = proc[q]
    BY <2>1, <2>2 DEF RevertInv, Become
  <2>4. \A q \in Processes : Rests(proc'[q]) <=> Rests(proc[q])
    BY <2>1, <2>2, <2>3 DEF Rests
  <2>5. ASSUME alone' PROVE SoloInv'
    <3>1. SoloInv
      BY <2>2, <2>5 DEF RevertInv
    <3>2. LedgerIsPrefix' /\ \A x \in Versions : Tidy(x) => Tidy(x)'
      BY <2>2, <3>1 DEF SoloInv, LedgerIsPrefix, Tidy, Complete
    <3>3. \A q \in Processes : ~Rests(proc'[q]) => proc'[q] = proc[q]
      BY <2>1, <2>3
    <3>4. ASSUME NEW q \in Processes PROVE WorkOK(proc[q])'
      <4>1. CASE Rests(proc'[q])
        BY <4>1 DEF WorkOK, Rests
      <4>2. CASE ~Rests(proc'[q])
        <5>1. proc'[q] = proc[q] /\ WorkOK(proc[q])
          BY <3>1, <3>3, <4>2 DEF SoloInv
        <5> QED
          BY <2>2, <5>1 DEF WorkOK, Rests
      <4> QED
        BY <4>1, <4>2
    <3>5. \A q, r \in Processes : ~Rests(proc'[q]) /\ ~Rests(proc'[r]) => q = r
      BY <2>4, <3>1 DEF SoloInv
    <3>6. ASSUME NEW x \in Versions, \A q \in Processes : ~Rests(proc'[q]) => proc'[q].version # x
          PROVE  Tidy(x)'
      <4>1. \A q \in Processes : ~Rests(proc[q]) => proc[q].version # x
        BY <2>4, <3>3, <3>6
      <4> QED
        BY <3>1, <3>2, <4>1 DEF SoloInv
    <3> QED
      BY <3>2, <3>4, <3>5, <3>6 DEF SoloInv, Rests
  <2>6. \A q \in Processes : ~Rests(proc'[q]) => proc'[q].version \in Versions
    BY <2>1, <2>3 DEF RevertInv
  <2> QED
    BY <2>2, <2>3, <2>5, <2>6 DEF RevertInv, Rests
<1> QED
  BY <1>1, <1>2

LEMMA RevertInvariant == Spec => []RevertInv
<1>1. Init => RevertInv
  <2> SUFFICES ASSUME Init PROVE RevertInv
    OBVIOUS
  <2>1. Idle \in Procs /\ Rests(Idle)
    BY Naturals1 DEF Procs, Proc, Rests, Idle, Targets
  <2>2. proc \in [Processes -> Procs] /\ \A p \in Processes : Rests(proc[p])
    BY <2>1 DEF Init
  <2>3. SoloInv
    BY <2>2 DEF Init, SoloInv, LedgerIsPrefix, WorkOK, Tidy, Rests
  <2> QED
    BY <2>2, <2>3 DEF Init, RevertInv
<1>2. RevertInv /\ [Next]_vars => RevertInv'
  <2> SUFFICES ASSUME RevertInv, [Next]_vars PROVE RevertInv'
    OBVIOUS
  <2>1. CASE Next
    BY <2>1, StartAlone, CreateAlone, RecordAlone, DropAlone, UnrecordAlone, RestAlone
       DEF Next, Migrate
  <2>2. CASE UNCHANGED vars
    BY <2>2 DEF vars, RevertInv, SoloInv, LedgerIsPrefix, WorkOK, Rests, Tidy, Complete
  <2> QED
    BY <2>1, <2>2
<1> QED
  BY <1>1, <1>2, PTL DEF Spec

\* As long as nothing failed and no two processes were at it together, every
\* migration is undone as completely as it was done, for any number of migrations
\* of any size: at rest the objects are exactly those of the recorded versions.
THEOREM MigrationsAreReversible == Spec => []Reversible
<1>1. RevertInv => Reversible
  BY DEF RevertInv, SoloInv, Reversible, Rests, Tidy
<1> QED
  BY <1>1, RevertInvariant, PTL


=============================================================================
