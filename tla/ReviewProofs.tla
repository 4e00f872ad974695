----------------------------- MODULE ReviewProofs -----------------------------
(***************************************************************************)
(* What holds of the engine's gates, fixes and audit for every plan and    *)
(* every pack: that an approved plan runs as its gates promised, that the  *)
(* fixes only help, and that the diff-aware audit misses nothing new.      *)
(***************************************************************************)
EXTENDS Review, Policies, TLAPS, FiniteSetTheorems, SequenceTheorems

Sound(p) == p \in PlanVersion /\ ValidPlan(p)

(***************************************************************************)
(* Tasks and their places                                                  *)
(***************************************************************************)

LEMMA SoundPlan ==
  ASSUME NEW p, Sound(p)
  PROVE  /\ p.tasks \in Seq(Task) /\ Len(p.tasks) \in Nat /\ DOMAIN p.tasks = 1..Len(p.tasks)
         /\ Steps(p) = {p.tasks[i] : i \in 1..Len(p.tasks)}
         /\ Steps(p) \subseteq Task
         /\ \A i, j \in 1..Len(p.tasks) : p.tasks[i].id = p.tasks[j].id => i = j
         /\ \A e \in p.hard \cup p.soft : /\ e[1] \in Ids(p) /\ e[2] \in Ids(p) /\ e[1] # e[2]
                                          /\ e = <<e[1], e[2]>>
<1>1. /\ p.tasks \in Seq(Task) /\ p.hard \subseteq Tasks \X Tasks /\ p.soft \subseteq Tasks \X Tasks
  BY DEF Sound, PlanVersion
<1>2. Len(p.tasks) \in Nat /\ DOMAIN p.tasks = 1..Len(p.tasks) /\ \A i \in 1..Len(p.tasks) : p.tasks[i] \in Task
  BY <1>1
<1>3. Steps(p) = {p.tasks[i] : i \in 1..Len(p.tasks)}
  BY <1>2 DEF Steps, Range
<1>4. \A e \in p.hard \cup p.soft : e = <<e[1], e[2]>>
  BY <1>1
<1> QED
  BY <1>1, <1>2, <1>3, <1>4 DEF Sound, ValidPlan

LEMMA PlaceIs ==
  ASSUME NEW p, Sound(p), NEW i \in 1..Len(p.tasks)
  PROVE  Place(p, p.tasks[i].id) = i
BY SoundPlan DEF Place

LEMMA StepPlaced ==
  ASSUME NEW p, Sound(p), NEW t \in Steps(p)
  PROVE  /\ Place(p, t.id) \in 1..Len(p.tasks) /\ Place(p, t.id) \in Nat
         /\ p.tasks[Place(p, t.id)] = t /\ Step(p, t.id) = t
         /\ t \in Task /\ t.id \in Ids(p)
<1>1. PICK i \in 1..Len(p.tasks) : t = p.tasks[i]
  BY SoundPlan
<1>2. Place(p, t.id) = i
  BY <1>1, PlaceIs
<1>3. t \in Task /\ t.id \in Ids(p) /\ Len(p.tasks) \in Nat
  BY SoundPlan DEF Ids
<1> QED
  BY <1>1, <1>2, <1>3 DEF Step

\* A place is one task's.
LEMMA PlaceTells ==
  ASSUME NEW p, Sound(p), NEW t \in Steps(p), NEW u \in Steps(p),
         t.id = u.id \/ Place(p, t.id) = Place(p, u.id)
  PROVE  t = u
<1>1. p.tasks[Place(p, t.id)] = t /\ p.tasks[Place(p, u.id)] = u
  BY StepPlaced
<1> QED
  BY <1>1

LEMMA IntervalCounted ==
  ASSUME NEW n \in Nat
  PROVE  IsFiniteSet(1..n) /\ Cardinality(1..n) = n
<1>1. 1 \in Int /\ n \in Int
  OBVIOUS
<1> QED
  BY <1>1, FS_Interval

LEMMA StepsCounted ==
  ASSUME NEW p, Sound(p)
  PROVE  IsFiniteSet(Steps(p)) /\ Cardinality(Steps(p)) = Len(p.tasks)
<1>1. p.tasks \in Bijection(1..Len(p.tasks), Steps(p))
  BY SoundPlan DEF Bijection, Injection, Surjection, IsInjective
<1>2. IsFiniteSet(1..Len(p.tasks)) /\ Cardinality(1..Len(p.tasks)) = Len(p.tasks)
  BY SoundPlan, IntervalCounted
<1>3. ExistsBijection(1..Len(p.tasks), Steps(p))
  BY <1>1 DEF ExistsBijection
<1> QED
  BY <1>2, <1>3, FS_Bijection

\* A set of naturals has a least element; FiniteSetTheorems has this for sets.
LEMMA LeastNatural ==
  ASSUME NEW S \in SUBSET Nat, S # {}
  PROVE  \E n \in S : \A m \in S : n <= m
<1>1. IsWellFoundedOn(StrictSubsetOrdering(Nat), FiniteSubsetsOf(Nat))
  BY FS_StrictSubsetOrderingWellFounded
<1>2. PICK T : T = {1..n : n \in S}
  OBVIOUS
<1>3. \A n \in S : 1..n \in FiniteSubsetsOf(Nat)
  BY FS_Interval DEF FiniteSubsetsOf
<1>4. T \subseteq FiniteSubsetsOf(Nat) /\ T # {}
  BY <1>2, <1>3
<1>5. PICK t \in T : \A u \in T : <<u, t>> \notin StrictSubsetOrdering(Nat)
  BY <1>1, <1>4, WFMin
<1>6. PICK n \in S : t = 1..n
  BY <1>2
<1>7. ASSUME NEW m \in S PROVE n <= m
  <2>1. <<1..m, 1..n>> \notin StrictSubsetOrdering(Nat)
    BY <1>2, <1>5, <1>6
  <2>2. ~(1..m \subseteq 1..n /\ 1..m # 1..n)
    BY <2>1 DEF StrictSubsetOrdering
  <2>3. m < n => n \in 1..n /\ n \notin 1..m /\ 1..m \subseteq 1..n
    OBVIOUS
  <2> QED
    BY <2>2, <2>3
<1> QED
  BY <1>7

\* Of a set of tasks of the plan, one is listed first.
LEMMA FirstOfTasks ==
  ASSUME NEW p, Sound(p), NEW S \in SUBSET Steps(p), S # {}
  PROVE  \E t \in S : \A u \in S : Place(p, t.id) <= Place(p, u.id)
<1>1. PICK places : places = {Place(p, t.id) : t \in S}
  OBVIOUS
<1>2. places \in SUBSET Nat /\ places # {}
  BY <1>1, StepPlaced
<1>3. PICK n \in places : \A m \in places : n <= m
  BY <1>2, LeastNatural
<1> QED
  BY <1>1, <1>3

(***************************************************************************)
(* The re-ordered plan is the same plan.  Reorder chooses the least of the *)
(* lists in which producers come first; that there is one, a greedy list   *)
(* shows, and that there is a greedy list, the longest one.                *)
(***************************************************************************)

\* What s has before its place i, and the tasks that may follow those of D.
Before(s, i) == {s[j] : j \in 1..i - 1}
Eligible(p, D) ==
  {t \in Steps(p) \ D : \A u \in Steps(p) : <<u.id, t.id>> \in p.hard => u \in D}

\* At each of its places s takes the first task it may.
Greedy(p, s) ==
  /\ s \in Seq(Steps(p))
  /\ \A i \in 1..Len(s) :
       /\ s[i] \in Eligible(p, Before(s, i))
       /\ \A u \in Eligible(p, Before(s, i)) : Place(p, s[i].id) <= Place(p, u.id)

LEMMA GreedyIsInjective ==
  ASSUME NEW p, NEW s, Greedy(p, s)
  PROVE  /\ Len(s) \in Nat /\ s \in [1..Len(s) -> Steps(p)]
         /\ \A i, j \in 1..Len(s) : s[i] = s[j] => i = j
<1>1. s \in Seq(Steps(p)) /\ Len(s) \in Nat /\ s \in [1..Len(s) -> Steps(p)]
  BY DEF Greedy
<1>2. ASSUME NEW i \in 1..Len(s), NEW j \in 1..Len(s), i < j PROVE s[i] # s[j]
  <2>1. s[i] \in Before(s, j)
    BY <1>1, <1>2 DEF Before
  <2>2. s[j] \notin Before(s, j)
    BY DEF Greedy, Eligible
  <2> QED
    BY <2>1, <2>2
<1> QED
  BY <1>1, <1>2

\* As long as tasks are left, a greedy list can grow, or there is a cycle.
LEMMA GreedyGrows ==
  ASSUME NEW p, Sound(p), ~HasCycle(p), NEW s, Greedy(p, s), Range(s) # Steps(p)
  PROVE  \E l : Greedy(p, l) /\ Len(l) = Len(s) + 1
<1>1. s \in Seq(Steps(p)) /\ Len(s) \in Nat /\ DOMAIN s = 1..Len(s) /\ Range(s) \subseteq Steps(p)
  BY DEF Greedy, Range
<1>2. Eligible(p, Range(s)) # {}
  <2> SUFFICES ASSUME Eligible(p, Range(s)) = {} PROVE HasCycle(p)
    OBVIOUS
  <2>1. PICK T : T = {t.id : t \in Steps(p) \ Range(s)}
    OBVIOUS
  <2>2. T \in SUBSET Ids(p) /\ T # {}
    BY <1>1, <2>1 DEF Ids
  <2>3. ASSUME NEW v \in T PROVE \E u \in T : <<u, v>> \in p.hard
    <3>1. PICK t \in Steps(p) \ Range(s) : v = t.id
      BY <2>1
    <3>2. PICK u \in Steps(p) : <<u.id, t.id>> \in p.hard /\ u \notin Range(s)
      BY <3>1 DEF Eligible
    <3> QED
      BY <2>1, <3>1, <3>2
  <2> QED
    BY <2>2, <2>3 DEF HasCycle
<1>3. Eligible(p, Range(s)) \in SUBSET Steps(p)
  BY DEF Eligible
<1>4. PICK t \in Eligible(p, Range(s)) :
        \A u \in Eligible(p, Range(s)) : Place(p, t.id) <= Place(p, u.id)
  BY <1>2, <1>3, FirstOfTasks
<1>5. PICK l : l = Append(s, t)
  OBVIOUS
<1>6. PICK n : n = Len(s)
  OBVIOUS
<1>7. t \in Steps(p)
  BY <1>3
<1>8. /\ l \in Seq(Steps(p)) /\ Len(l) = n + 1 /\ n \in Nat
      /\ l[n + 1] = t /\ \A i \in 1..n : l[i] = s[i]
  BY <1>1, <1>5, <1>6, <1>7
<1>9. \A i \in 1..n + 1 : Before(l, i) = Before(s, i)
  BY <1>8 DEF Before
<1>10. Before(s, n + 1) = Range(s)
  BY <1>1, <1>6 DEF Before, Range
<1>11. ASSUME NEW i \in 1..n + 1
       PROVE  /\ l[i] \in Eligible(p, Before(l, i))
              /\ \A u \in Eligible(p, Before(l, i)) : Place(p, l[i].id) <= Place(p, u.id)
  <2>1. CASE i \in 1..n
    BY <1>6, <1>8, <1>9, <2>1 DEF Greedy
  <2>2. CASE i = n + 1
    BY <1>4, <1>8, <1>9, <1>10, <2>2
  <2> QED
    BY <1>8, <2>1, <2>2
<1>12. Greedy(p, l)
  BY <1>8, <1>11 DEF Greedy
<1> QED
  BY <1>6, <1>8, <1>12

LEMMA GreedyExists ==
  ASSUME NEW p, Sound(p), ~HasCycle(p)
  PROVE  \E s : Greedy(p, s) /\ Range(s) = Steps(p)
<1>1. PICK n : n = Cardinality(Steps(p))
  OBVIOUS
<1>2. n \in Nat /\ IsFiniteSet(Steps(p))
  BY <1>1, StepsCounted, SoundPlan
<1>3. ASSUME NEW s, Greedy(p, s) PROVE Len(s) \in 0..n
  <2>1. s \in Injection(1..Len(s), Steps(p))
    BY <1>3, GreedyIsInjective DEF Injection, IsInjective
  <2>2. Len(s) \in Nat
    BY <1>3, GreedyIsInjective
  <2>3. Cardinality(1..Len(s)) = Len(s)
    BY <2>2, IntervalCounted
  <2> QED
    BY <1>1, <1>2, <2>1, <2>2, <2>3, FS_Injection
<1>4. PICK left : left = {m \in 0..n : \E s : Greedy(p, s) /\ m = n - Len(s)}
  OBVIOUS
<1>5. Greedy(p, <<>>) /\ Len(<<>>) = 0
  BY DEF Greedy
<1>6. left \in SUBSET Nat /\ left # {}
  <2>1. n \in left
    BY <1>2, <1>4, <1>5
  <2> QED
    BY <1>4, <2>1
<1>7. PICK m \in left : \A k \in left : m <= k
  BY <1>6, LeastNatural
<1>8. PICK s : Greedy(p, s) /\ m = n - Len(s)
  BY <1>4
<1>9. Range(s) = Steps(p)
  <2> SUFFICES ASSUME Range(s) # Steps(p) PROVE FALSE
    OBVIOUS
  <2>1. PICK l : Greedy(p, l) /\ Len(l) = Len(s) + 1
    BY <1>8, GreedyGrows
  <2>2. Len(s) \in 0..n /\ Len(l) \in 0..n
    BY <1>3, <1>8, <2>1
  <2>3. n - Len(l) \in 0..n /\ n - Len(l) < n - Len(s)
    BY <1>2, <2>1, <2>2
  <2>4. n - Len(l) \in left
    BY <1>4, <2>1, <2>3
  <2>5. n - Len(s) <= n - Len(l)
    BY <1>7, <1>8, <2>4
  <2> QED
    BY <1>2, <2>2, <2>3, <2>5
<1> QED
  BY <1>8, <1>9

LEMMA ListIsAll ==
  ASSUME NEW p, Sound(p), NEW l \in SetToSeqs(Steps(p))
  PROVE  /\ l \in Seq(Steps(p)) /\ Len(l) = Len(p.tasks) /\ Range(l) = Steps(p)
         /\ DOMAIN l = 1..Len(p.tasks)
         /\ \A i, j \in 1..Len(p.tasks) : l[i] = l[j] => i = j
<1>1. /\ IsFiniteSet(Steps(p)) /\ Cardinality(Steps(p)) = Len(p.tasks) /\ Len(p.tasks) \in Nat
  BY StepsCounted, SoundPlan
<1>2. /\ l \in [1..Len(p.tasks) -> Steps(p)]
      /\ \A i, j \in 1..Len(p.tasks) : l[i] = l[j] => i = j
  BY <1>1 DEF SetToSeqs
<1>3. l \in Injection(1..Len(p.tasks), Steps(p))
  BY <1>2 DEF Injection, IsInjective
<1>4. Cardinality(1..Len(p.tasks)) = Len(p.tasks)
  BY <1>1, IntervalCounted
<1>5. l \in Surjection(1..Len(p.tasks), Steps(p))
  BY <1>1, <1>3, <1>4, FS_Injection
<1> QED
  BY <1>1, <1>2, <1>5 DEF Surjection, Range

LEMMA GreedyCounted ==
  ASSUME NEW p, Sound(p), NEW s, Greedy(p, s), Range(s) = Steps(p)
  PROVE  Len(s) = Len(p.tasks) /\ s \in SetToSeqs(Steps(p))
<1>1. /\ Len(s) \in Nat /\ s \in [1..Len(s) -> Steps(p)]
      /\ \A i, j \in 1..Len(s) : s[i] = s[j] => i = j
  BY GreedyIsInjective
<1>2. /\ IsFiniteSet(Steps(p)) /\ Cardinality(Steps(p)) = Len(p.tasks) /\ Len(p.tasks) \in Nat
  BY StepsCounted, SoundPlan
<1>3. Cardinality(1..Len(s)) = Len(s)
  BY <1>1, IntervalCounted
<1>4. s \in Injection(1..Len(s), Steps(p)) /\ s \in Surjection(1..Len(s), Steps(p))
  BY <1>1 DEF Injection, IsInjective, Surjection, Range
<1>5. Len(s) = Len(p.tasks)
  BY <1>2, <1>3, <1>4, FS_Injection
<1> QED
  BY <1>1, <1>2, <1>5 DEF SetToSeqs

LEMMA GreedyIsLeast ==
  ASSUME NEW p, Sound(p), NEW s, Greedy(p, s), Range(s) = Steps(p),
         NEW l \in SetToSeqs(Steps(p)), Honours(p, l), l # s
  PROVE  ComesBefore(p, s, l)
<1>1. /\ Len(s) \in Nat /\ s \in [1..Len(s) -> Steps(p)] /\ s \in Seq(Steps(p))
      /\ \A i, j \in 1..Len(s) : s[i] = s[j] => i = j
  BY GreedyIsInjective DEF Greedy
<1>2. Len(s) = Len(p.tasks) /\ s \in SetToSeqs(Steps(p))
  BY GreedyCounted
<1>3. /\ l \in Seq(Steps(p)) /\ Len(l) = Len(s) /\ Range(l) = Steps(p) /\ DOMAIN l = 1..Len(s)
      /\ \A i, j \in 1..Len(s) : l[i] = l[j] => i = j
  BY <1>2, ListIsAll
<1>4. PICK D : D = {i \in 1..Len(s) : s[i] # l[i]}
  OBVIOUS
<1>5. D \in SUBSET Nat /\ D # {}
  <2>1. \E i \in 1..Len(s) : s[i] # l[i]
    BY <1>1, <1>3, SeqEqual
  <2> QED
    BY <1>1, <1>4, <2>1
<1>6. PICK k \in D : \A m \in D : k <= m
  BY <1>5, LeastNatural
<1>7. k \in 1..Len(s) /\ s[k] # l[k] /\ \A i \in 1..k - 1 : s[i] = l[i]
  BY <1>1, <1>4, <1>6
<1>8. Before(s, k) = Before(l, k)
  BY <1>7 DEF Before
<1>9. l[k] \in Steps(p) \ Before(l, k)
  BY <1>1, <1>3, <1>7 DEF Before
<1>10. ASSUME NEW u \in Steps(p), <<u.id, l[k].id>> \in p.hard PROVE u \in Before(l, k)
  <2>1. PICK j \in 1..Len(s) : l[j] = u
    BY <1>3 DEF Range
  <2>2. <<l[j].id, l[k].id>> \in p.hard
    BY <1>10, <2>1
  <2>3. j < k
    BY <1>3, <1>7, <2>2 DEF Honours
  <2> QED
    BY <1>1, <1>7, <2>1, <2>3 DEF Before
<1>11. Place(p, s[k].id) <= Place(p, l[k].id)
  BY <1>7, <1>8, <1>9, <1>10 DEF Greedy, Eligible
<1>12. /\ Place(p, s[k].id) \in Nat /\ Place(p, l[k].id) \in Nat
       /\ Place(p, s[k].id) # Place(p, l[k].id)
  BY <1>1, <1>7, <1>9, StepPlaced, PlaceTells
<1>13. Place(p, s[k].id) < Place(p, l[k].id)
  BY <1>11, <1>12
<1> QED
  BY <1>1, <1>7, <1>13 DEF ComesBefore

\* Re-ordering loses nothing, of any plan without a cycle.
LEMMA ReorderKeeps ==
  ASSUME NEW p, Sound(p), ~HasCycle(p)
  PROVE  /\ Sound(Reorder(p)) /\ Steps(Reorder(p)) = Steps(p)
         /\ Reorder(p).hard = p.hard /\ Reorder(p).soft = p.soft
<1>1. PICK lists : lists = {l \in SetToSeqs(Steps(p)) : Honours(p, l)}
  OBVIOUS
<1>2. PICK s : Greedy(p, s) /\ Range(s) = Steps(p)
  BY GreedyExists
<1>3. s \in lists
  <2>1. s \in SetToSeqs(Steps(p))
    BY <1>2, GreedyCounted
  <2>2. /\ Len(s) \in Nat /\ DOMAIN s = 1..Len(s) /\ s \in [1..Len(s) -> Steps(p)]
        /\ \A i, j \in 1..Len(s) : s[i] = s[j] => i = j
    BY <1>2, GreedyIsInjective
  <2>3. ASSUME NEW i \in 1..Len(s), NEW j \in 1..Len(s), <<s[i].id, s[j].id>> \in p.hard
        PROVE  i < j
    <3>1. s[i] \in Steps(p) /\ s[j] \in Eligible(p, Before(s, j))
      BY <1>2, <2>2 DEF Greedy
    <3>2. s[i] \in Before(s, j)
      BY <2>3, <3>1 DEF Eligible
    <3>3. PICK k \in 1..j - 1 : s[k] = s[i]
      BY <3>2 DEF Before
    <3>4. k \in 1..Len(s)
      BY <2>2, <3>3
    <3>5. k = i
      BY <2>2, <3>3, <3>4
    <3> QED
      BY <2>2, <3>3, <3>5
  <2> QED
    BY <1>1, <2>1, <2>2, <2>3 DEF Honours
<1>4. \A m \in lists : m = s \/ ComesBefore(p, s, m)
  BY <1>1, <1>2, GreedyIsLeast
<1>5. PICK l : l = CHOOSE x \in lists : \A m \in lists : m = x \/ ComesBefore(p, x, m)
  OBVIOUS
<1>6. l \in lists
  BY <1>3, <1>4, <1>5
<1>7. Reorder(p) = [p EXCEPT !.tasks = l]
  BY <1>1, <1>5 DEF Reorder
<1>8. /\ l \in Seq(Steps(p)) /\ Len(l) = Len(p.tasks) /\ Range(l) = Steps(p)
      /\ DOMAIN l = 1..Len(p.tasks)
      /\ \A i, j \in 1..Len(p.tasks) : l[i] = l[j] => i = j
  BY <1>1, <1>6, ListIsAll
<1>9. PICK r : r = Reorder(p)
  OBVIOUS
<1>10. r.tasks = l /\ r.hard = p.hard /\ r.soft = p.soft
  BY <1>7, <1>9 DEF Sound, PlanVersion
<1>11. Steps(r) = Steps(p) /\ Ids(r) = Ids(p)
  BY <1>8, <1>10 DEF Steps, Ids
<1>12. r \in PlanVersion
  <2>1. l \in Seq(Task)
    BY <1>8, SoundPlan
  <2> QED
    BY <1>7, <1>9, <2>1 DEF Sound, PlanVersion
<1>13. \A i, j \in DOMAIN r.tasks : r.tasks[i].id = r.tasks[j].id => i = j
  <2> SUFFICES ASSUME NEW i \in 1..Len(p.tasks), NEW j \in 1..Len(p.tasks), l[i].id = l[j].id
               PROVE  i = j
    BY <1>8, <1>10
  <2>1. l[i] \in Steps(p) /\ l[j] \in Steps(p)
    BY <1>8
  <2>2. l[i] = l[j]
    BY <2>1, PlaceTells
  <2> QED
    BY <1>8, <2>2
<1>14. \A t : Consumers(r, t) = Consumers(p, t)
  BY <1>10, <1>11 DEF Consumers
<1>15. ValidPlan(r)
  BY <1>10, <1>11, <1>13, <1>14 DEF Sound, ValidPlan
<1> QED
  BY <1>9, <1>10, <1>11, <1>12, <1>15 DEF Sound


(***************************************************************************)
(* The closer inserts a step: an ordinary one, before a task that lacks    *)
(* something.                                                              *)
(***************************************************************************)

\* q is r with the step s at place k, and whatever was there from k on after it.
Shifted(i, k) == IF i < k THEN i ELSE i + 1
Inserts(q, r, k, s) ==
  /\ k \in 1..Len(r.tasks)
  /\ s \in Task /\ s.id \notin Ids(r) /\ ~s.high /\ s.group = None /\ s.pre = {}
  /\ q \in PlanVersion /\ q.hard = r.hard /\ q.soft = r.soft
  /\ Len(q.tasks) = Len(r.tasks) + 1 /\ q.tasks[k] = s
  /\ \A i \in 1..Len(r.tasks) : q.tasks[Shifted(i, k)] = r.tasks[i]

LEMMA GapIs ==
  ASSUME NEW p, Sound(p), NEW g \in Gaps(p)
  PROVE  /\ g[1] \in 1..Len(p.tasks) /\ g[2] \in p.tasks[g[1]].pre
         /\ <<g[2].fact, p.tasks[g[1]].id>> \in Facts \X Tasks
         /\ ~Grounded(g[2], EstablishedBefore(p, g[1])) /\ g = <<g[1], g[2]>>
<1>1. PICK i, c : /\ i \in 1..Len(p.tasks) /\ c \in p.tasks[i].pre /\ g = <<i, c>>
                  /\ ~Grounded(c, EstablishedBefore(p, i))
  BY SoundPlan DEF Gaps
<1>2. p.tasks[i] \in Task
  BY <1>1, SoundPlan
<1>3. c.fact \in Facts /\ p.tasks[i].id \in Tasks
  BY <1>1, <1>2 DEF Task
<1>4. g[1] = i /\ g[2] = c
  BY <1>1
<1> QED
  BY <1>1, <1>3, <1>4

\* If there is a gap to close, there is a first one.
LEMMA FirstClosableExists ==
  ASSUME NEW r, Sound(r), Closable(r) # {}
  PROVE  FirstClosable(r) # {}
<1>1. PICK places : places = {g[1] : g \in Closable(r)}
  OBVIOUS
<1>2. Closable(r) \subseteq Gaps(r)
  BY DEF Closable
<1>3. \A g \in Closable(r) : g[1] \in Nat
  <2> SUFFICES ASSUME NEW g \in Gaps(r) PROVE g[1] \in Nat
    BY <1>2
  <2>1. g[1] \in 1..Len(r.tasks) /\ Len(r.tasks) \in Nat
    BY GapIs, SoundPlan
  <2> QED
    BY <2>1
<1>4. places \in SUBSET Nat /\ places # {}
  BY <1>1, <1>3
<1>5. PICK n \in places : \A m \in places : n <= m
  BY <1>4, LeastNatural
<1> QED
  BY <1>1, <1>5 DEF FirstClosable

LEMMA CloseInserts ==
  ASSUME NEW r, Sound(r), NEW g \in FirstClosable(r)
  PROVE  \E k, s : Inserts(Close(r, g), r, k, s)
<1>6. g \in Closable(r) /\ g \in Gaps(r)
  BY DEF FirstClosable, Closable
<1>7. PICK k, s, n : k = g[1] /\ s = StepFor(r, g) /\ n = Len(r.tasks)
  OBVIOUS
<1>8. k \in 1..n /\ n \in Nat /\ r.tasks \in Seq(Task)
  BY <1>6, <1>7, GapIs, SoundPlan
<1>9. s \in Task /\ s.id \notin Ids(r) /\ ~s.high /\ s.group = None /\ s.pre = {}
  <2>1. PICK f \in Facts, id \in Tasks : f = g[2].fact /\ id = r.tasks[g[1]].id
    BY <1>6, GapIs
  <2>2. s = Templates[f][id] /\ s # NoStep /\ s.id \notin Ids(r)
    BY <1>6, <1>7, <2>1 DEF Closable, StepFor
  <2>3. Templates \in [Facts -> [Tasks -> Task \cup {NoStep}]]
    BY ReviewAssumption, Zenon
  <2>4. Templates[f][id] # NoStep =>
          /\ ~Templates[f][id].high /\ Templates[f][id].group = None
          /\ Templates[f][id].pre = {}
    BY ReviewAssumption, Zenon
  <2>5. s \in Task
    BY <2>1, <2>2, <2>3
  <2>6. ~s.high /\ s.group = None /\ s.pre = {}
    BY <2>2, <2>4, Zenon
  <2> QED
    BY <2>2, <2>5, <2>6, Zenon
<1>10. PICK l : l = InsertAt(r.tasks, k, s)
  OBVIOUS
<1>11. Close(r, g) = [r EXCEPT !.tasks = l]
  BY <1>7, <1>10 DEF Close
<1>12. PICK a, b : a = SubSeq(r.tasks, 1, k - 1) /\ b = SubSeq(r.tasks, k, n)
  OBVIOUS
<1>13. /\ a \in Seq(Task) /\ Len(a) = k - 1 /\ \A i \in 1..k - 1 : a[i] = r.tasks[i]
  BY <1>8, <1>12, <1>7
<1>14. /\ b \in Seq(Task) /\ Len(b) = n + 1 - k
       /\ \A i \in 1..n + 1 - k : b[i] = r.tasks[k + i - 1]
  <2>1. k \in Int /\ n \in Int /\ k <= n /\ \A i \in k..n : r.tasks[i] \in Task
    BY <1>7, <1>8
  <2>2. n - k + 1 = n + 1 - k
    BY <2>1
  <2> QED
    BY <1>12, <2>1, <2>2, SubSeqProperties
<1>15. PICK m : m = a \o <<s>>
  OBVIOUS
<1>16. /\ m \in Seq(Task) /\ Len(m) = k
       /\ m[k] = s /\ \A i \in 1..k - 1 : m[i] = r.tasks[i]
  BY <1>8, <1>9, <1>13, <1>15
<1>17. l = m \o b
  BY <1>7, <1>10, <1>12, <1>15 DEF InsertAt
<1>18. /\ l \in Seq(Task) /\ Len(l) = n + 1
       /\ \A i \in 1..k : l[i] = m[i]
       /\ \A i \in 1..n + 1 - k : l[k + i] = b[i]
  <2>1. /\ l \in Seq(Task) /\ Len(l) = k + (n + 1 - k)
        /\ \A i \in 1..k + (n + 1 - k) : l[i] = IF i <= k THEN m[i] ELSE b[i - k]
    <3>1. m \in Seq(Task) /\ b \in Seq(Task) /\ Len(m) = k /\ Len(b) = n + 1 - k
      BY <1>14, <1>16
    <3>2. /\ l \in Seq(Task) /\ Len(l) = Len(m) + Len(b)
          /\ \A i \in 1..Len(m) + Len(b) : l[i] = IF i <= Len(m) THEN m[i] ELSE b[i - Len(m)]
      BY <1>17, <3>1, ConcatProperties
    <3> QED
      BY <3>1, <3>2
  <2>2. k + (n + 1 - k) = n + 1
    BY <1>8
  <2>3. ASSUME NEW i \in 1..k PROVE l[i] = m[i]
    <3>1. i \in Int /\ 1 <= i /\ i <= k /\ k <= n /\ n \in Nat /\ k \in Int
      BY <1>8
    <3>2. i \in 1..k + (n + 1 - k)
      BY <2>2, <3>1
    <3>3. l[i] = IF i <= k THEN m[i] ELSE b[i - k]
      BY <2>1, <3>2
    <3> QED
      BY <3>1, <3>3
  <2>4. ASSUME NEW i \in 1..n + 1 - k PROVE l[k + i] = b[i]
    <3>1. i \in Int /\ 1 <= i /\ i <= n + 1 - k /\ 1 <= k /\ n \in Int /\ k \in Int
      BY <1>8
    <3>2. k + i \in 1..n + 1 /\ ~(k + i <= k) /\ k + i - k = i
      BY <3>1
    <3>3. PICK x : x = k + i
      OBVIOUS
    <3>4. x \in 1..n + 1 /\ ~(x <= k) /\ x - k = i
      BY <3>1, <3>3
    <3>5. l[x] = IF x <= k THEN m[x] ELSE b[x - k]
      <4>1. \A y \in 1..n + 1 : l[y] = IF y <= k THEN m[y] ELSE b[y - k]
        BY <2>1, <2>2, Zenon
      <4> QED
        BY <3>4, <4>1
    <3> QED
      BY <3>3, <3>4, <3>5
  <2> QED
    BY <2>1, <2>2, <2>3, <2>4
<1>19. ASSUME NEW i \in 1..n PROVE l[Shifted(i, k)] = r.tasks[i]
  <2>1. CASE i < k
    BY <1>8, <1>16, <1>18, <2>1 DEF Shifted
  <2>2. CASE ~(i < k)
    <3>1. i + 1 - k \in 1..n + 1 - k /\ k + (i + 1 - k) = i + 1 /\ k + (i + 1 - k) - 1 = i
      BY <1>8, <2>2
    <3>2. l[i + 1] = b[i + 1 - k]
      BY <1>18, <3>1
    <3>3. b[i + 1 - k] = r.tasks[i]
      BY <1>14, <3>1
    <3> QED
      BY <2>2, <3>2, <3>3 DEF Shifted
  <2> QED
    BY <2>1, <2>2
<1>20. l[k] = s
  BY <1>8, <1>16, <1>18
<1>21. PICK q : q = Close(r, g)
  OBVIOUS
<1>22. q \in PlanVersion /\ q.tasks = l /\ q.hard = r.hard /\ q.soft = r.soft
  BY <1>11, <1>18, <1>21 DEF Sound, PlanVersion
<1>23. Inserts(q, r, k, s)
  BY <1>7, <1>8, <1>9, <1>18, <1>19, <1>20, <1>22 DEF Inserts
<1> QED
  BY <1>21, <1>23


\* Nothing that was there changes but by one place, after the new step.
LEMMA InsertedPlan ==
  ASSUME NEW q, NEW r, NEW k, NEW s, Sound(r), Inserts(q, r, k, s)
  PROVE  /\ Sound(q) /\ Steps(q) = Steps(r) \cup {s} /\ s \notin Steps(r)
         /\ \A i \in 1..Len(q.tasks) :
              \/ i = k /\ q.tasks[i] = s
              \/ \E j \in 1..Len(r.tasks) : i = Shifted(j, k) /\ q.tasks[i] = r.tasks[j]
         /\ \A v \in Ids(r) : Place(q, v) = Shifted(Place(r, v), k) /\ Place(r, v) \in Nat
<1>1. PICK n : n = Len(r.tasks)
  OBVIOUS
<1>2. /\ k \in 1..n /\ n \in Nat /\ Len(q.tasks) = n + 1 /\ q.tasks \in Seq(Task)
      /\ DOMAIN q.tasks = 1..n + 1 /\ DOMAIN r.tasks = 1..n
  BY <1>1, SoundPlan DEF Inserts, PlanVersion
<1>3. q.tasks[k] = s /\ \A j \in 1..n : q.tasks[Shifted(j, k)] = r.tasks[j]
  BY <1>1 DEF Inserts
<1>4. ASSUME NEW i \in 1..n + 1
      PROVE  i = k \/ \E j \in 1..n : i = Shifted(j, k)
  <2>1. CASE i < k
    <3>1. i \in 1..n /\ i = Shifted(i, k)
      BY <1>2, <2>1 DEF Shifted
    <3> QED
      BY <3>1
  <2>2. CASE i > k
    <3>1. i - 1 \in 1..n /\ i = Shifted(i - 1, k)
      BY <1>2, <2>2 DEF Shifted
    <3> QED
      BY <3>1
  <2> QED
    BY <1>2, <2>1, <2>2
<1>5. \A j \in 1..n : Shifted(j, k) \in 1..n + 1 /\ Shifted(j, k) # k
  BY <1>2 DEF Shifted
<1>6. \A i, j \in 1..n : Shifted(i, k) = Shifted(j, k) => i = j
  BY <1>2 DEF Shifted
<1>7. /\ Steps(r) = {r.tasks[i] : i \in 1..n} /\ s \notin Steps(r)
      /\ \A i \in 1..n : r.tasks[i].id \in Ids(r)
  <2>1. Steps(r) = {r.tasks[i] : i \in 1..n}
    BY <1>1, SoundPlan
  <2> QED
    BY <2>1 DEF Ids, Inserts
<1>8. Steps(q) = Steps(r) \cup {s} /\ Ids(q) = Ids(r) \cup {s.id}
  <2>1. Steps(q) = {q.tasks[i] : i \in 1..n + 1}
    BY <1>2 DEF Steps, Range
  <2>2. Steps(q) = Steps(r) \cup {s}
    <3>1. ASSUME NEW t \in Steps(q) PROVE t \in Steps(r) \cup {s}
      <4>1. PICK i \in 1..n + 1 : t = q.tasks[i]
        BY <2>1
      <4>2. CASE i = k
        BY <1>3, <4>1, <4>2
      <4>3. CASE i # k
        <5>1. PICK j \in 1..n : i = Shifted(j, k)
          BY <1>4, <4>3
        <5> QED
          BY <1>3, <1>7, <4>1, <5>1
      <4> QED
        BY <4>2, <4>3
    <3>2. s \in Steps(q)
      BY <1>2, <1>3, <2>1
    <3>3. ASSUME NEW t \in Steps(r) PROVE t \in Steps(q)
      <4>1. PICK j \in 1..n : t = r.tasks[j]
        BY <1>7
      <4> QED
        BY <1>3, <1>5, <2>1, <4>1
    <3> QED
      BY <3>1, <3>2, <3>3
  <2> QED
    BY <2>2 DEF Ids
<1>9. ASSUME NEW i \in 1..n + 1, NEW j \in 1..n + 1, q.tasks[i].id = q.tasks[j].id
      PROVE  i = j
  <2>1. s.id \notin Ids(r)
    BY DEF Inserts
  <2>2. CASE i = k \/ j = k
    <3>1. ASSUME NEW x \in 1..n + 1, x # k PROVE q.tasks[x].id \in Ids(r)
      <4>1. PICK y \in 1..n : x = Shifted(y, k)
        BY <1>4, <3>1
      <4> QED
        BY <1>3, <1>7, <4>1
    <3>2. q.tasks[k].id \notin Ids(r)
      BY <1>3, <2>1
    <3>3. CASE i = k
      BY <1>9, <3>1, <3>2, <3>3
    <3>4. CASE j = k
      BY <1>9, <3>1, <3>2, <3>4
    <3> QED
      BY <2>2, <3>3, <3>4
  <2>3. CASE i # k /\ j # k
    <3>1. PICK x \in 1..n, y \in 1..n : i = Shifted(x, k) /\ j = Shifted(y, k)
      BY <1>4, <2>3
    <3>2. r.tasks[x].id = r.tasks[y].id
      BY <1>3, <1>9, <3>1
    <3>3. x = y
      BY <1>1, <3>2, SoundPlan
    <3> QED
      BY <3>1, <3>3
  <2> QED
    BY <2>2, <2>3
<1>10. /\ q.hard = r.hard /\ q.soft = r.soft /\ q \in PlanVersion
       /\ \A e \in r.hard \cup r.soft : e[1] \in Ids(r) /\ e[2] \in Ids(r) /\ e[1] # e[2]
  BY SoundPlan DEF Inserts
<1>11. ASSUME NEW t \in Steps(q), NEW u \in Consumers(q, t)
       PROVE  t.group = None \/ t.group # u.group
  <2>1. <<t.id, u.id>> \in r.hard /\ u \in Steps(q)
    BY <1>10 DEF Consumers
  <2>2. t.id \in Ids(r) /\ u.id \in Ids(r)
    BY <1>10, <2>1
  <2>3. t \in Steps(r) /\ u \in Steps(r)
    BY <1>8, <2>1, <2>2 DEF Inserts
  <2>4. u \in Consumers(r, t)
    BY <2>1, <2>3 DEF Consumers
  <2> QED
    BY <2>3, <2>4 DEF Sound, ValidPlan
<1>12. Sound(q)
  BY <1>2, <1>8, <1>9, <1>10, <1>11 DEF Sound, ValidPlan
<1>13. ASSUME NEW v \in Ids(r)
       PROVE  Place(q, v) = Shifted(Place(r, v), k) /\ Place(r, v) \in Nat
  <2>1. PICK t \in Steps(r) : v = t.id
    BY DEF Ids
  <2>2. PICK j : j = Place(r, v)
    OBVIOUS
  <2>3. j \in 1..n /\ r.tasks[j] = t
    BY <1>1, <2>1, <2>2, StepPlaced
  <2>4. Shifted(j, k) \in 1..n + 1 /\ q.tasks[Shifted(j, k)] = t
    BY <1>3, <1>5, <2>3
  <2>5. Place(q, q.tasks[Shifted(j, k)].id) = Shifted(j, k)
    BY <1>2, <1>12, <2>4, PlaceIs
  <2> QED
    BY <2>1, <2>2, <2>3, <2>4, <2>5
<1>14. ASSUME NEW i \in 1..Len(q.tasks)
       PROVE  \/ i = k /\ q.tasks[i] = s
              \/ \E j \in 1..Len(r.tasks) : i = Shifted(j, k) /\ q.tasks[i] = r.tasks[j]
  BY <1>1, <1>2, <1>3, <1>4
<1> QED
  BY <1>7, <1>8, <1>12, <1>13, <1>14

\* The order of the tasks is as it was.
LEMMA InsertedOrder ==
  ASSUME NEW q, NEW r, NEW k, NEW s, Sound(r), Inserts(q, r, k, s),
         NEW u \in Ids(r), NEW v \in Ids(r)
  PROVE  /\ Place(q, u) < Place(q, v) <=> Place(r, u) < Place(r, v)
         /\ Place(q, u) > Place(q, v) <=> Place(r, u) > Place(r, v)
         /\ Place(q, u) <= Place(q, v) <=> Place(r, u) <= Place(r, v)
<1>1. /\ Place(q, u) = Shifted(Place(r, u), k) /\ Place(r, u) \in Nat
      /\ Place(q, v) = Shifted(Place(r, v), k) /\ Place(r, v) \in Nat
  BY InsertedPlan
<1>2. k \in Nat
  BY SoundPlan DEF Inserts
<1> QED
  BY <1>1, <1>2 DEF Shifted



\* The new step consumes nothing, feeds nobody, and is no high-risk task.
LEMMA InsertedIsPlain ==
  ASSUME NEW q, NEW r, NEW k, NEW s, Sound(r), Inserts(q, r, k, s)
  PROVE  /\ \A t \in Steps(q) : t.high => t \in Steps(r)
         /\ \A t \in Steps(q) : t.group # None => t \in Steps(r)
         /\ \A t \in Steps(q) : t.pre # {} => t \in Steps(r)
         /\ \A t : Consumers(q, t) = Consumers(r, t)
         /\ Steps(r) \subseteq Steps(q)
<1>1. Steps(q) = Steps(r) \cup {s} /\ q.hard = r.hard /\ s.id \notin Ids(r)
  <2>1. Steps(q) = Steps(r) \cup {s}
    BY InsertedPlan
  <2> QED
    BY <2>1 DEF Inserts
<1>2. \A e \in r.hard : e[2] \in Ids(r)
  BY SoundPlan
<1>3. \A t : <<t.id, s.id>> \notin r.hard
  BY <1>1, <1>2
<1>4. ASSUME NEW t PROVE Consumers(q, t) = Consumers(r, t)
  BY <1>1, <1>3 DEF Consumers
<1> QED
  BY <1>1, <1>4 DEF Inserts

LEMMA InsertionOrderingSane ==
  ASSUME NEW q, NEW r, NEW k, NEW s, Sound(r), Inserts(q, r, k, s)
  PROVE  /\ SchemaValid(q) = {}
         /\ NoDepCycles(q) \subseteq NoDepCycles(r)
         /\ OrderingSane(q) \subseteq OrderingSane(r)
<1>1. SchemaValid(q) = {}
  <2>1. Len(q.tasks) = Len(r.tasks) + 1 /\ Len(r.tasks) \in Nat
    BY SoundPlan DEF Inserts
  <2>2. Len(<<>>) = 0
    OBVIOUS
  <2> QED
    BY <2>1, <2>2 DEF SchemaValid, When
<1>2. q.hard = r.hard /\ \A e \in r.hard : e[1] \in Ids(r) /\ e[2] \in Ids(r)
  BY SoundPlan DEF Inserts
<1>3. HasCycle(q) => HasCycle(r)
  <2> SUFFICES ASSUME NEW S \in SUBSET Ids(q), S # {},
                      \A v \in S : \E u \in S : <<u, v>> \in q.hard
               PROVE  HasCycle(r)
    BY DEF HasCycle
  <2>1. ASSUME NEW v \in S PROVE v \in Ids(r)
    <3>1. PICK u \in S : <<u, v>> \in r.hard
      BY <1>2
    <3> QED
      BY <1>2, <3>1
  <2> QED
    BY <1>2, <2>1 DEF HasCycle
<1>4. \A e \in r.hard : Place(q, e[1]) > Place(q, e[2]) => Place(r, e[1]) > Place(r, e[2])
  BY <1>2, InsertedOrder
<1>5. NoDepCycles(q) \subseteq NoDepCycles(r)
  BY <1>3 DEF NoDepCycles, When
<1>6. ASSUME NEW f \in OrderingSane(q) PROVE f \in OrderingSane(r)
  <2>1. PICK e \in q.hard : Place(q, e[1]) > Place(q, e[2]) /\ f = Blocker("unsafe_ordering", e[2])
    BY <1>6 DEF OrderingSane
  <2> QED
    BY <1>2, <1>4, <2>1 DEF OrderingSane
<1> QED
  BY <1>1, <1>5, <1>6

LEMMA InsertionVerified ==
  ASSUME NEW q, NEW r, NEW k, NEW s, Sound(r), Inserts(q, r, k, s)
  PROVE  /\ VerificationPresent(q) \subseteq VerificationPresent(r)
         /\ RollbackPresent(q) \subseteq RollbackPresent(r)
         /\ VerificationOrdering(q) \subseteq VerificationOrdering(r)
<1>1. /\ \A t \in Steps(q) : t.high => t \in Steps(r)
      /\ \A t \in Steps(q) : t.group # None => t \in Steps(r)
      /\ \A t : Consumers(q, t) = Consumers(r, t)
  BY InsertedIsPlain
<1>2. ASSUME NEW t \in Verified(q)
      PROVE  /\ t \in Verified(r)
             /\ EarlyConsumers(q, t) \subseteq EarlyConsumers(r, t)
             /\ Racing(q, t) \subseteq Racing(r, t)
  <2>1. t \in Steps(r) /\ t \in Verified(r)
    BY <1>1, <1>2 DEF Verified
  <2>2. Racing(q, t) \subseteq Racing(r, t)
    BY <1>1 DEF Racing
  <2>3. ASSUME NEW u \in EarlyConsumers(q, t) PROVE u \in EarlyConsumers(r, t)
    <3>1. u \in Consumers(r, t)
      BY <1>1 DEF EarlyConsumers
    <3>2. t.id \in Ids(r) /\ u.id \in Ids(r)
      BY <2>1, <3>1 DEF Consumers, Ids
    <3>3. /\ Place(q, u.id) > Place(q, t.id) <=> Place(r, u.id) > Place(r, t.id)
          /\ Place(q, u.id) < Place(q, t.id) <=> Place(r, u.id) < Place(r, t.id)
      BY <3>2, InsertedOrder
    <3> QED
      BY <2>3, <3>1, <3>3 DEF EarlyConsumers
  <2> QED
    BY <2>1, <2>2, <2>3
<1>3. VerificationOrdering(q) \subseteq VerificationOrdering(r)
  <2> SUFFICES ASSUME NEW f \in VerificationOrdering(q) PROVE f \in VerificationOrdering(r)
    OBVIOUS
  <2>1. PICK t \in Verified(q) : \E u \in EarlyConsumers(q, t) \cup Racing(q, t) :
          f = Blocker("verification_after_consumer", u.id)
    BY DEF VerificationOrdering
  <2> PICK u \in EarlyConsumers(q, t) \cup Racing(q, t) :
          f = Blocker("verification_after_consumer", u.id)
    BY <2>1
  <2>2. t \in Verified(r) /\ u \in EarlyConsumers(r, t) \cup Racing(r, t)
    BY <1>2, <2>1
  <2> QED
    BY <2>1, <2>2 DEF VerificationOrdering
<1> QED
  BY <1>1, <1>3 DEF VerificationPresent, RollbackPresent


LEMMA InsertionRollbackCredible ==
  ASSUME NEW q, NEW r, NEW k, NEW s, Sound(r), Inserts(q, r, k, s)
  PROVE  RollbackCredible(q) \subseteq RollbackCredible(r)
<1>1. /\ \A t \in Steps(q) : t.high => t \in Steps(r)
      /\ \A t \in Steps(q) : t.pre # {} => t \in Steps(r)
      /\ \A t : Consumers(q, t) = Consumers(r, t)
  BY InsertedIsPlain
<1>2. ASSUME NEW t \in Steps(q), t.high
      PROVE  Stranded(q, t) \subseteq Stranded(r, t)
  <2> SUFFICES ASSUME NEW u \in Stranded(q, t) PROVE u \in Stranded(r, t)
    OBVIOUS
  <2>1. t \in Steps(r) /\ t.id \in Ids(r)
    BY <1>1, <1>2 DEF Ids
  <2>2. CASE u \in Consumers(q, t)
    <3>1. u \in Consumers(r, t) /\ u \in Steps(r)
      BY <1>1, <2>2 DEF Consumers
    <3> QED
      BY <3>1 DEF Stranded
  <2>3. CASE u \notin Consumers(q, t)
    <3>1. Place(q, u.id) > Place(q, t.id) /\ \E c \in u.pre : c.by = t.id
      BY <2>3 DEF Stranded
    <3>2. u \in Steps(r) /\ u.id \in Ids(r)
      BY <1>1, <3>1 DEF Stranded, Ids
    <3>3. Place(r, u.id) > Place(r, t.id)
      BY <2>1, <3>1, <3>2, InsertedOrder
    <3> QED
      BY <3>1, <3>2, <3>3 DEF Stranded
  <2> QED
    BY <2>2, <2>3
<1> DEFINE Said(p, t) ==
      When(t.rollback # "none" /\ t.action \in NonReversible,
           {Blocker("rollback_unreachable", t.id)})
      \cup {Blocker("rollback_self_dependent", t.id) : c \in {d \in t.pre : d.by = t.id}}
      \cup When(t.rollback = "prose",
                {Warning("rollback_state_undeclared", t.id)}
                \cup {Blocker(IF u \in Consumers(p, t) THEN "rollback_post_consumed"
                                                       ELSE "rollback_inconsistent_state",
                              u.id) : u \in Stranded(p, t)})
<1>3. \A p : RollbackCredible(p) = UNION {Said(p, t) : t \in {u \in Steps(p) : u.high}}
  BY DEF RollbackCredible
<1>4. ASSUME NEW t \in Steps(q), t.high
      PROVE  Said(q, t) \subseteq Said(r, t)
  <2>1. Stranded(q, t) \subseteq Stranded(r, t) /\ Consumers(q, t) = Consumers(r, t)
    BY <1>1, <1>2, <1>4
  <2> QED
    BY <2>1 DEF When
<1> HIDE DEF Said
<1> SUFFICES ASSUME NEW f \in RollbackCredible(q) PROVE f \in RollbackCredible(r)
  OBVIOUS
<1>5. PICK t \in Steps(q) : t.high /\ f \in Said(q, t)
  BY <1>3
<1>6. t \in Steps(r) /\ f \in Said(r, t)
  BY <1>1, <1>4, <1>5
<1> QED
  BY <1>3, <1>5, <1>6

\* A later place has at least the facts it had.
LEMMA InsertionPreconditions ==
  ASSUME NEW q, NEW r, NEW k, NEW s, Sound(r), Inserts(q, r, k, s)
  PROVE  PreconditionsReferenced(q) \subseteq PreconditionsReferenced(r)
<1>1. k \in Nat /\ Len(r.tasks) \in Nat /\ s.pre = {}
  BY SoundPlan DEF Inserts
<1>2. ASSUME NEW j \in 1..Len(r.tasks)
      PROVE  EstablishedBefore(r, j) \subseteq EstablishedBefore(q, Shifted(j, k))
  <2> SUFFICES ASSUME NEW f \in EstablishedBefore(r, j)
               PROVE  f \in EstablishedBefore(q, Shifted(j, k))
    OBVIOUS
  <2>1. PICK i \in 1..j - 1 : f \in TaskFacts(r.tasks[i])
    BY DEF EstablishedBefore
  <2>2. i \in 1..Len(r.tasks) /\ Shifted(i, k) \in 1..Shifted(j, k) - 1
    BY <1>1 DEF Shifted
  <2>3. q.tasks[Shifted(i, k)] = r.tasks[i]
    BY <2>2 DEF Inserts
  <2> QED
    BY <2>1, <2>2, <2>3 DEF EstablishedBefore
<1>3. ASSUME NEW g \in Gaps(q)
      PROVE  \E h \in Gaps(r) : q.tasks[g[1]].id = r.tasks[h[1]].id
  <2>1. Sound(q)
    BY InsertedPlan
  <2>2. /\ g[1] \in 1..Len(q.tasks) /\ g[2] \in q.tasks[g[1]].pre
        /\ ~Grounded(g[2], EstablishedBefore(q, g[1]))
    BY <2>1, GapIs
  <2>3. \/ g[1] = k /\ q.tasks[g[1]] = s
        \/ \E j \in 1..Len(r.tasks) : g[1] = Shifted(j, k) /\ q.tasks[g[1]] = r.tasks[j]
    BY <2>2, InsertedPlan
  <2>4. PICK j \in 1..Len(r.tasks) : g[1] = Shifted(j, k) /\ q.tasks[g[1]] = r.tasks[j]
    BY <1>1, <2>2, <2>3
  <2>5. ~Grounded(g[2], EstablishedBefore(r, j))
    BY <1>2, <2>2, <2>4 DEF Grounded
  <2>6. j \in DOMAIN r.tasks
    BY SoundPlan
  <2>7. <<j, g[2]>> \in Gaps(r)
    BY <2>2, <2>4, <2>5, <2>6 DEF Gaps
  <2> QED
    BY <2>4, <2>7
<1> QED
  BY <1>3 DEF PreconditionsReferenced

LEMMA InsertionParallelSafety ==
  ASSUME NEW q, NEW r, NEW k, NEW s, Sound(r), Inserts(q, r, k, s)
  PROVE  ParallelSafety(q) \subseteq ParallelSafety(r)
<1>1. /\ \A t \in Steps(q) : t.high => t \in Steps(r)
      /\ Steps(r) \subseteq Steps(q)
  BY InsertedIsPlain
<1>2. \A g : {u \in Steps(q) : u.high /\ u.group = g} = {u \in Steps(r) : u.high /\ u.group = g}
  BY <1>1
<1>3. Crowded(q) = Crowded(r)
  BY <1>1, <1>2 DEF Crowded
<1>4. \A u, v \in Crowded(r) : Place(q, u.id) <= Place(q, v.id) => Place(r, u.id) <= Place(r, v.id)
  <2>1. \A u \in Crowded(r) : u.id \in Ids(r)
    BY DEF Crowded, Ids
  <2> QED
    BY <2>1, InsertedOrder
<1> QED
  BY <1>3, <1>4 DEF ParallelSafety

LEMMA InsertionHelps ==
  ASSUME NEW q, NEW r, NEW k, NEW s, Sound(r), Inserts(q, r, k, s),
         NEW f \in StandardFindings(q), IsBlocker(f)
  PROVE  f \in StandardFindings(r)
<1>1. f \notin RequirementTrace(q)
  BY DEF RequirementTrace, Warning, IsBlocker
<1>2. \/ f \in NoDepCycles(r) \cup OrderingSane(r)
      \/ f \in VerificationPresent(r) \cup VerificationOrdering(r) \cup RollbackPresent(r)
      \/ f \in RollbackCredible(r) \cup PreconditionsReferenced(r) \cup ParallelSafety(r)
  BY <1>1, InsertionOrderingSane, InsertionVerified, InsertionRollbackCredible,
     InsertionPreconditions, InsertionParallelSafety DEF StandardFindings
<1> QED
  BY <1>2 DEF StandardFindings


LEMMA RepairHelps ==
  ASSUME NEW p, NEW pk, Sound(p), NEW r, r = AfterRepair(p, pk)
  PROVE  /\ Sound(r) /\ Steps(r) = Steps(p) /\ r.hard = p.hard /\ r.soft = p.soft
         /\ \A f \in StandardFindings(r) : IsBlocker(f) => f \in StandardFindings(p)
<1>1. CASE Repairable(p, pk)
  <2>1. r = Reorder(p) /\ Blockers(Reorder(p), pk) = {}
    BY <1>1 DEF AfterRepair, Repairable
  <2>2. ~HasCycle(p)
    <3>1. SUFFICES ASSUME HasCycle(p) PROVE FALSE
      OBVIOUS
    <3>2. Blocker("dependency_cycle", NoTask) \in StandardFindings(p)
      BY <3>1 DEF StandardFindings, NoDepCycles, When
    <3>3. Blocker("dependency_cycle", NoTask) \in Blockers(p, pk)
      BY <3>2 DEF Blockers, GateFindings, IsBlocker, Blocker
    <3>4. Blocker("dependency_cycle", NoTask).code = "unsafe_ordering"
      BY <1>1, <3>3 DEF Repairable
    <3> QED
      BY <3>4 DEF Blocker
  <2>3. \A f \in StandardFindings(r) : ~IsBlocker(f)
    BY <2>1 DEF Blockers, GateFindings
  <2> QED
    BY <2>1, <2>2, <2>3, ReorderKeeps
<1>2. CASE ~Repairable(p, pk)
  BY <1>2 DEF AfterRepair
<1> QED
  BY <1>1, <1>2

\* What the fixes may do, for every plan and every pack.
LEMMA FixesHelp ==
  ASSUME NEW p, NEW pk, Sound(p), NEW q \in AfterFixes(p, pk)
  PROVE  /\ Sound(q) /\ Steps(p) \subseteq Steps(q) /\ q.hard = p.hard /\ q.soft = p.soft
         /\ \A f \in StandardFindings(q) : IsBlocker(f) => f \in StandardFindings(p)
<1>1. PICK r : r = AfterRepair(p, pk)
  OBVIOUS
<1>2. /\ Sound(r) /\ Steps(r) = Steps(p) /\ r.hard = p.hard /\ r.soft = p.soft
      /\ \A f \in StandardFindings(r) : IsBlocker(f) => f \in StandardFindings(p)
  BY <1>1, RepairHelps
<1>3. q \in IF Closable(r) = {} THEN {r} ELSE {Close(r, g) : g \in FirstClosable(r)}
  BY <1>1 DEF AfterFixes
<1>4. CASE Closable(r) # {}
  <2>1. PICK k, s : Inserts(q, r, k, s)
    BY <1>2, <1>3, <1>4, CloseInserts
  <2>2. Sound(q) /\ Steps(r) \subseteq Steps(q)
    BY <1>2, <2>1, InsertedPlan
  <2>3. q.hard = r.hard /\ q.soft = r.soft
    BY <2>1 DEF Inserts
  <2>4. \A f \in StandardFindings(q) : IsBlocker(f) => f \in StandardFindings(r)
    BY <1>2, <2>1, InsertionHelps
  <2> QED
    BY <1>2, <2>2, <2>3, <2>4
<1>5. CASE Closable(r) = {}
  BY <1>2, <1>3, <1>5
<1> QED
  BY <1>4, <1>5

(***************************************************************************)
(* The inductive invariant: what a run knows of the plan it holds          *)
(***************************************************************************)

\* The plan and the judged one are plans the schema accepts.
PlansAreSound == pack \in DOMAIN Drafts /\ Sound(plan) /\ Sound(prior)

\* What the findings cover: the gates, from when they have run on the plan, and the
\* audit of the scope, from when the critic has answered; a run that is approved
\* meets the threshold with them.
FindingsCover ==
  /\ pc \in {"dispatch", "judge", "running", "rolled_back"} => GateFindings(plan, pack) \subseteq findings
  /\ pc \in {"judge", "running", "rolled_back"} => Audit(plan, Scope) \subseteq findings
  /\ pc \in {"running", "rolled_back"} => MeetsThreshold(findings, posture)

\* Tasks start in list order, but for those that run together.
StartedInOrder ==
  /\ started \subseteq Ids(plan) /\ completed \subseteq started
  /\ pc \notin {"running", "rolled_back"} => started = {}
  /\ \A t \in Steps(plan) : t.id \in started =>
       \A u \in Steps(plan) : Place(plan, u.id) < Place(plan, t.id) =>
         u.id \in completed \/ SameGroup(u, t)

ReviewInv == PlansAreSound /\ FindingsCover /\ StartedInOrder


LEMMA InitReviewInv == Init => ReviewInv
<1> SUFFICES ASSUME Init PROVE ReviewInv
  OBVIOUS
<1>1. Sound(NoPlan)
  <2>1. NoPlan \in PlanVersion
    BY DEF NoPlan, PlanVersion
  <2>2. DOMAIN NoPlan.tasks = {} /\ Steps(NoPlan) = {} /\ NoPlan.hard = {} /\ NoPlan.soft = {}
    BY DEF NoPlan, Steps, Range
  <2> QED
    BY <2>1, <2>2 DEF Sound, ValidPlan
<1>2. PlansAreSound
  BY <1>1 DEF Init, PlansAreSound
<1>3. FindingsCover /\ StartedInOrder
  BY DEF Init, FindingsCover, StartedInOrder
<1> QED
  BY <1>2, <1>3 DEF ReviewInv

LEMMA DraftsAreSound ==
  ASSUME NEW pk \in DOMAIN Drafts, NEW p \in Drafts[pk] \cup Revisions[pk]
  PROVE  Sound(p)
BY ReviewAssumption DEF Sound

LEMMA StepReviewInv ==
  ASSUME ReviewInv, [Next]_vars
  PROVE  ReviewInv'
<1> USE DEF ReviewInv
<1>1. CASE Decompose
  <2>1. Sound(plan')
    BY <1>1, DraftsAreSound DEF Decompose, PlansAreSound
  <2>2. pc' = "gates" /\ started' = {} /\ completed' = {}
    BY <1>1 DEF Decompose, StartedInOrder
  <2>3. PlansAreSound'
    BY <1>1, <2>1 DEF Decompose, PlansAreSound, Sound
  <2> QED
    BY <2>2, <2>3 DEF FindingsCover, StartedInOrder
<1>2. CASE RunGates
  <2>1. Sound(plan')
    BY <1>2, FixesHelp DEF RunGates, PlansAreSound
  <2>2. pc' = "dispatch" /\ started' = {} /\ completed' = {}
    BY <1>2 DEF RunGates, StartedInOrder
  <2>3. PlansAreSound'
    BY <1>2, <2>1 DEF RunGates, PlansAreSound, Sound
  <2>4. GateFindings(plan', pack') \subseteq findings'
    BY <1>2 DEF RunGates
  <2> QED
    BY <2>2, <2>3, <2>4 DEF FindingsCover, StartedInOrder
<1>3. CASE ReturnBlocked \/ ReturnJudged
  <2>1. pc' \in {"revise", "escalated"} /\ started' = {} /\ completed' = {} /\ plan' = plan /\ pack' = pack
    BY <1>3 DEF ReturnBlocked, ReturnJudged, StartedInOrder
  <2>2. prior' = prior \/ prior' = plan
    BY <1>3 DEF ReturnBlocked, ReturnJudged
  <2>3. PlansAreSound'
    BY <2>1, <2>2 DEF PlansAreSound, Sound
  <2> QED
    BY <2>1, <2>3 DEF FindingsCover, StartedInOrder
<1>4. CASE CallCritic
  <2>1. pc' = "judge" /\ started' = {} /\ completed' = {}
    BY <1>4 DEF CallCritic, StartedInOrder
  <2>2. PlansAreSound'
    BY <1>4 DEF CallCritic, PlansAreSound, Sound
  <2>3. Scope' = Scope
    BY <1>4 DEF CallCritic, Scope
  <2>4. FindingsCover'
    BY <1>4, <2>1, <2>3 DEF CallCritic, FindingsCover
  <2> QED
    BY <2>1, <2>2, <2>4 DEF StartedInOrder
<1>5. CASE Approve
  <2>1. pc' = "running" /\ started' = {} /\ completed' = {}
    BY <1>5 DEF Approve, StartedInOrder
  <2>2. PlansAreSound'
    BY <1>5 DEF Approve, PlansAreSound, Sound
  <2>3. Scope' = Scope
    BY <1>5 DEF Approve, Scope
  <2>4. FindingsCover'
    BY <1>5, <2>1, <2>3 DEF Approve, FindingsCover, Approvable
  <2> QED
    BY <2>1, <2>2, <2>4 DEF StartedInOrder
<1>6. CASE Revise
  <2>1. Sound(plan')
    BY <1>6, DraftsAreSound DEF Revise, PlansAreSound
  <2>2. pc' = "gates" /\ started' = {} /\ completed' = {}
    BY <1>6 DEF Revise, StartedInOrder
  <2>3. PlansAreSound'
    BY <1>6, <2>1 DEF Revise, PlansAreSound, Sound
  <2> QED
    BY <2>2, <2>3 DEF FindingsCover, StartedInOrder
<1>7. CASE Act
  <2>1. PICK t \in Steps(plan) : Ready(t) /\ started' = started \cup {t.id}
    BY <1>7 DEF Act
  <2>2. /\ pc = "running"
        /\ UNCHANGED <<pc, posture, mode, pack, plan, prior, findings, revision, completed>>
    BY <1>7 DEF Act
  <2>3. PlansAreSound' /\ FindingsCover'
    BY <2>2 DEF PlansAreSound, FindingsCover, Sound, Scope
  <2>4. ASSUME NEW u \in Steps(plan), Place(plan, u.id) < Place(plan, t.id)
        PROVE  u.id \in completed \/ SameGroup(u, t)
    <3>1. Sound(plan)
      BY DEF PlansAreSound
    <3>2. Place(plan, u.id) \in 1..Place(plan, t.id) - 1 /\ plan.tasks[Place(plan, u.id)] = u
      <4>1. Place(plan, u.id) \in 1..Len(plan.tasks) /\ Place(plan, t.id) \in Nat
        BY <3>1, StepPlaced
      <4>2. Place(plan, u.id) \in Int /\ 1 <= Place(plan, u.id)
        BY <3>1, <4>1, SoundPlan
      <4>3. plan.tasks[Place(plan, u.id)] = u
        BY <3>1, StepPlaced
      <4> QED
        BY <2>4, <4>1, <4>2, <4>3
    <3> QED
      BY <2>1, <3>2 DEF Ready
  <2>5. \A v \in Steps(plan) : v.id = t.id => v = t
    BY PlaceTells DEF PlansAreSound
  <2>6. ASSUME NEW v \in Steps(plan), v.id \in started',
               NEW u \in Steps(plan), Place(plan, u.id) < Place(plan, v.id)
        PROVE  u.id \in completed \/ SameGroup(u, v)
    <3>1. CASE v.id = t.id
      BY <2>4, <2>5, <2>6, <3>1
    <3>2. CASE v.id # t.id
      BY <2>1, <2>6, <3>2 DEF StartedInOrder
    <3> QED
      BY <3>1, <3>2
  <2>7. t.id \in Ids(plan)
    BY <2>1 DEF Ids
  <2>8. StartedInOrder'
    BY <2>1, <2>2, <2>6, <2>7 DEF StartedInOrder
  <2> QED
    BY <2>3, <2>8
<1>8. CASE Check
  <2>1. /\ pc = "running"
        /\ UNCHANGED <<pc, posture, mode, pack, plan, prior, findings, revision, started>>
    BY <1>8 DEF Check
  <2>2. PICK id \in started : completed' = completed \cup {id}
    BY <1>8 DEF Check, InFlight
  <2>3. PlansAreSound' /\ FindingsCover'
    BY <2>1 DEF PlansAreSound, FindingsCover, Sound, Scope
  <2>4. StartedInOrder'
    BY <2>1, <2>2 DEF StartedInOrder
  <2> QED
    BY <2>3, <2>4
<1>9. CASE StepFails
  <2>1. /\ pc = "running" /\ pc' = "rolled_back"
        /\ UNCHANGED <<posture, mode, pack, plan, prior, findings, revision, started, completed>>
    BY <1>9 DEF StepFails
  <2>2. PlansAreSound' /\ FindingsCover'
    BY <2>1 DEF PlansAreSound, FindingsCover, Sound, Scope
  <2>3. StartedInOrder'
    BY <2>1 DEF StartedInOrder
  <2> QED
    BY <2>2, <2>3
<1>10. CASE UNCHANGED vars
  BY <1>10 DEF vars, PlansAreSound, FindingsCover, StartedInOrder, Sound, Scope
<1> QED
  BY <1>1, <1>2, <1>3, <1>4, <1>5, <1>6, <1>7, <1>8, <1>9, <1>10 DEF Next

LEMMA ReviewInvHolds == Spec => []ReviewInv
<1>1. Init => ReviewInv
  BY InitReviewInv
<1>2. ReviewInv /\ [Next]_vars => ReviewInv'
  BY StepReviewInv
<1> QED
  BY <1>1, <1>2, PTL DEF Spec

\* loop/autofix.py: of every plan and every pack, a fix adds no blocker of the
\* engine's own gates, and drops no task and no edge.
THEOREM TheFixesOnlyHelp == Spec => FixesOnlyHelp
<1>1. ReviewInv /\ [Next]_vars =>
        [pc = "gates" =>
          /\ \A f \in StandardFindings(plan') : IsBlocker(f) => f \in StandardFindings(plan)
          /\ Steps(plan) \subseteq Steps(plan')
          /\ plan'.hard = plan.hard /\ plan'.soft = plan.soft]_vars
  <2> SUFFICES ASSUME ReviewInv, Next, pc = "gates"
               PROVE  /\ \A f \in StandardFindings(plan') : IsBlocker(f) => f \in StandardFindings(plan)
                      /\ Steps(plan) \subseteq Steps(plan')
                      /\ plan'.hard = plan.hard /\ plan'.soft = plan.soft
    OBVIOUS
  <2>1. RunGates
    BY DEF Next, Decompose, ReturnBlocked, CallCritic, Approve, ReturnJudged, Revise, Act,
           Check, StepFails
  <2>2. plan' \in AfterFixes(plan, pack) /\ Sound(plan)
    BY <2>1 DEF RunGates, ReviewInv, PlansAreSound
  <2> QED
    BY <2>2, FixesHelp
<1> QED
  BY <1>1, ReviewInvHolds, PTL DEF Spec, FixesOnlyHelp


(***************************************************************************)
(* What an approval promises of the run                                    *)
(***************************************************************************)

Approved == pc \in {"running", "rolled_back"}

LEMMA OnlyApprovedRunsStart ==
  ASSUME ReviewInv, NEW t \in Steps(plan), t.id \in started
  PROVE  Approved
BY DEF ReviewInv, StartedInOrder, Approved

\* No gate, of the engine or of its pack, has a blocker for an approved plan.
LEMMA ApprovedIsClean ==
  ASSUME ReviewInv, Approved, NEW code, NEW x
  PROVE  Blocker(code, x) \notin GateFindings(plan, pack)
<1> SUFFICES ASSUME Blocker(code, x) \in GateFindings(plan, pack) PROVE FALSE
  OBVIOUS
<1>1. Blocker(code, x) \in findings /\ MeetsThreshold(findings, posture)
  BY DEF ReviewInv, FindingsCover, Approved
<1>2. IsBlocker(Blocker(code, x)) /\ ~Blocker(code, x).llm
  BY DEF IsBlocker, Blocker
<1> QED
  BY <1>1, <1>2 DEF MeetsThreshold, HardBlockers

\* Of two tasks listed one before the other, the first is done when the second starts,
\* unless the plan runs them together.
LEMMA EarlierIsDone ==
  ASSUME ReviewInv, NEW t \in Steps(plan), NEW u \in Steps(plan), t.id \in started,
         Place(plan, u.id) < Place(plan, t.id)
  PROVE  u.id \in completed \/ SameGroup(u, t)
BY DEF ReviewInv, StartedInOrder

\* Tasks that are in flight at once are members of one group.
LEMMA InFlightTogether ==
  ASSUME ReviewInv, NEW t \in Steps(plan), NEW u \in Steps(plan), t # u,
         t.id \in InFlight, u.id \in InFlight
  PROVE  t.group # None /\ t.group = u.group
<1>1. Place(plan, t.id) \in Nat /\ Place(plan, u.id) \in Nat
  BY StepPlaced DEF ReviewInv, PlansAreSound
<1>2. Place(plan, t.id) # Place(plan, u.id)
  BY PlaceTells DEF ReviewInv, PlansAreSound
<1>3. /\ t.id \in started /\ t.id \notin completed
      /\ u.id \in started /\ u.id \notin completed
  BY DEF InFlight
<1>4. CASE Place(plan, t.id) < Place(plan, u.id)
  BY <1>3, <1>4, EarlierIsDone DEF SameGroup
<1>5. CASE Place(plan, u.id) < Place(plan, t.id)
  BY <1>3, <1>5, EarlierIsDone DEF SameGroup
<1> QED
  BY <1>1, <1>2, <1>4, <1>5

LEMMA VerificationFollows ==
  ASSUME ReviewInv PROVE VerificationIsNotVacuous
<1> SUFFICES ASSUME pc = "running", NEW t \in Steps(plan), t \in Verified(plan), t.id \in InFlight
             PROVE  /\ \A u \in Consumers(plan, t) : u.id \notin started
                    /\ \A u \in Steps(plan) : u # t /\ u.id \in InFlight => u.target # t.target
  BY DEF VerificationIsNotVacuous
<1>1. Approved /\ Sound(plan)
  BY DEF Approved, ReviewInv, PlansAreSound
<1>2. ASSUME NEW u \in Consumers(plan, t), u.id \in started
      PROVE  FALSE
  <2>1. u \in Steps(plan) /\ <<t.id, u.id>> \in plan.hard
    BY DEF Consumers
  <2>2. t.id # u.id /\ (t.group = None \/ t.group # u.group)
    BY <1>1, <1>2, <2>1, SoundPlan DEF Sound, ValidPlan
  <2>3. Place(plan, t.id) \in Nat /\ Place(plan, u.id) \in Nat /\ Place(plan, t.id) # Place(plan, u.id)
    BY <1>1, <2>1, <2>2, StepPlaced, PlaceTells
  <2>4. ~(Place(plan, t.id) > Place(plan, u.id))
    <3> SUFFICES ASSUME Place(plan, t.id) > Place(plan, u.id) PROVE FALSE
      OBVIOUS
    <3>1. Blocker("unsafe_ordering", u.id) \in OrderingSane(plan)
      <4>1. PICK e : e = <<t.id, u.id>>
        OBVIOUS
      <4>2. e \in plan.hard /\ e[1] = t.id /\ e[2] = u.id
        BY <2>1, <4>1
      <4> QED
        BY <4>2 DEF OrderingSane
    <3> QED
      BY <1>1, <3>1, ApprovedIsClean DEF GateFindings, StandardFindings
  <2>5. t.id \in completed \/ SameGroup(t, u)
    BY <1>2, <2>1, <2>3, <2>4, EarlierIsDone
  <2> QED
    BY <2>2, <2>5 DEF SameGroup, InFlight
<1>3. ASSUME NEW u \in Steps(plan), u # t, u.id \in InFlight, u.target = t.target
      PROVE  FALSE
  <2>1. u \in Racing(plan, t)
    BY <1>3, InFlightTogether DEF Racing
  <2>2. Blocker("verification_after_consumer", u.id) \in VerificationOrdering(plan)
    BY <2>1 DEF VerificationOrdering
  <2> QED
    BY <1>1, <2>2, ApprovedIsClean DEF GateFindings, StandardFindings
<1> QED
  BY <1>2, <1>3

\* gates/verification_ordering.py: of every approved plan, no task builds on a verified
\* high-risk task, or overwrites its target, before its check.
THEOREM NoVerificationIsVacuous == Spec => []VerificationIsNotVacuous
BY ReviewInvHolds, VerificationFollows, PTL


\* Two high-risk tasks are never in flight at once.
LEMMA HighRiskIsAlone ==
  ASSUME ReviewInv, NEW t \in Steps(plan), NEW u \in Steps(plan), t.high, u.high,
         {t.id, u.id} \subseteq InFlight
  PROVE  t = u
<1> SUFFICES ASSUME t # u PROVE FALSE
  OBVIOUS
<1>1. Sound(plan)
  BY DEF ReviewInv, PlansAreSound
<1>2. Approved
  BY OnlyApprovedRunsStart DEF InFlight
<1>3. t.group # None /\ t.group = u.group
  BY InFlightTogether
<1>4. PICK G : G = {v \in Steps(plan) : v.high /\ v.group = t.group}
  OBVIOUS
<1>5. t \in G /\ u \in G /\ G \subseteq Steps(plan)
  BY <1>3, <1>4
<1>6. IsFiniteSet(G) /\ Cardinality(G) \in Nat
  BY <1>1, <1>5, StepsCounted, FS_Subset, FS_CardinalityType
<1>7. Cardinality(G) >= 2
  <2>1. G # {} /\ Cardinality(G) # 0
    BY <1>5, <1>6, FS_EmptySet
  <2>2. Cardinality(G) # 1
    <3> SUFFICES ASSUME Cardinality(G) = 1 PROVE FALSE
      OBVIOUS
    <3>1. Cardinality(G \ {t}) = 0 /\ IsFiniteSet(G \ {t})
      BY <1>5, <1>6, FS_RemoveElement
    <3>2. G \ {t} = {}
      BY <3>1, FS_EmptySet
    <3> QED
      BY <1>5, <3>2
  <2> QED
    BY <1>6, <2>1, <2>2
<1>8. PICK S : S = {v \in Crowded(plan) : v.group = t.group}
  OBVIOUS
<1>9. t \in S /\ S \in SUBSET Steps(plan)
  BY <1>3, <1>4, <1>7, <1>8 DEF Crowded
<1>10. PICK v \in S : \A w \in S : Place(plan, v.id) <= Place(plan, w.id)
  BY <1>1, <1>9, FirstOfTasks
<1>11. Blocker("unsafe_parallelization", v.id) \in ParallelSafety(plan)
  BY <1>8, <1>10 DEF ParallelSafety
<1> QED
  BY <1>2, <1>11, ApprovedIsClean DEF GateFindings, StandardFindings

LEMMA FailureContained ==
  ASSUME ReviewInv PROVE FailureIsContained
<1>1. ASSUME NEW t \in Steps(plan), pc = "rolled_back", t.high, t.rollback # "typed"
      PROVE  t.rollback # "none"
  <2> SUFFICES ASSUME t.rollback = "none" PROVE FALSE
    OBVIOUS
  <2>1. Blocker("missing_rollback", t.id) \in RollbackPresent(plan)
    BY <1>1 DEF RollbackPresent
  <2>2. Blocker("missing_rollback", t.id) \in GateFindings(plan, pack)
    BY <2>1 DEF GateFindings, StandardFindings
  <2> QED
    BY <1>1, <2>2, ApprovedIsClean DEF Approved
<1>2. ASSUME NEW t \in Steps(plan), pc = "rolled_back", t.high, t.rollback # "typed",
             NEW u \in Steps(plan),
             \/ <<t.id, u.id>> \in plan.hard
             \/ Place(plan, u.id) > Place(plan, t.id) /\ \E c \in u.pre : c.by = t.id
      PROVE  u.what # None \/ u.rollback # "none"
  <2> SUFFICES ASSUME Bare(u) PROVE FALSE
    BY DEF Bare
  <2>1. t.rollback = "prose"
    <3>1. t.rollback \in Reversals
      BY StepPlaced DEF ReviewInv, PlansAreSound, Task
    <3> QED
      BY <1>1, <1>2, <3>1 DEF Reversals
  <2>2. u \in Stranded(plan, t)
    BY <1>2 DEF Stranded, Consumers
  <2>3. PICK code : code = IF u \in Consumers(plan, t) THEN "rollback_post_consumed"
                                                       ELSE "rollback_inconsistent_state"
    OBVIOUS
  <2>4. Blocker(code, u.id) \in RollbackCredible(plan)
    <3>1. PICK dropped : dropped =
            {Blocker(IF v \in Consumers(plan, t) THEN "rollback_post_consumed"
                                                 ELSE "rollback_inconsistent_state", v.id)
               : v \in Stranded(plan, t)}
      OBVIOUS
    <3>2. Blocker(code, u.id) \in dropped
      BY <2>2, <2>3, <3>1
    <3>3. dropped \subseteq RollbackCredible(plan)
      BY <1>2, <2>1, <3>1 DEF RollbackCredible, When
    <3> QED
      BY <3>2, <3>3
  <2>5. Blocker(code, u.id) \in GateFindings(plan, pack)
    BY <2>4 DEF GateFindings, StandardFindings
  <2> QED
    BY <1>2, <2>5, ApprovedIsClean DEF Approved
<1> QED
  BY <1>1, <1>2, HighRiskIsAlone DEF FailureIsContained

\* gates/parallel_safety.py, gates/rollback_credible.py: of every approved plan, a step
\* that fails is the only high-risk task in flight, and no rollback strands a task.
THEOREM FailuresAreContained == Spec => []FailureIsContained
BY ReviewInvHolds, FailureContained, PTL

\* An approved plan has no gap: each precondition has its ground earlier in the list.
LEMMA ApprovedHasNoGap ==
  ASSUME ReviewInv, Approved, NEW t \in Steps(plan), NEW c \in t.pre
  PROVE  Grounded(c, EstablishedBefore(plan, Place(plan, t.id)))
<1> SUFFICES ASSUME ~Grounded(c, EstablishedBefore(plan, Place(plan, t.id))) PROVE FALSE
  OBVIOUS
<1>1. PICK i : i = Place(plan, t.id)
  OBVIOUS
<1>2. i \in DOMAIN plan.tasks /\ plan.tasks[i] = t
  BY <1>1, StepPlaced, SoundPlan DEF ReviewInv, PlansAreSound
<1>3. <<i, c>> \in Gaps(plan)
  BY <1>1, <1>2 DEF Gaps
<1>4. Blocker("unverified_precondition", plan.tasks[<<i, c>>[1]].id) \in PreconditionsReferenced(plan)
  BY <1>3 DEF PreconditionsReferenced
<1> QED
  BY <1>4, ApprovedIsClean DEF GateFindings, StandardFindings

\* Of the tasks of a set the one listed first cannot rest on the others.
LEMMA StartsGrounded ==
  ASSUME ReviewInv PROVE GroundedWhenStarted
<1> SUFFICES ASSUME NEW S \in SUBSET {t \in Steps(plan) : t.id \in started}, S # {}
             PROVE  \E t \in S : \A c \in t.pre : Grounded(c, GroundsBeyond(S, t))
  BY DEF GroundedWhenStarted
<1>1. Sound(plan) /\ S \in SUBSET Steps(plan)
  BY DEF ReviewInv, PlansAreSound
<1>2. PICK t \in S : \A u \in S : Place(plan, t.id) <= Place(plan, u.id)
  BY <1>1, FirstOfTasks
<1>3. t \in Steps(plan) /\ t.id \in started /\ Approved
  BY <1>1, OnlyApprovedRunsStart
<1>4. PICK i : i = Place(plan, t.id)
  OBVIOUS
<1>5. i \in 1..Len(plan.tasks) /\ i \in Nat
  BY <1>1, <1>3, <1>4, StepPlaced
<1>6. ASSUME NEW f \in EstablishedBefore(plan, i)
      PROVE  f \in GroundsBeyond(S, t)
  <2>1. PICK j \in 1..i - 1 : f \in TaskFacts(plan.tasks[j])
    BY <1>6 DEF EstablishedBefore
  <2>2. j \in 1..Len(plan.tasks) /\ j < i /\ ~(i <= j)
    BY <1>1, <1>5, <2>1, SoundPlan
  <2>3. PICK u : u = plan.tasks[j]
    OBVIOUS
  <2>4. u \in Steps(plan) /\ Place(plan, u.id) = j
    BY <1>1, <2>2, <2>3, SoundPlan, PlaceIs
  <2>5. u \notin S
    BY <1>2, <1>4, <2>2, <2>4
  <2>6. u.id \in completed \/ SameGroup(u, t)
    BY <1>3, <1>4, <2>2, <2>4, EarlierIsDone
  <2> QED
    BY <2>1, <2>3, <2>4, <2>5, <2>6 DEF GroundsBeyond
<1>7. ASSUME NEW c \in t.pre PROVE Grounded(c, GroundsBeyond(S, t))
  <2>1. Grounded(c, EstablishedBefore(plan, i))
    BY <1>3, <1>4, ApprovedHasNoGap
  <2> QED
    BY <1>6, <2>1 DEF Grounded
<1> QED
  BY <1>7

\* gates/preconditions.py: of every approved plan, no set of tasks that have started
\* rests on itself.
THEOREM StartedTasksAreGrounded == Spec => []GroundedWhenStarted
BY ReviewInvHolds, StartsGrounded, PTL


(***************************************************************************)
(* The diff-aware audit                                                    *)
(***************************************************************************)

LEMMA StepIsHeld ==
  ASSUME NEW p, Sound(p), NEW id \in Ids(p)
  PROVE  Step(p, id) \in Steps(p) /\ Step(p, id).id = id
<1>1. PICK t \in Steps(p) : t.id = id
  BY DEF Ids
<1> QED
  BY <1>1, StepPlaced

\* What depends on a task in b, and is not in the scope of the change from a to b,
\* depends on it in a as well, where the task is as it was.
LEMMA UnscopedIsUnchanged ==
  ASSUME NEW a, NEW b, Sound(a), Sound(b), a.hard = b.hard, a.soft = b.soft,
         NEW id \in Ids(b), id \notin AuditScope(a, b)
  PROVE  /\ id \in Ids(a) /\ Step(a, id) = Step(b, id)
         /\ \A t \in Steps(b) : id \in DependentClosure(b, {t.id}) =>
              t \in Steps(a) /\ id \in DependentClosure(a, {t.id})
<1>1. PICK E : E = b.hard \cup b.soft
  OBVIOUS
<1>2. PICK C \in SUBSET Ids(b) :
        Changed(a, b) \subseteq C /\ (\A e \in E : e[1] \in C => e[2] \in C) /\ id \notin C
  BY <1>1 DEF AuditScope, DependentClosure
<1>3. \A v \in Ids(b) : v \notin C => v \in Ids(a) /\ Step(a, v) = Step(b, v)
  BY <1>2 DEF Changed
<1>4. \A e \in E : e[2] \in Ids(b)
  BY <1>1, SoundPlan
<1>5. ASSUME NEW t \in Steps(b), id \in DependentClosure(b, {t.id})
      PROVE  t \in Steps(a) /\ id \in DependentClosure(a, {t.id})
  <2>1. t.id \in Ids(b) /\ Step(b, t.id) = t
    BY StepPlaced
  <2>2. t.id \notin C
    BY <1>1, <1>2, <1>5 DEF DependentClosure
  <2>3. t.id \in Ids(a) /\ Step(a, t.id) = t
    BY <1>3, <2>1, <2>2
  <2>4. t \in Steps(a)
    BY <2>3, StepIsHeld
  <2>5. ASSUME NEW D \in SUBSET Ids(a), {t.id} \subseteq D, \A e \in E : e[1] \in D => e[2] \in D
        PROVE  id \in D
    <3>1. PICK F : F = (D \cap Ids(b)) \cup C
      OBVIOUS
    <3>2. F \in SUBSET Ids(b) /\ {t.id} \subseteq F
      BY <2>1, <2>5, <3>1
    <3>3. \A e \in E : e[1] \in F => e[2] \in F
      BY <1>2, <1>4, <2>5, <3>1
    <3>4. id \in F
      BY <1>1, <1>5, <3>2, <3>3 DEF DependentClosure
    <3> QED
      BY <1>2, <3>1, <3>4
  <2>6. id \in Ids(a)
    BY <1>2, <1>3
  <2> QED
    BY <1>1, <2>4, <2>5, <2>6 DEF DependentClosure
<1>6. id \in Ids(a) /\ Step(a, id) = Step(b, id)
  BY <1>2, <1>3
<1> QED
  BY <1>5, <1>6

\* The critic has nothing to say of such a task that it would not have said of it then.
LEMMA OpinionIsKept ==
  ASSUME NEW a, NEW b, Sound(a), Sound(b), a.hard = b.hard, a.soft = b.soft,
         NEW id \in Ids(b), id \notin AuditScope(a, b), NEW f \in Opinion(b, id)
  PROVE  id \in Ids(a) /\ f \in Opinion(a, id)
<1>1. /\ id \in Ids(a) /\ Step(a, id) = Step(b, id)
      /\ \A t \in Steps(b) : id \in DependentClosure(b, {t.id}) =>
           t \in Steps(a) /\ id \in DependentClosure(a, {t.id})
  BY UnscopedIsUnchanged
<1> DEFINE say(sev, code) == [llm |-> TRUE, sev |-> sev, code |-> code, task |-> id]
           shaken(p) == \E t \in Steps(p) : /\ t.flaw = "shaky" /\ t.id # id
                                            /\ id \in DependentClosure(p, {t.id})
<1>2. \A p : Opinion(p, id) = When(Step(p, id).flaw = "feasibility", {say("blocker", "llm_feasibility")})
                              \cup When(Step(p, id).flaw = "risk", {say("warning", "llm_risk")})
                              \cup When(shaken(p), {say("blocker", "llm_unverified_dependencies")})
  BY DEF Opinion
<1>3. shaken(b) => shaken(a)
  BY <1>1
<1> HIDE DEF shaken, say
<1>4. f \in Opinion(a, id)
  BY <1>1, <1>2, <1>3 DEF When
<1> QED
  BY <1>1, <1>4

\* The inductive invariant of the audit: as long as the edges stay, the critic has
\* raised the blockers of the plan judged last, and from its answer on those of the
\* plan at hand.
AllRaised(p) == \A id \in Ids(p) : \A f \in Opinion(p, id) : IsBlocker(f) => f \in raised
RaisedInv == (~rewired => AllRaised(prior)) /\ NothingNewEscapesTheCritic

LEMMA InitRaisedInv == Init => RaisedInv
<1>1. Ids(NoPlan) = {}
  BY DEF NoPlan, Ids, Steps, Range
<1> QED
  BY <1>1 DEF Init, RaisedInv, AllRaised, NothingNewEscapesTheCritic

\* The critic answers: what is out of its scope it has raised before.
LEMMA AnswersRaise ==
  ASSUME ReviewInv, RaisedInv, CallCritic
  PROVE  RaisedInv'
<1>1. /\ plan' = plan /\ prior' = prior /\ pc' = "judge"
      /\ raised' = raised \cup {f \in Audit(plan, Scope) : IsBlocker(f)}
      /\ rewired' = (rewired \/ (prior # NoPlan /\ <<plan.hard, plan.soft>> # <<prior.hard, prior.soft>>))
  BY DEF CallCritic
<1>2. SUFFICES ASSUME ~rewired'
               PROVE  AllRaised(prior)' /\ AllRaised(plan)'
  BY DEF RaisedInv, NothingNewEscapesTheCritic, AllRaised
<1>3. ~rewired /\ AllRaised(prior) /\ (prior # NoPlan => plan.hard = prior.hard /\ plan.soft = prior.soft)
  BY <1>1, <1>2 DEF RaisedInv
<1>4. AllRaised(prior)'
  BY <1>1, <1>3 DEF AllRaised
<1>5. ASSUME NEW id \in Ids(plan), NEW f \in Opinion(plan, id), IsBlocker(f)
      PROVE  f \in raised'
  <2>1. CASE id \in Scope
    BY <1>1, <1>5, <2>1 DEF Audit
  <2>2. CASE id \notin Scope
    <3>1. prior # NoPlan /\ id \notin AuditScope(prior, plan)
      BY <2>2 DEF Scope
    <3>2. Sound(plan) /\ Sound(prior) /\ prior.hard = plan.hard /\ prior.soft = plan.soft
      BY <1>3, <3>1 DEF ReviewInv, PlansAreSound
    <3>3. id \in Ids(prior) /\ f \in Opinion(prior, id)
      BY <3>1, <3>2, OpinionIsKept
    <3> QED
      BY <1>1, <1>3, <1>5, <3>3 DEF AllRaised
  <2> QED
    BY <2>1, <2>2
<1> QED
  BY <1>1, <1>4, <1>5 DEF AllRaised

LEMMA StepRaisedInv ==
  ASSUME ReviewInv, RaisedInv, [Next]_vars
  PROVE  RaisedInv'
<1> USE DEF RaisedInv, AllRaised, NothingNewEscapesTheCritic
<1>1. CASE Decompose \/ RunGates \/ Revise
  <2>1. UNCHANGED <<prior, raised, rewired>> /\ pc' \in {"gates", "dispatch"}
    BY <1>1 DEF Decompose, RunGates, Revise, history
  <2> QED
    BY <2>1
<1>2. CASE ReturnBlocked
  <2>1. UNCHANGED <<prior, raised, rewired>> /\ pc' \in {"revise", "escalated"}
    BY <1>2 DEF ReturnBlocked, history
  <2> QED
    BY <2>1
<1>3. CASE CallCritic
  BY <1>3, AnswersRaise
<1>4. CASE Approve \/ Act \/ Check \/ StepFails
  <2>1. UNCHANGED <<plan, prior, raised, rewired>> /\ pc \in {"judge", "running"}
    BY <1>4 DEF Approve, Act, Check, StepFails, history
  <2> QED
    BY <2>1
<1>5. CASE ReturnJudged
  <2>1. UNCHANGED <<plan, raised, rewired>> /\ pc = "judge" /\ prior' = plan
        /\ pc' \in {"revise", "escalated"}
    BY <1>5 DEF ReturnJudged, history
  <2> QED
    BY <2>1
<1>6. CASE UNCHANGED vars
  BY <1>6 DEF vars, history
<1> QED
  BY <1>1, <1>2, <1>3, <1>4, <1>5, <1>6 DEF Next

\* critique/diff.py: whatever the plans are and however many revisions are judged, the
\* audit of the difference hides no blocker the critic has not raised, unless an edge
\* changed.
THEOREM TheAuditMissesNothingNew == Spec => []NothingNewEscapesTheCritic
<1>1. Init => RaisedInv
  BY InitRaisedInv
<1>2. ReviewInv /\ RaisedInv /\ [Next]_vars => RaisedInv'
  BY StepRaisedInv
<1>3. RaisedInv => NothingNewEscapesTheCritic
  BY DEF RaisedInv
<1> QED
  BY <1>1, <1>2, <1>3, ReviewInvHolds, PTL DEF Spec

(***************************************************************************)
(* The packs                                                               *)
(***************************************************************************)

\* A task the pack flags is in no approved plan.
LEMMA NothingFlagged ==
  ASSUME ReviewInv, Approved, NEW code, NEW S, Flags(code, S) \subseteq PackFindings(plan, pack)
  PROVE  S = {}
<1> SUFFICES ASSUME NEW t \in S PROVE FALSE
  OBVIOUS
<1>1. Blocker(code, t.id) \in GateFindings(plan, pack)
  BY DEF Flags, GateFindings
<1> QED
  BY <1>1, ApprovedIsClean

\* In a run that is over, a task the plan has is done.
LEMMA OverIsDone ==
  ASSUME completed = Ids(plan), NEW actions, Has(plan, actions)
  PROVE  \E t \in Doing(plan, actions) : t.id \in completed
BY DEF Has, Doing, Ids

Begun(actions) == {t \in Doing(plan, actions) : t.id \in started}
Done(actions) == \E t \in Doing(plan, actions) : t.id \in completed
Finished(actions) == pc = "running" /\ completed = Ids(plan) /\ Begun(actions) # {}

LEMMA PackFindingsAre ==
  ASSUME NEW p
  PROVE  /\ PackFindings(p, "data_eng") = SchemaPreVerification(p) \cup SLAWindow(p) \cup DualWrite(p)
         /\ PackFindings(p, "finops") = GracePeriod(p) \cup BudgetBoundary(p)
         /\ PackFindings(p, "secops") = BlastRadius(p) \cup ForensicOrder(p) \cup LeastPrivilege(p)
         /\ PackFindings(p, "supply_chain") =
              TransitiveLocking(p) \cup BreakingChange(p) \cup ArtifactIntegrity(p)
BY DEF PackFindings

\* gates a plan may lack: nothing to flag, or the safeguard is there.
LEMMA SafeguardIsThere ==
  ASSUME ReviewInv, Approved, NEW code, NEW S, S # {}, NEW safe \in BOOLEAN,
         When(~safe, Flags(code, S)) \subseteq PackFindings(plan, pack)
  PROVE  safe
BY NothingFlagged DEF When


\* A run that is over has done the safeguard without which the pack flags the action.
LEMMA FinishedSafely ==
  ASSUME ReviewInv, NEW actions, Finished(actions), NEW code, NEW safe \in BOOLEAN,
         When(~safe, Flags(code, Doing(plan, actions))) \subseteq PackFindings(plan, pack)
  PROVE  safe
<1>1. Approved /\ Doing(plan, actions) # {}
  BY DEF Finished, Begun, Approved
<1> QED
  BY <1>1, SafeguardIsThere

LEMMA HasIsDone ==
  ASSUME NEW any, Finished(any), NEW actions, Has(plan, actions)
  PROVE  Done(actions)
BY OverIsDone DEF Finished, Done

LEMMA SecopsMet ==
  ASSUME ReviewInv, pack = "secops"
  PROVE  /\ \A t \in Begun({"isolate"}) : \E u \in Doing(plan, {"drain"}) : DoneFor(t, u)
         /\ \A t \in Begun(ForensicDestruction) : \A u \in Doing(plan, Preservation) : DoneFor(t, u)
         /\ Finished(StsActions) =>
              Done(Approvals) \/ \A t \in Begun(StsActions) : t.target \notin BroadTargets
<1> DEFINE PF == PackFindings(plan, pack)
<1>1. BlastRadius(plan) \subseteq PF /\ ForensicOrder(plan) \subseteq PF /\ LeastPrivilege(plan) \subseteq PF
  BY PackFindingsAre
<1>2. Sound(plan)
  BY DEF ReviewInv, PlansAreSound
<1>3. ASSUME NEW t \in Begun({"isolate"})
      PROVE  \E u \in Doing(plan, {"drain"}) : DoneFor(t, u)
  <2>1. t \in Doing(plan, {"isolate"}) /\ t \in Steps(plan) /\ t.id \in started /\ Approved
    BY OnlyApprovedRunsStart DEF Begun, Doing
  <2>2. Undrained(plan) = {}
    BY <1>1, <2>1, NothingFlagged DEF BlastRadius
  <2>3. PICK u \in Doing(plan, {"drain"}) : Place(plan, u.id) < Place(plan, t.id)
    BY <2>1, <2>2 DEF Undrained, Preceded
  <2>4. u.id \in completed \/ SameGroup(u, t)
    BY <2>1, <2>3, EarlierIsDone DEF Doing
  <2> QED
    BY <2>3, <2>4 DEF DoneFor, SameGroup
<1>4. ASSUME NEW t \in Begun(ForensicDestruction), NEW u \in Doing(plan, Preservation)
      PROVE  DoneFor(t, u)
  <2>1. /\ t \in Doing(plan, ForensicDestruction) /\ t \in Steps(plan) /\ u \in Steps(plan)
        /\ t.id \in started /\ Approved
    BY OnlyApprovedRunsStart DEF Begun, Doing
  <2>2. {v \in Doing(plan, Preservation) : Preceded(plan, v, ForensicDestruction)} = {}
    BY <1>1, <2>1, NothingFlagged DEF ForensicOrder
  <2>3. ~(Place(plan, t.id) < Place(plan, u.id))
    BY <2>1, <2>2 DEF Preceded
  <2>4. t # u
    BY <2>1 DEF Doing, ForensicDestruction, Preservation
  <2>5. Place(plan, t.id) \in Nat /\ Place(plan, u.id) \in Nat /\ Place(plan, t.id) # Place(plan, u.id)
    BY <1>2, <2>1, <2>4, StepPlaced, PlaceTells
  <2>6. u.id \in completed \/ SameGroup(u, t)
    BY <2>1, <2>3, <2>5, EarlierIsDone
  <2> QED
    BY <2>6 DEF DoneFor, SameGroup
<1>5. ASSUME Finished(StsActions), ~Done(Approvals), NEW t \in Begun(StsActions), t.target \in BroadTargets
      PROVE  FALSE
  <2>1. t \in Doing(plan, StsActions) /\ Approved
    BY <1>5 DEF Begun, Finished, Approved
  <2>2. ~Has(plan, Approvals)
    BY <1>5, HasIsDone
  <2>3. {v \in Doing(plan, StsActions) : v.target \in BroadTargets} = {}
    BY <1>1, <2>1, <2>2, NothingFlagged DEF LeastPrivilege, When
  <2> QED
    BY <1>5, <2>1, <2>3
<1> QED
  BY <1>3, <1>4, <1>5

LEMMA FinopsMet ==
  ASSUME ReviewInv, pack = "finops"
  PROVE  /\ Finished(Deletions) => \A step \in GraceSteps : Done(step)
         /\ Finished(ScaleUps) => Done(OverrideActions) \/ ~(Spend(plan) > BudgetCap)
<1>1. GracePeriod(plan) \subseteq PackFindings(plan, pack) /\ BudgetBoundary(plan) \subseteq PackFindings(plan, pack)
  BY PackFindingsAre
<1>2. ASSUME Finished(Deletions), NEW step \in GraceSteps
      PROVE  Done(step)
  <2>1. PICK safe \in BOOLEAN : safe = ~(\E s \in GraceSteps : ~Has(plan, s))
    OBVIOUS
  <2>2. When(~safe, Flags("finops_delete_without_grace_period", Doing(plan, Deletions)))
          \subseteq PackFindings(plan, pack)
    BY <1>1, <2>1 DEF GracePeriod, When
  <2>3. safe
    BY <1>2, <2>2, FinishedSafely
  <2> QED
    BY <1>2, <2>1, <2>3, HasIsDone
<1>3. ASSUME Finished(ScaleUps), ~Done(OverrideActions)
      PROVE  ~(Spend(plan) > BudgetCap)
  <2>1. Has(plan, ScaleUps) /\ ~Has(plan, OverrideActions) /\ Approved
    <3>1. Has(plan, ScaleUps) /\ Approved
      BY <1>3 DEF Finished, Begun, Doing, Has, Approved
    <3> QED
      BY <1>3, <3>1, HasIsDone
  <2>2. CASE Spend(plan) = 0
    <3>1. BudgetCap \in Nat
      BY ReviewAssumption, Zenon
    <3> QED
      BY <2>2, <3>1
  <2>3. CASE Spend(plan) # 0
    <3> SUFFICES ASSUME Spend(plan) > BudgetCap PROVE FALSE
      OBVIOUS
    <3>1. Blocker("finops_budget_boundary_breached", NoTask) \in BudgetBoundary(plan)
      BY <2>1, <2>3 DEF BudgetBoundary, When
    <3>2. Blocker("finops_budget_boundary_breached", NoTask) \in GateFindings(plan, pack)
      BY <1>1, <3>1 DEF GateFindings
    <3> QED
      BY <2>1, <3>2, ApprovedIsClean
  <2> QED
    BY <2>2, <2>3
<1> QED
  BY <1>2, <1>3

LEMMA DataMet ==
  ASSUME ReviewInv, pack = "data_eng"
  PROVE  /\ Finished(DestructiveQueries) => Done(BackupActions) /\ Done(VerifyBackupActions)
         /\ Finished(LiveMigrations) =>
              Done(WindowActions) /\ Done(DualWriteActions) /\ Done(FallbackActions)
<1> DEFINE PF == PackFindings(plan, pack)
<1>1. SchemaPreVerification(plan) \subseteq PF /\ SLAWindow(plan) \subseteq PF /\ DualWrite(plan) \subseteq PF
  BY PackFindingsAre
<1>2. ASSUME Finished(DestructiveQueries) PROVE Done(BackupActions) /\ Done(VerifyBackupActions)
  <2>1. PICK safe \in BOOLEAN : safe = (Has(plan, BackupActions) /\ Has(plan, VerifyBackupActions))
    BY DEF Has
  <2>2. When(~safe, Flags("data_eng_destructive_without_backup", Doing(plan, DestructiveQueries))) \subseteq PF
    BY <1>1, <2>1 DEF SchemaPreVerification
  <2>3. safe
    BY <1>2, <2>2, FinishedSafely
  <2> QED
    BY <1>2, <2>1, <2>3, HasIsDone
<1>3. ASSUME Finished(LiveMigrations)
      PROVE  Done(WindowActions) /\ Done(DualWriteActions) /\ Done(FallbackActions)
  <2>1. Approved /\ Doing(plan, LiveMigrations) # {}
    BY <1>3 DEF Finished, Begun, Approved
  <2>2. Has(plan, WindowActions)
    <3>1. Doing(plan, LiveMigrations \cup {"apply_migration"}) # {}
      BY <2>1 DEF Doing
    <3>2. Has(plan, WindowActions) \in BOOLEAN
      BY DEF Has
    <3> QED
      BY <1>1, <2>1, <3>1, <3>2, SafeguardIsThere DEF SLAWindow
  <2>3. Has(plan, DualWriteActions) /\ Has(plan, FallbackActions)
    <3>1. Has(plan, DualWriteActions) \in BOOLEAN /\ Has(plan, FallbackActions) \in BOOLEAN
      BY DEF Has
    <3>2. /\ When(~Has(plan, DualWriteActions),
                  Flags("data_eng_migration_without_dual_write", Doing(plan, LiveMigrations))) \subseteq PF
          /\ When(~Has(plan, FallbackActions),
                  Flags("data_eng_migration_without_fallback", Doing(plan, LiveMigrations))) \subseteq PF
      BY <1>1 DEF DualWrite
    <3> QED
      BY <1>3, <3>1, <3>2, FinishedSafely
  <2> QED
    BY <1>3, <2>2, <2>3, HasIsDone
<1> QED
  BY <1>2, <1>3

LEMMA SupplyMet ==
  ASSUME ReviewInv, pack = "supply_chain"
  PROVE  /\ Finished(ManifestEdits) => Relocks(plan)
         /\ Finished(MajorBumps) => Done(MigrationActions) /\ Done(LintActions)
         /\ Finished(Deployments) => Done(SignActions) /\ Done(SbomActions)
<1> DEFINE PF == PackFindings(plan, pack)
<1>1. TransitiveLocking(plan) \subseteq PF /\ BreakingChange(plan) \subseteq PF /\ ArtifactIntegrity(plan) \subseteq PF
  BY PackFindingsAre
<1>2. ASSUME Finished(ManifestEdits) PROVE Relocks(plan)
  <2>1. Relocks(plan) \in BOOLEAN
    BY DEF Relocks
  <2> QED
    BY <1>1, <1>2, <2>1, FinishedSafely DEF TransitiveLocking
<1>3. ASSUME Finished(MajorBumps) PROVE Done(MigrationActions) /\ Done(LintActions)
  <2>1. PICK safe \in BOOLEAN : safe = (Has(plan, MigrationActions) /\ Has(plan, LintActions))
    BY DEF Has
  <2>2. When(~safe, Flags("supply_chain_breaking_change_without_migration", Doing(plan, MajorBumps))) \subseteq PF
    BY <1>1, <2>1 DEF BreakingChange
  <2>3. safe
    BY <1>3, <2>2, FinishedSafely
  <2> QED
    BY <1>3, <2>1, <2>3, HasIsDone
<1>4. ASSUME Finished(Deployments) PROVE Done(SignActions) /\ Done(SbomActions)
  <2>1. Has(plan, SignActions) \in BOOLEAN /\ Has(plan, SbomActions) \in BOOLEAN
    BY DEF Has
  <2>2. /\ When(~Has(plan, SignActions),
                Flags("supply_chain_unsigned_artifact", Doing(plan, Deployments))) \subseteq PF
        /\ When(~Has(plan, SbomActions),
                Flags("supply_chain_missing_sbom", Doing(plan, Deployments))) \subseteq PF
    BY <1>1 DEF ArtifactIntegrity
  <2> QED
    BY <1>4, <2>1, <2>2, FinishedSafely, HasIsDone
<1> QED
  BY <1>2, <1>3, <1>4

LEMMA ObligationsMet ==
  ASSUME ReviewInv PROVE PackObligationsMet
BY SecopsMet, FinopsMet, DataMet, SupplyMet DEF PackObligationsMet, Begun, Done, Finished

\* domains/*/gates.py: whatever the plans are, what the engine's pack asks for holds of
\* the run of every plan it lets through.
THEOREM PacksAreObeyed == Spec => []PackObligationsMet
BY ReviewInvHolds, ObligationsMet, PTL


(***************************************************************************)
(* The commands that judge a plan file                                     *)
(***************************************************************************)

\* A plan as the schema derives it: a risky task counts as a high-risk one.
Derived(p) == Sound(p) /\ \A t \in Steps(p) : t.risky => t.high

LEMMA BuiltinsFollow ==
  ASSUME NEW p, Derived(p), NEW pk, Blockers(p, pk) = {}
  PROVE  BuiltinFindings(p) = {}
<1>1. \A code, x : Blocker(code, x) \notin StandardFindings(p)
  BY DEF Blockers, GateFindings, IsBlocker, Blocker
<1>2. p.tasks # <<>>
  BY <1>1 DEF StandardFindings, SchemaValid, When
<1>3. \A e \in p.hard : e[1] # e[2]
  BY SoundPlan DEF Derived
<1>4. ASSUME NEW t \in Steps(p), t.risky PROVE t.rollback # "none" /\ t.what # None
  <2>1. t.high
    BY <1>4 DEF Derived
  <2>2. Blocker("missing_rollback", t.id) \notin RollbackPresent(p)
    BY <1>1 DEF StandardFindings
  <2>3. Blocker("missing_verification", t.id) \notin VerificationPresent(p)
    BY <1>1 DEF StandardFindings
  <2> QED
    BY <2>1, <2>2, <2>3 DEF RollbackPresent, VerificationPresent
<1>5. /\ DOMAIN BuiltinHolds(p) = {"schema_valid", "no_unsafe_ordering",
                                   "high_risk_has_rollback", "high_risk_has_verification"}
      /\ BuiltinHolds(p).schema_valid = (p.tasks # <<>>)
      /\ BuiltinHolds(p).no_unsafe_ordering = (\A e \in p.hard : e[1] # e[2])
      /\ BuiltinHolds(p).high_risk_has_rollback
           = (\A t \in Steps(p) : t.risky => t.rollback # "none")
      /\ BuiltinHolds(p).high_risk_has_verification
           = (\A t \in Steps(p) : t.risky => t.what # None)
  BY DEF BuiltinHolds
<1>6. \A n \in DOMAIN BuiltinHolds(p) : BuiltinHolds(p)[n]
  BY <1>2, <1>3, <1>4, <1>5
<1> QED
  BY <1>6 DEF BuiltinFindings

\* A policy that cannot be evaluated raises no blocker.
LEMMA OnlyViolationsBlock ==
  ASSUME NEW v, v # "violated"
  PROVE  \A f \in PolicyFindings(v) : ~IsBlocker(f)
<1>1. CASE v = "unevaluated"
  <2>1. PolicyFindings(v) = {Warning("policy_evaluation_error", NoTask)}
    BY <1>1 DEF PolicyFindings
  <2> QED
    BY <2>1 DEF IsBlocker, Warning
<1>2. CASE v # "unevaluated"
  <2>1. PolicyFindings(v) = {}
    BY <1>2 DEF PolicyFindings
  <2> QED
    BY <2>1
<1> QED
  BY <1>1, <1>2

\* cli/check.py, cli/critique.py: what an engine's gates let through, these commands let
\* through too, whether they are told of the pack or left to the built-in policies, and
\* also when the policies of a directory cannot be evaluated.
THEOREM CheckFollowsTheGates ==
  ASSUME NEW p, Derived(p), NEW pk, Blockers(p, pk) = {}
  PROVE  /\ CritiquePasses(p)
         /\ \A d \in {pk, None} : CheckPasses(p, d, NoDirectory, "high")
         /\ CheckPasses(p, pk, {"unevaluated", "raised"}, "high")
<1>1. \A f \in StandardFindings(p) \cup PackFindings(p, pk) : ~IsBlocker(f)
  BY DEF Blockers, GateFindings
<1>2. PackFindings(p, None) = {}
  BY DEF PackFindings, None
<1>3. BuiltinFindings(p) = {}
  BY BuiltinsFollow
<1>4. ASSUME NEW d \in {pk, None}, NEW policies, "violated" \notin policies
      PROVE  CheckPasses(p, d, policies, "high")
  <2> SUFFICES ASSUME NEW f \in CheckFindings(p, d, policies) PROVE ~IsBlocker(f)
    BY DEF CheckPasses, Failing, IsBlocker
  <2>1. CASE f \in StandardFindings(p) \cup PackFindings(p, d)
    BY <1>1, <1>2, <2>1
  <2>2. CASE f \notin StandardFindings(p) \cup PackFindings(p, d)
    <3>1. f \in UNION {PolicyFindings(v) : v \in policies}
      BY <1>3, <2>2 DEF CheckFindings
    <3>2. PICK v \in policies : f \in PolicyFindings(v)
      BY <3>1
    <3> QED
      BY <1>4, <3>2, OnlyViolationsBlock
  <2> QED
    BY <2>1, <2>2
<1>5. CritiquePasses(p)
  BY <1>1 DEF CritiquePasses, HasBlocker
<1>6. "violated" \notin NoDirectory /\ "violated" \notin {"unevaluated", "raised"}
  BY DEF NoDirectory
<1> QED
  BY <1>4, <1>5, <1>6

\* cli/domains.py: a plan "domains test" accepts is stopped by the quota only.
THEOREM DomainsTestFollowsTheGates ==
  ASSUME NEW p, NEW pk, DomainsTestPasses(p, pk)
  PROVE  Blockers(p, pk) \subseteq QuotaBreaches(p)
<1>1. StandardFindings(p) = {} /\ PackFindings(p, pk) = {}
  BY DEF DomainsTestPasses, CheckFindings
<1>2. \A f \in RestrictedUse(p) : ~IsBlocker(f)
  BY DEF RestrictedUse, IsBlocker, Warning
<1> QED
  BY <1>1, <1>2 DEF Blockers, GateFindings

=============================================================================
