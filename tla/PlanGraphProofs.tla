--------------------------- MODULE PlanGraphProofs ---------------------------
(***************************************************************************)
(* What holds of PlanGraph for every plan: that Kahn's count is exact,     *)
(* that the reorder declines what it should, and that rollback plans       *)
(* respect the graph.                                                      *)
(***************************************************************************)
EXTENDS PlanGraph, TLAPS, FiniteSetTheorems, SequenceTheorems

(***************************************************************************)
(* Lists of tasks                                                          *)
(***************************************************************************)

\* Every predecessor of a task of s is in s before it.
Follows(s) == \A i \in DOMAIN s : \A u \in Preds(s[i]) : \E j \in 1..i - 1 : s[j] = u

Lists == Bijection(1..Cardinality(Tasks), Tasks)

LEMMA PositionIs ==
  ASSUME NEW s, IsInjective(s), NEW i \in DOMAIN s
  PROVE  Position(s, s[i]) = i
BY DEF Position, IsInjective

LEMMA PositionOf ==
  ASSUME NEW s, IsInjective(s), NEW t \in Range(s)
  PROVE  Position(s, t) \in DOMAIN s /\ s[Position(s, t)] = t
<1>1. PICK i \in DOMAIN s : s[i] = t
  BY DEF Range
<1> QED
  BY <1>1, PositionIs

LEMMA TasksCounted == IsFiniteSet(Tasks) /\ Cardinality(Tasks) \in Nat
BY GraphAssumption, FS_CardinalityType

LEMMA SequenceIs ==
  ASSUME NEW s \in Seq(Tasks)
  PROVE  /\ Len(s) \in Nat /\ DOMAIN s = 1..Len(s) /\ s \in [1..Len(s) -> Tasks]
         /\ Range(s) \subseteq Tasks
BY DEF Range

\* A list of all tasks, each named once.
LEMMA ListIs ==
  ASSUME NEW s \in Lists
  PROVE  /\ s \in Seq(Tasks) /\ IsInjective(s) /\ Range(s) = Tasks
         /\ Len(s) = Cardinality(Tasks) /\ DOMAIN s = 1..Cardinality(Tasks)
BY TasksCounted DEF Lists, Bijection, Injection, Surjection, Range

\* Counting the tasks of a list without repetitions tells whether all are in it.
LEMMA FullList ==
  ASSUME NEW s \in Seq(Tasks), IsInjective(s)
  PROVE  /\ Len(s) = Cardinality(Tasks) <=> Range(s) = Tasks
         /\ Range(s) = Tasks => s \in Lists
<1>1. s \in Injection(1..Len(s), Tasks)
  BY DEF Injection
<1>2. IsFiniteSet(1..Len(s)) /\ Cardinality(1..Len(s)) = Len(s)
  <2>1. Len(s) \in Nat /\ 1 \in Int /\ Len(s) \in Int
    OBVIOUS
  <2>2. PICK c : c = Cardinality(1..Len(s))
    OBVIOUS
  <2>3. IsFiniteSet(1..Len(s)) /\ c = IF 1 > Len(s) THEN 0 ELSE Len(s) - 1 + 1
    BY <2>1, <2>2, FS_Interval, ZenonT(30)
  <2>4. c = Len(s)
    BY <2>1, <2>3
  <2> QED
    BY <2>2, <2>3, <2>4
<1>3. Len(s) = Cardinality(Tasks) <=> s \in Surjection(1..Len(s), Tasks)
  BY <1>1, <1>2, FS_Injection, TasksCounted
<1>4. s \in Surjection(1..Len(s), Tasks) <=> Range(s) = Tasks
  BY DEF Surjection, Range
<1> QED
  BY <1>1, <1>3, <1>4 DEF Lists, Bijection

\* The listing of a set of tasks names each of them once.
LEMMA ListingIs ==
  ASSUME NEW S \in SUBSET Tasks, NEW s \in Listings(S)
  PROVE  s \in Seq(Tasks) /\ IsInjective(s) /\ Range(s) = S
<1>1. Cardinality(S) \in Nat
  BY TasksCounted, FS_Subset, FS_CardinalityType
<1>2. s \in [1..Cardinality(S) -> S] /\ IsInjective(s) /\ Range(s) = S
  BY DEF Listings, Bijection, Injection, Surjection, Range
<1> QED
  BY <1>1, <1>2

LEMMA AppendTask ==
  ASSUME NEW s \in Seq(Tasks), IsInjective(s), NEW t \in Tasks \ Range(s)
  PROVE  /\ Append(s, t) \in Seq(Tasks) /\ IsInjective(Append(s, t))
         /\ Range(Append(s, t)) = Range(s) \cup {t}
<1> DEFINE a == Append(s, t)
<1>1. a \in Seq(Tasks) /\ Len(a) = Len(s) + 1 /\ DOMAIN a = 1..Len(s) + 1
  BY AppendProperties, SequenceIs
<1>2. a[Len(s) + 1] = t /\ \A i \in 1..Len(s) : a[i] = s[i]
  BY AppendProperties
<1>3. Range(a) = Range(s) \cup {t}
  BY <1>1, <1>2 DEF Range
<1>4. IsInjective(a)
  <2> SUFFICES ASSUME NEW i \in 1..Len(s) + 1, NEW j \in 1..Len(s) + 1, a[i] = a[j]
               PROVE  i = j
    BY <1>1 DEF IsInjective
  <2>1. \A k \in 1..Len(s) : s[k] \in Range(s)
    BY DEF Range
  <2> QED
    BY <1>2, <2>1 DEF IsInjective
<1> QED
  BY <1>1, <1>3, <1>4

\* What the deque holds after its head is taken.
LEMMA TailStep ==
  ASSUME NEW q \in Seq(Tasks), IsInjective(q), q # <<>>
  PROVE  /\ Head(q) \in Range(q) /\ Tail(q) \in Seq(Tasks) /\ IsInjective(Tail(q))
         /\ Range(Tail(q)) = Range(q) \ {Head(q)}
<1>1. Len(q) \in Nat \ {0} /\ DOMAIN q = 1..Len(q) /\ Head(q) = q[1]
  BY EmptySeq
<1>2. PICK T : T = Tail(q)
  OBVIOUS
<1>3. PICK m : m = Len(q) - 1
  OBVIOUS
<1>4. /\ T \in Seq(Tasks) /\ Len(T) = m /\ m \in Nat /\ DOMAIN T = 1..m
      /\ \A i \in 1..m : T[i] = q[i + 1]
  BY <1>1, <1>2, <1>3, HeadTailProperties
<1>5. Head(q) \in Range(q)
  BY <1>1 DEF Range
<1>6. ASSUME NEW i \in 1..m
      PROVE  i + 1 \in DOMAIN q /\ T[i] \in Range(q) /\ T[i] # Head(q)
  <2>1. i + 1 \in DOMAIN q /\ 1 \in DOMAIN q /\ i + 1 # 1
    BY <1>1, <1>3, <1>4
  <2>2. T[i] = q[i + 1] /\ T[i] \in Range(q)
    BY <1>4, <2>1 DEF Range
  <2>3. q[i + 1] # q[1]
    BY <2>1 DEF IsInjective
  <2> QED
    BY <1>1, <2>1, <2>2, <2>3
<1>7. IsInjective(T)
  BY <1>4, <1>6 DEF IsInjective
<1>8. ASSUME NEW k \in DOMAIN q, q[k] # Head(q) PROVE q[k] \in Range(T)
  <2>1. k - 1 \in 1..m /\ T[k - 1] = q[k]
    BY <1>1, <1>3, <1>4, <1>8
  <2> QED
    BY <2>1, <1>4 DEF Range
<1>9. Range(T) = Range(q) \ {Head(q)}
  <2>1. \A t \in Range(T) : t \in Range(q) /\ t # Head(q)
    <3>1. \A t \in Range(T) : \E i \in 1..m : t = T[i]
      BY <1>4 DEF Range
    <3> QED
      BY <3>1, <1>6
  <2>2. \A t \in Range(q) : t # Head(q) => t \in Range(T)
    <3>1. \A t \in Range(q) : \E k \in DOMAIN q : t = q[k]
      BY DEF Range
    <3> QED
      BY <3>1, <1>8
  <2> QED
    BY <2>1, <2>2
<1> QED
  BY <1>2, <1>4, <1>5, <1>7, <1>9

LEMMA ConcatTasks ==
  ASSUME NEW q \in Seq(Tasks), IsInjective(q),
         NEW r \in Seq(Tasks), IsInjective(r), Range(r) \cap Range(q) = {}
  PROVE  /\ q \o r \in Seq(Tasks) /\ IsInjective(q \o r)
         /\ Range(q \o r) = Range(q) \cup Range(r)
<1>1. PICK c : c = q \o r
  OBVIOUS
<1>2. PICK m : m = Len(q)
  OBVIOUS
<1>3. PICK n : n = Len(r)
  OBVIOUS
<1>4. m \in Nat /\ n \in Nat /\ DOMAIN q = 1..m /\ DOMAIN r = 1..n
  BY <1>2, <1>3
<1>5. c \in Seq(Tasks) /\ DOMAIN c = 1..m + n
  BY <1>1, <1>2, <1>3
<1>6. /\ \A i \in 1..m : c[i] = q[i] /\ i \in DOMAIN c
      /\ \A i \in 1..n : c[m + i] = r[i] /\ m + i \in DOMAIN c
  BY <1>1, <1>2, <1>3, <1>4, <1>5
<1>7. \A i \in DOMAIN c : i \in 1..m \/ \E k \in 1..n : i = m + k
  <2> SUFFICES ASSUME NEW i \in 1..m + n, i \notin 1..m
               PROVE  \E k \in 1..n : i = m + k
    BY <1>5
  <2>1. i - m \in 1..n /\ i = m + (i - m)
    BY <1>4
  <2> QED
    BY <2>1
<1>8. Range(c) = Range(q) \cup Range(r)
  <2>1. ASSUME NEW t \in Range(c) PROVE t \in Range(q) \cup Range(r)
    <3>1. PICK i \in DOMAIN c : t = c[i]
      BY DEF Range
    <3>2. (i \in DOMAIN q /\ t = q[i]) \/ \E k \in DOMAIN r : t = r[k]
      BY <3>1, <1>4, <1>6, <1>7
    <3> QED
      BY <3>2 DEF Range
  <2>2. ASSUME NEW t \in Range(q) PROVE t \in Range(c)
    BY <1>4, <1>6, <2>2 DEF Range
  <2>3. ASSUME NEW t \in Range(r) PROVE t \in Range(c)
    BY <1>4, <1>6, <2>3 DEF Range
  <2> QED
    BY <2>1, <2>2, <2>3
<1>9. IsInjective(c)
  <2> SUFFICES ASSUME NEW i \in DOMAIN c, NEW j \in DOMAIN c, c[i] = c[j]
               PROVE  i = j
    BY DEF IsInjective
  <2>1. (\A k \in 1..m : q[k] \in Range(q)) /\ (\A k \in 1..n : r[k] \in Range(r))
    BY <1>4 DEF Range
  <2>2. CASE i \in 1..m /\ j \in 1..m
    BY <1>4, <1>6, <2>2 DEF IsInjective
  <2>3. CASE \E k \in 1..n, l \in 1..n : i = m + k /\ j = m + l
    <3>1. PICK k \in 1..n, l \in 1..n : i = m + k /\ j = m + l
      BY <2>3
    <3>2. r[k] = r[l]
      BY <1>6, <3>1
    <3>3. k = l
      BY <1>4, <3>2 DEF IsInjective
    <3> QED
      BY <3>1, <3>3
  <2>4. CASE (i \in 1..m /\ \E l \in 1..n : j = m + l)
             \/ (j \in 1..m /\ \E l \in 1..n : i = m + l)
    BY <1>6, <2>1, <2>4
  <2> QED
    BY <1>7, <2>2, <2>3, <2>4
<1> QED
  BY <1>1, <1>5, <1>8, <1>9

(***************************************************************************)
(* The inductive invariant                                                 *)
(***************************************************************************)

\* No task that was placed is part of a cycle, or waits for one.
CycleFree ==
  \A S \in SUBSET Tasks : (\A t \in S : Preds(t) \cap S # {}) => S \cap Placed = {}

\* In-degrees count the predecessors not yet processed; the deque holds the tasks
\* that have none left.
Waits ==
  pc \in {"cycle_gate", "validate", "sort"} =>
    /\ \A t \in Tasks : waiting[t] = Preds(t) \ Placed
    /\ \A t \in Tasks : waiting[t] = {} <=> t \in Placed \cup Range(queue)
    /\ Placed \cap Range(queue) = {}

\* What each stage has made sure of.
Stages ==
  /\ CycleGateIsExact
  /\ pc = "validate" => Cyclic \/ Honours(list)
  /\ ReorderDeclinesRightly
  /\ RollbackRespectsGraph

IInv ==
  /\ TypeOK
  /\ hard \in EdgeSets
  /\ pc = "draft" => order = <<>>
  /\ Follows(order)
  /\ CycleFree
  /\ Waits
  /\ Stages

(***************************************************************************)
(* What the parts of the invariant say together                            *)
(***************************************************************************)

\* Tasks that all wait for one another's like are on a cycle.
LEMMA StuckIsCyclic ==
  ASSUME Placed # Tasks, Placed \subseteq Tasks,
         \A t \in Tasks \ Placed : ~(Preds(t) \subseteq Placed)
  PROVE  Cyclic
<1> DEFINE S == Tasks \ Placed
<1>1. S \in SUBSET Tasks /\ S # {}
  OBVIOUS
<1>2. \A t \in S : Preds(t) \cap S # {}
  BY DEF Preds
<1> QED
  BY <1>1, <1>2 DEF Cyclic

LEMMA FollowsHonours ==
  ASSUME NEW s \in Seq(Tasks), IsInjective(s), Follows(s)
  PROVE  Honours(s)
<1> SUFFICES ASSUME NEW i \in DOMAIN s, NEW j \in DOMAIN s, <<s[i], s[j]>> \in hard
             PROVE  i < j
  BY DEF Honours
<1>1. DOMAIN s = 1..Len(s) /\ Len(s) \in Nat /\ s[i] \in Tasks
  BY SequenceIs
<1>2. s[i] \in Preds(s[j])
  BY <1>1 DEF Preds
<1>3. PICK k \in 1..j - 1 : s[k] = s[i]
  BY <1>2 DEF Follows
<1>4. k \in DOMAIN s
  BY <1>1, <1>3
<1>5. k = i
  BY <1>3, <1>4 DEF IsInjective
<1> QED
  BY <1>1, <1>3, <1>5

\* An order of all tasks in which predecessors come first rules out a cycle.
LEMMA AllPlaced ==
  ASSUME IInv, Placed = Tasks
  PROVE  ~Cyclic /\ Honours(order)
<1>1. Honours(order)
  BY FollowsHonours DEF IInv, TypeOK
<1>2. ~Cyclic
  BY DEF IInv, CycleFree, Cyclic
<1> QED
  BY <1>1, <1>2

LEMMA OrderTyped ==
  ASSUME TypeOK
  PROVE  /\ order \in Seq(Tasks) /\ IsInjective(order) /\ Placed \subseteq Tasks
         /\ list \in Lists /\ Len(list) = Cardinality(Tasks)
         /\ AllProcessed <=> Placed = Tasks
<1>1. order \in Seq(Tasks) /\ IsInjective(order) /\ list \in Lists
  BY DEF TypeOK, Lists
<1>2. Placed \subseteq Tasks
  BY <1>1, SequenceIs DEF Placed
<1>3. Len(list) = Cardinality(Tasks)
  BY <1>1, ListIs
<1>4. Len(order) = Cardinality(Tasks) <=> Placed = Tasks
  BY <1>1, FullList DEF Placed
<1> QED
  BY <1>1, <1>2, <1>3, <1>4 DEF AllProcessed

\* F-12: the count tells whether there is a cycle.
LEMMA KahnOutcome ==
  ASSUME IInv, pc \in {"cycle_gate", "validate", "sort"}, queue = <<>>
  PROVE  /\ AllProcessed => ~Cyclic /\ Honours(order)
         /\ ~AllProcessed => Cyclic
<1>1. AllProcessed <=> Placed = Tasks
  BY OrderTyped DEF IInv
<1>2. Range(queue) = {}
  BY DEF Range
<1>3. \A t \in Tasks \ Placed : ~(Preds(t) \subseteq Placed)
  BY <1>2 DEF IInv, Waits
<1>4. Placed # Tasks => Cyclic
  BY <1>3, OrderTyped, StuckIsCyclic DEF IInv
<1> QED
  BY <1>1, <1>4, AllPlaced

\* No producer is misplaced in a list that passes ordering_sane.
LEMMA NoneMisplaced ==
  ASSUME IInv, Misplaced = {}
  PROVE  Honours(list)
<1> SUFFICES ASSUME NEW i \in DOMAIN list, NEW j \in DOMAIN list,
                    <<list[i], list[j]>> \in hard
             PROVE  i < j
  BY DEF Honours
<1>1. IsInjective(list) /\ DOMAIN list \subseteq Nat
  BY ListIs, TasksCounted DEF IInv, TypeOK, Lists
<1>2. Position(list, list[i]) = i /\ Position(list, list[j]) = j
  BY <1>1, PositionIs
<1>3. list[i] # list[j]
  BY GraphAssumption DEF IInv
<1>4. ~(Position(list, list[i]) > Position(list, list[j]))
  BY DEF Misplaced
<1> QED
  BY <1>1, <1>2, <1>3, <1>4

(***************************************************************************)
(* How a step disturbs the order                                           *)
(***************************************************************************)

LEMMA EmptyOrder ==
  ASSUME order' = <<>>
  PROVE  /\ order' \in Seq(Tasks) /\ IsInjective(order)'
         /\ Follows(order)' /\ CycleFree' /\ Placed' = {}
BY DEF IsInjective, Follows, CycleFree, Placed, Range

LEMMA SameGraph ==
  ASSUME hard' = hard
  PROVE  /\ \A t : Preds(t)' = Preds(t)
         /\ Cyclic' <=> Cyclic
BY DEF Preds, Cyclic

LEMMA SameOrder ==
  ASSUME hard' = hard, order' = order, Follows(order), CycleFree
  PROVE  Follows(order)' /\ CycleFree' /\ Placed' = Placed
<1>1. \A t : Preds(t)' = Preds(t)
  BY SameGraph
<1> QED
  BY <1>1 DEF Follows, CycleFree, Placed

\* A task is placed once its predecessors are.
LEMMA PlacedNext ==
  ASSUME IInv, hard' = hard, NEW t \in Tasks \ Placed, Preds(t) \subseteq Placed,
         order' = Append(order, t)
  PROVE  /\ order' \in Seq(Tasks) /\ IsInjective(order)'
         /\ Follows(order)' /\ CycleFree' /\ Placed' = Placed \cup {t}
<1>1. \A u : Preds(u)' = Preds(u)
  BY SameGraph
<1>2. order \in Seq(Tasks) /\ IsInjective(order)
  BY OrderTyped DEF IInv
<1>3. /\ order' \in Seq(Tasks) /\ IsInjective(order)'
      /\ Placed' = Placed \cup {t}
  BY <1>2, AppendTask DEF Placed, IsInjective
<1>4. /\ Len(order) \in Nat /\ DOMAIN order = 1..Len(order)
      /\ DOMAIN order' = 1..Len(order) + 1
      /\ order'[Len(order) + 1] = t /\ \A i \in 1..Len(order) : order'[i] = order[i]
  BY <1>2
<1>5. Follows(order)'
  <2> SUFFICES ASSUME NEW i \in 1..Len(order) + 1, NEW u \in Preds(order'[i])
               PROVE  \E j \in 1..i - 1 : order'[j] = u
    BY <1>1, <1>4 DEF Follows
  <2>1. CASE i \in 1..Len(order)
    <3>1. PICK j \in 1..i - 1 : order[j] = u
      BY <1>4, <2>1 DEF IInv, Follows
    <3>2. j \in 1..Len(order)
      BY <2>1, <1>4
    <3> QED
      BY <1>4, <3>1, <3>2
  <2>2. CASE i = Len(order) + 1
    <3>1. u \in Range(order)
      BY <1>4, <2>2 DEF Placed
    <3>2. PICK j \in DOMAIN order : order[j] = u
      BY <3>1 DEF Range
    <3> QED
      BY <1>4, <2>2, <3>2
  <2> QED
    BY <1>4, <2>1, <2>2
<1>6. CycleFree'
  <2> SUFFICES ASSUME NEW S \in SUBSET Tasks, \A u \in S : Preds(u) \cap S # {}
               PROVE  S \cap (Placed \cup {t}) = {}
    BY <1>1, <1>3 DEF CycleFree
  <2>1. S \cap Placed = {}
    BY DEF IInv, CycleFree
  <2> QED
    BY <2>1
<1> QED
  BY <1>3, <1>5, <1>6

\* A run of Kahn's algorithm begins with the tasks that wait for nothing.
LEMMA KahnStarts ==
  ASSUME hard' = hard, StartKahn
  PROVE  /\ waiting' \in [Tasks -> SUBSET Tasks]
         /\ queue' \in Seq(Tasks) /\ IsInjective(queue)'
         /\ Waits'
<1> DEFINE roots == {t \in Tasks : Preds(t) = {}}
<1>1. \A t : Preds(t)' = Preds(t) /\ Preds(t) \subseteq Tasks
  BY SameGraph DEF Preds
<1>2. Placed' = {}
  BY EmptyOrder DEF StartKahn
<1>3. waiting' = [t \in Tasks |-> Preds(t)]
  BY DEF StartKahn
<1>4. PICK q \in Listings(roots) : queue' = q
  BY DEF StartKahn
<1>5. q \in Seq(Tasks) /\ IsInjective(q) /\ Range(q) = roots
  BY ListingIs
<1>6. Range(queue)' = roots
  BY <1>4, <1>5 DEF Range
<1>7. Waits'
  BY <1>1, <1>2, <1>3, <1>6 DEF Waits
<1> QED
  BY <1>1, <1>3, <1>4, <1>5, <1>7 DEF IsInjective

(***************************************************************************)
(* Type correctness and the stages, one action at a time                   *)
(***************************************************************************)

LEMMA InitOK == Init => IInv
<1> SUFFICES ASSUME Init PROVE IInv
  OBVIOUS
<1>1. draft \in Lists /\ list \in Lists /\ hard \in SUBSET (Tasks \X Tasks)
  BY GraphAssumption DEF Init, Lists
<1>2. <<>> \in Seq(Tasks) /\ IsInjective(<<>>) /\ Follows(<<>>) /\ Range(<<>>) = {}
  BY DEF IsInjective, Follows, Range
<1>3. TypeOK
  BY <1>1, <1>2 DEF Init, TypeOK, Lists
<1>4. CycleFree
  BY <1>2 DEF Init, CycleFree, Placed
<1> QED
  BY <1>2, <1>3, <1>4 DEF Init, IInv, Waits, Stages, CycleGateIsExact,
                          ReorderDeclinesRightly, RollbackRespectsGraph

\* Actions that begin a run of Kahn's algorithm.
LEMMA KahnStartsOK ==
  ASSUME IInv, StartKahn, UNCHANGED plan, pc' \in {"cycle_gate", "validate", "sort"},
         failed' \in Tasks \cup {NoTask}, undo' = undo,
         pc' = "validate" => Cyclic \/ Honours(list),
         pc' = "sort" => ~Cyclic /\ Honours(list)
  PROVE  IInv'
<1> USE DEF plan
<1>1. /\ waiting' \in [Tasks -> SUBSET Tasks] /\ Waits'
      /\ queue' \in Seq(Tasks) /\ IsInjective(queue)'
  BY KahnStarts
<1>2. order' = <<>>
  BY DEF StartKahn
<1>3. TypeOK'
  BY <1>1, <1>2, EmptyOrder DEF IInv, TypeOK, IsInjective
<1>4. (Cyclic' <=> Cyclic) /\ (Honours(list)' <=> Honours(list))
  BY SameGraph DEF Honours
<1>5. Stages'
  BY <1>4 DEF Stages, CycleGateIsExact, ReorderDeclinesRightly, RollbackRespectsGraph
<1> QED
  BY <1>1, <1>2, <1>3, <1>5, EmptyOrder DEF IInv

LEMMA DequeueOK == ASSUME IInv, Dequeue PROVE IInv'
<1> DEFINE t == Head(queue)
<1> USE DEF plan
<1>1. PICK released \in Listings(Released(t)) : queue' = Tail(queue) \o released
  BY DEF Dequeue
<1>2. Released(t) \subseteq Tasks
  BY DEF Released
<1>3. released \in Seq(Tasks) /\ IsInjective(released) /\ Range(released) = Released(t)
  BY <1>2, ListingIs
<1>4. /\ \A n \in Tasks : waiting[n] = Preds(n) \ Placed
      /\ \A n \in Tasks : waiting[n] = {} <=> n \in Placed \cup Range(queue)
      /\ Placed \cap Range(queue) = {}
  BY DEF Dequeue, IInv, Waits
<1>5. /\ t \in Range(queue) /\ Tail(queue) \in Seq(Tasks) /\ IsInjective(Tail(queue))
      /\ Range(Tail(queue)) = Range(queue) \ {t}
  BY TailStep DEF Dequeue, IInv, TypeOK
<1>6. Range(released) \cap Range(Tail(queue)) = {}
  BY <1>3, <1>4, <1>5 DEF Released
<1>7. /\ queue' \in Seq(Tasks) /\ IsInjective(queue)'
      /\ Range(queue)' = (Range(queue) \ {t}) \cup Released(t)
  <2>1. PICK q : q = Tail(queue) \o released
    OBVIOUS
  <2>2. /\ q \in Seq(Tasks) /\ IsInjective(q)
        /\ Range(q) = (Range(queue) \ {t}) \cup Released(t)
    BY <1>3, <1>5, <1>6, <2>1, ConcatTasks
  <2>3. queue' = q
    BY <1>1, <2>1
  <2> QED
    BY <2>2, <2>3 DEF IsInjective, Range
<1>8. t \in Tasks \ Placed /\ Preds(t) \subseteq Placed
  BY <1>4, <1>5, SequenceIs DEF IInv, TypeOK
<1>9. order' = Append(order, t) /\ waiting' = [n \in Tasks |-> waiting[n] \ {t}]
  BY DEF Dequeue
<1>10. /\ order' \in Seq(Tasks) /\ IsInjective(order)'
       /\ Follows(order)' /\ CycleFree' /\ Placed' = Placed \cup {t}
  BY <1>8, <1>9, PlacedNext DEF Dequeue
<1>11. TypeOK'
  BY <1>7, <1>9, <1>10 DEF Dequeue, IInv, TypeOK
<1>12. Waits'
  <2>1. \A n : Preds(n)' = Preds(n)
    BY SameGraph DEF Dequeue
  <2>2. \A n \in Tasks : waiting'[n] = Preds(n)' \ Placed'
    BY <1>4, <1>9, <1>10, <2>1
  <2>3. ASSUME NEW n \in Tasks
        PROVE  waiting'[n] = {} <=> n \in Placed' \cup Range(queue)'
    <3>1. waiting'[n] = {} <=> waiting[n] = {} \/ waiting[n] = {t}
      BY <1>9
    <3>2. n \in Released(t) <=> waiting[n] = {t}
      BY DEF Released
    <3> QED
      BY <1>4, <1>5, <1>7, <1>10, <3>1, <3>2
  <2>4. Placed' \cap Range(queue)' = {}
    BY <1>4, <1>5, <1>7, <1>10 DEF Released
  <2> QED
    BY <2>2, <2>3, <2>4 DEF Waits
<1>13. Stages'
  BY SameGraph DEF Dequeue, IInv, Stages, Honours, CycleGateIsExact,
                   ReorderDeclinesRightly, RollbackRespectsGraph
<1> QED
  BY <1>10, <1>11, <1>12, <1>13 DEF Dequeue, IInv

LEMMA GatesEndOK == ASSUME IInv, GatesEnd PROVE IInv'
<1> USE DEF plan
<1>1. KahnEnds("cycle_gate") /\ pc' = GateVerdict /\ order' = <<>>
  BY DEF GatesEnd
<1>2. (AllProcessed => ~Cyclic /\ Honours(order)) /\ (~AllProcessed => Cyclic)
  BY <1>1, KahnOutcome DEF KahnEnds
<1>3. (pc' = "blocked" => Cyclic) /\ (pc' = "approved" => ~Cyclic /\ Honours(list))
  BY <1>1, <1>2, NoneMisplaced DEF GateVerdict
<1>4. pc' \in {"blocked", "reorder", "approved"}
  BY <1>1 DEF GateVerdict
<1>5. (Cyclic' <=> Cyclic) /\ (Honours(list)' <=> Honours(list))
  BY SameGraph DEF GatesEnd, Honours
<1>6. Stages'
  BY <1>3, <1>4, <1>5 DEF Stages, CycleGateIsExact, ReorderDeclinesRightly,
                          RollbackRespectsGraph
<1>7. TypeOK'
  BY <1>1, <1>4, EmptyOrder DEF GatesEnd, IInv, TypeOK
<1> QED
  BY <1>1, <1>4, <1>6, <1>7, EmptyOrder DEF GatesEnd, IInv, Waits

LEMMA CallReorderOK == ASSUME IInv, CallReorder PROVE IInv'
<1> USE DEF plan, CallReorder
<1>1. Follows(order)' /\ CycleFree'
  BY SameOrder DEF IInv
<1>2. TypeOK'
  BY DEF IInv, TypeOK
<1>3. Stages'
  BY DEF Stages, CycleGateIsExact, ReorderDeclinesRightly, RollbackRespectsGraph
<1> QED
  BY <1>1, <1>2, <1>3 DEF IInv, Waits

LEMMA PlaceNextOK == ASSUME IInv, PlaceNext PROVE IInv'
<1> USE DEF plan
<1>1. PICK t \in Available : order' = Append(order, t)
  BY DEF PlaceNext
<1>2. /\ order' \in Seq(Tasks) /\ IsInjective(order)' /\ Follows(order)' /\ CycleFree'
  BY <1>1, PlacedNext DEF PlaceNext, Available
<1>3. TypeOK'
  BY <1>2 DEF PlaceNext, IInv, TypeOK
<1>4. Stages'
  BY DEF PlaceNext, Stages, CycleGateIsExact, ReorderDeclinesRightly,
         RollbackRespectsGraph
<1> QED
  BY <1>2, <1>3, <1>4 DEF PlaceNext, IInv, Waits

LEMMA DeclineReorderOK == ASSUME IInv, DeclineReorder PROVE IInv'
<1> USE DEF plan
<1>1. Follows(order)' /\ CycleFree'
  BY SameOrder DEF DeclineReorder, IInv
<1>2. TypeOK'
  BY DEF DeclineReorder, IInv, TypeOK
<1>3. Cyclic \/ Honours(list)
  <2>1. CASE hard = {}
    BY <2>1 DEF Honours
  <2>2. CASE Available = {} /\ Placed # Tasks
    BY <2>2, OrderTyped, StuckIsCyclic DEF Available, IInv
  <2>3. CASE order = list
    BY <2>3, OrderTyped, FollowsHonours DEF IInv
  <2> QED
    BY <2>1, <2>2, <2>3 DEF DeclineReorder
<1>4. (Cyclic' <=> Cyclic) /\ (Honours(list)' <=> Honours(list))
  BY SameGraph DEF DeclineReorder, Honours
<1>5. Stages'
  BY <1>3, <1>4 DEF DeclineReorder, Stages, CycleGateIsExact,
                    ReorderDeclinesRightly, RollbackRespectsGraph
<1> QED
  BY <1>1, <1>2, <1>5 DEF DeclineReorder, IInv, Waits

LEMMA AdoptReorderOK == ASSUME IInv, AdoptReorder PROVE IInv'
<1>1. list' \in Lists
  BY OrderTyped, FullList DEF AdoptReorder, IInv, Placed
<1>2. TypeOK'
  BY <1>1, EmptyOrder DEF AdoptReorder, IInv, TypeOK, Lists
<1>3. Stages'
  BY DEF AdoptReorder, Stages, CycleGateIsExact, ReorderDeclinesRightly,
         RollbackRespectsGraph
<1> QED
  BY <1>2, <1>3, EmptyOrder DEF AdoptReorder, IInv, Waits

LEMMA RefuseCyclicOK == ASSUME IInv, RefuseCyclic PROVE IInv'
<1> USE DEF plan
<1>1. Follows(order)' /\ CycleFree'
  BY SameOrder DEF RefuseCyclic, IInv
<1>2. TypeOK'
  BY DEF RefuseCyclic, IInv, TypeOK
<1>3. Cyclic'
  BY KahnOutcome, SameGraph DEF RefuseCyclic, KahnEnds
<1>4. Stages'
  BY <1>3 DEF RefuseCyclic, Stages, CycleGateIsExact, ReorderDeclinesRightly,
              RollbackRespectsGraph
<1> QED
  BY <1>1, <1>2, <1>4 DEF RefuseCyclic, IInv, Waits

\* The rollback plan is the order read backwards from before the failed step.
LEMMA SynthesizeOK == ASSUME IInv, Synthesize PROVE IInv'
<1> USE DEF plan
<1>1. Follows(order)' /\ CycleFree'
  BY SameOrder DEF Synthesize, IInv
<1>2. KahnEnds("sort") /\ pc' = "synthesized" /\ undo' = UndoList /\ ~Cyclic /\ Honours(list)
  BY DEF Synthesize, KahnEnds, IInv, Stages, CycleGateIsExact
<1>3. Placed = Tasks /\ Honours(order)
  BY <1>2, KahnOutcome, OrderTyped DEF KahnEnds, IInv
<1>4. /\ order \in Seq(Tasks) /\ IsInjective(order) /\ Len(order) \in Nat
      /\ DOMAIN order = 1..Len(order)
  BY OrderTyped DEF IInv
<1>5. PICK n : n = Cut
  OBVIOUS
<1>6. /\ n \in Nat /\ n <= Len(order)
      /\ failed = NoTask => n = Len(order)
      /\ failed # NoTask => n + 1 \in DOMAIN order /\ order[n + 1] = failed
  <2>1. CASE failed = NoTask
    BY <1>4, <1>5, <2>1 DEF Cut
  <2>2. CASE failed # NoTask
    <3>1. failed \in Range(order)
      BY <1>3, <2>2 DEF IInv, TypeOK, Placed
    <3>2. PICK p : p = Position(order, failed)
      OBVIOUS
    <3>3. p \in DOMAIN order /\ order[p] = failed
      BY <1>4, <3>1, <3>2, PositionOf
    <3>4. n = p - 1
      BY <1>5, <2>2, <3>2 DEF Cut
    <3> QED
      BY <1>4, <2>2, <3>3, <3>4
  <2> QED
    BY <2>1, <2>2
<1>7. undo' = [i \in 1..n |-> order[n + 1 - i]]
  BY <1>2, <1>5 DEF UndoList
<1>8. /\ \A i \in 1..n : i \in DOMAIN order /\ i # n + 1 /\ order[i] \in Tasks
      /\ \A i \in 1..n : n + 1 - i \in 1..n /\ undo'[i] = order[n + 1 - i]
  <2> SUFFICES ASSUME NEW i \in 1..n
               PROVE  /\ i \in DOMAIN order /\ i # n + 1 /\ order[i] \in Tasks
                      /\ n + 1 - i \in 1..n /\ undo'[i] = order[n + 1 - i]
    OBVIOUS
  <2>1. n \in Nat /\ n <= Len(order) /\ Len(order) \in Nat
    BY <1>4, <1>6
  <2>2. i \in 1..Len(order) /\ i # n + 1 /\ n + 1 - i \in 1..n
    BY <2>1
  <2> QED
    BY <1>4, <1>7, <2>2
<1>9. undo' \in Seq(Tasks) /\ IsInjective(undo)'
  <2>1. n \in Nat /\ \A i \in 1..n : order[n + 1 - i] \in Tasks
    BY <1>6, <1>8
  <2>2. undo' \in Seq(Tasks)
    BY <1>7, <2>1
  <2>3. \A i, j \in 1..n : undo'[i] = undo'[j] => n + 1 - i = n + 1 - j
    BY <1>4, <1>8 DEF IsInjective
  <2>4. \A i, j \in 1..n : undo'[i] = undo'[j] => i = j
    BY <1>6, <2>3
  <2> QED
    BY <1>7, <2>2, <2>4 DEF IsInjective
<1>10. TypeOK'
  BY <1>9, <1>2 DEF Synthesize, IInv, TypeOK
<1>11. \A t : t \in Range(undo)' <=> \E k \in 1..n : t = order[k]
  <2>1. ASSUME NEW k \in 1..n PROVE order[k] \in Range(undo)'
    <3>1. n + 1 - k \in 1..n /\ n + 1 - (n + 1 - k) = k
      BY <1>6
    <3>2. undo'[n + 1 - k] = order[k]
      BY <1>8, <3>1
    <3> QED
      BY <1>7, <3>1, <3>2 DEF Range
  <2>2. ASSUME NEW t \in Range(undo)' PROVE \E k \in 1..n : t = order[k]
    <3>1. PICK i \in 1..n : t = undo'[i]
      BY <1>7 DEF Range
    <3> QED
      BY <1>8, <3>1
  <2> QED
    BY <2>1, <2>2
<1>12. RollbackRespectsGraph'
  <2>1. ASSUME NEW i \in 1..n, NEW j \in 1..n, <<undo'[i], undo'[j]>> \in hard
        PROVE  j < i
    <3>1. n + 1 - i < n + 1 - j
      BY <1>3, <1>8, <2>1 DEF Honours
    <3> QED
      BY <1>6, <3>1
  <2>2. failed \notin Range(undo)'
    <3>1. CASE failed = NoTask
      BY <1>9, <3>1, SequenceIs, GraphAssumption DEF Range
    <3>2. CASE failed # NoTask
      BY <1>4, <1>6, <1>8, <1>11, <3>2 DEF IsInjective
    <3> QED
      BY <3>1, <3>2
  <2>3. ASSUME NEW e \in hard, e[2] \in Range(undo)' \cup {failed}
        PROVE  e[1] \in Range(undo)'
    <3>1. e \in Tasks \X Tasks /\ e = <<e[1], e[2]>> /\ e[1] \in Range(order)
      BY <1>3 DEF IInv, TypeOK, Placed
    <3>2. PICK k \in DOMAIN order : e[1] = order[k]
      BY <3>1 DEF Range
    <3>3. PICK l \in 1..n + 1 : l \in DOMAIN order /\ e[2] = order[l]
      <4>1. CASE e[2] \in Range(undo)'
        BY <1>6, <1>8, <1>11, <4>1
      <4>2. CASE e[2] = failed
        BY <1>6, <3>1, <4>2, GraphAssumption
      <4> QED
        BY <2>3, <4>1, <4>2
    <3>4. k < l
      BY <1>3, <3>1, <3>2, <3>3 DEF Honours
    <3>5. k \in 1..n
      <4>1. k \in 1..Len(order) /\ Len(order) \in Nat /\ n \in Nat
        BY <1>4, <1>6
      <4> QED
        BY <3>4, <4>1
    <3> QED
      BY <1>11, <3>2, <3>5
  <2>4. ASSUME failed = NoTask PROVE Range(undo)' = Tasks
    <3>1. \A t : t \in Range(undo)' <=> t \in Range(order)
      BY <1>4, <1>6, <1>11, <2>4 DEF Range
    <3> QED
      BY <1>3, <3>1 DEF Placed
  <2>5. DOMAIN undo' = 1..n
    BY <1>7
  <2>6. hard' = hard /\ failed' = failed
    BY DEF Synthesize
  <2>7. \A i, j \in DOMAIN undo' : <<undo'[i], undo'[j]>> \in hard' => j < i
    BY <2>1, <2>5, <2>6
  <2> QED
    BY <2>2, <2>3, <2>4, <2>6, <2>7 DEF RollbackRespectsGraph
<1>13. Stages'
  BY <1>2, <1>12, SameGraph DEF Synthesize, Stages, Honours, CycleGateIsExact,
                                ReorderDeclinesRightly
<1> QED
  BY <1>1, <1>2, <1>10, <1>13 DEF Synthesize, IInv, Waits

(***************************************************************************)
(* The theorems                                                            *)
(***************************************************************************)

LEMMA Preserved == IInv /\ [Next]_vars => IInv'
<1> SUFFICES ASSUME IInv, [Next]_vars PROVE IInv'
  OBVIOUS
<1>1. CASE RunCycleGate
  BY <1>1, KahnStartsOK DEF RunCycleGate, IInv, TypeOK
<1>2. CASE StepFails
  BY <1>2, KahnStartsOK DEF StepFails, IInv, Stages, CycleGateIsExact
<1>3. CASE SynthesizeFull
  BY <1>3, KahnStartsOK DEF SynthesizeFull, IInv, TypeOK, Stages, CycleGateIsExact
<1>4. CASE StartSort
  BY <1>4, KahnStartsOK, KahnOutcome DEF StartSort, KahnEnds, IInv, TypeOK, Stages
<1>5. CASE UNCHANGED vars
  <2>1. Follows(order)' /\ CycleFree' /\ Placed' = Placed
    BY <1>5, SameOrder DEF vars, plan, IInv
  <2>2. \A t : Preds(t)' = Preds(t)
    BY <1>5, SameGraph DEF vars, plan
  <2>3. TypeOK'
    BY <1>5 DEF vars, plan, IInv, TypeOK
  <2>4. Waits'
    BY <1>5, <2>1, <2>2 DEF vars, plan, IInv, Waits
  <2>5. Stages'
    BY <1>5, SameGraph DEF vars, plan, IInv, Stages, Honours, CycleGateIsExact,
                           ReorderDeclinesRightly, RollbackRespectsGraph
  <2> QED
    BY <1>5, <2>1, <2>3, <2>4, <2>5 DEF vars, plan, IInv
<1> QED
  BY <1>1, <1>2, <1>3, <1>4, <1>5, DequeueOK, GatesEndOK, CallReorderOK, PlaceNextOK,
     DeclineReorderOK, AdoptReorderOK, RefuseCyclicOK, SynthesizeOK DEF Next

LEMMA Invariant == Spec => []IInv
BY InitOK, Preserved, PTL DEF Spec

\* Every variable keeps its type, and no list names a task twice.
THEOREM TypeCorrect == Spec => []TypeOK
<1>1. IInv => TypeOK
  BY DEF IInv
<1> QED
  BY <1>1, Invariant, PTL

\* F-12, for every graph: Kahn's count blocks a plan, or refuses its rollback, on a
\* cycle and on nothing else, and what the gates approve has its producers first.
THEOREM CycleGateCounts == Spec => []CycleGateIsExact
<1>1. IInv => CycleGateIsExact
  BY DEF IInv, Stages
<1> QED
  BY <1>1, Invariant, PTL

\* topological_reorder returns None for the plans in order and the cyclic ones only.
THEOREM ReorderDeclines == Spec => []ReorderDeclinesRightly
<1>1. IInv => ReorderDeclinesRightly
  BY DEF IInv, Stages
<1> QED
  BY <1>1, Invariant, PTL

\* A rollback plan undoes consumers first, and is closed under prerequisites.
THEOREM RollbacksRespectGraph == Spec => []RollbackRespectsGraph
<1>1. IInv => RollbackRespectsGraph
  BY DEF IInv, Stages
<1> QED
  BY <1>1, Invariant, PTL

-----------------------------------------------------------------------------
(***************************************************************************)
(* The reordered list is the least one.  The lists are greedy, and a       *)
(* greedy list comes before any other one in which producers come first:   *)
(* where they part, both took an available task.                           *)
(***************************************************************************)

\* A set of naturals has a least element; FiniteSetTheorems has this for sets.
LEMMA LeastNatural ==
  ASSUME NEW S \in SUBSET Nat, S # {}
  PROVE  \E n \in S : \A m \in S : n <= m
<1>1. IsWellFoundedOn(StrictSubsetOrdering(Nat), FiniteSubsetsOf(Nat))
  BY FS_StrictSubsetOrderingWellFounded
<1>2. PICK T : T = {1..n : n \in S}
  OBVIOUS
<1>3. \A n \in S : 1..n \in FiniteSubsetsOf(Nat)
  BY FS_Interval DEF FiniteSubsetsOf
<1>4. T \subseteq FiniteSubsetsOf(Nat) /\ T # {}
  BY <1>2, <1>3
<1>5. PICK t \in T : \A u \in T : <<u, t>> \notin StrictSubsetOrdering(Nat)
  BY <1>1, <1>4, WFMin
<1>6. PICK n \in S : t = 1..n
  BY <1>2
<1>7. ASSUME NEW m \in S PROVE n <= m
  <2>1. <<1..m, 1..n>> \notin StrictSubsetOrdering(Nat)
    BY <1>2, <1>5, <1>6
  <2>2. ~(1..m \subseteq 1..n /\ 1..m # 1..n)
    BY <2>1 DEF StrictSubsetOrdering
  <2>3. m < n => n \in 1..n /\ n \notin 1..m /\ 1..m \subseteq 1..n
    OBVIOUS
  <2> QED
    BY <2>2, <2>3
<1> QED
  BY <1>7

\* What s has before its place i.
Before(s, i) == {s[j] : j \in 1..i - 1}

\* Of the tasks available at each of its places, s takes the first one of l.
Greedy(s, l) ==
  \A i \in DOMAIN s : \A u \in Tasks \ Before(s, i) :
    Preds(u) \subseteq Before(s, i) => Position(l, s[i]) <= Position(l, u)

LeastInv ==
  /\ pc = "reorder" /\ list = draft => Greedy(order, draft)
  /\ list # draft =>
       /\ Honours(list) /\ Greedy(list, draft)
       /\ pc = "reorder" => \A i \in DOMAIN order : order[i] = list[i]

\* In a list in which producers come first, each task is available at its place.
LEMMA HonouringTakesAvailable ==
  ASSUME NEW s \in Lists, Honours(s), NEW i \in DOMAIN s
  PROVE  s[i] \in Tasks \ Before(s, i) /\ Preds(s[i]) \subseteq Before(s, i)
<1>1. s \in Seq(Tasks) /\ IsInjective(s) /\ Range(s) = Tasks /\ DOMAIN s = 1..Len(s) /\ Len(s) \in Nat
  BY ListIs
<1>2. s[i] \in Tasks \ Before(s, i)
  BY <1>1 DEF Before, IsInjective
<1>3. ASSUME NEW u \in Preds(s[i]) PROVE u \in Before(s, i)
  <2>1. PICK j \in DOMAIN s : s[j] = u
    BY <1>1 DEF Preds, Range
  <2>2. j < i
    BY <2>1 DEF Honours, Preds
  <2> QED
    BY <1>1, <2>1, <2>2 DEF Before
<1> QED
  BY <1>2, <1>3

LEMMA GreedyIsLeast ==
  ASSUME NEW s \in Lists, NEW l \in Lists, NEW d \in Lists, Greedy(s, d), Honours(l), l # s
  PROVE  \E k \in DOMAIN s : /\ \A i \in 1..k - 1 : s[i] = l[i]
                             /\ Position(d, s[k]) < Position(d, l[k])
<1>1. /\ s \in Seq(Tasks) /\ l \in Seq(Tasks) /\ DOMAIN s = DOMAIN l
      /\ DOMAIN s = 1..Len(s) /\ Len(s) \in Nat
      /\ IsInjective(d) /\ Range(d) = Tasks /\ DOMAIN d \subseteq Nat
  BY ListIs, TasksCounted
<1>2. PICK D : D = {i \in DOMAIN s : s[i] # l[i]}
  OBVIOUS
<1>3. D \in SUBSET Nat /\ D # {}
  <2>1. Len(s) = Len(l)
    BY ListIs
  <2>2. \E i \in DOMAIN s : s[i] # l[i]
    BY <1>1, <2>1, SeqEqual
  <2> QED
    BY <1>1, <1>2, <2>2
<1>4. PICK k \in D : \A m \in D : k <= m
  BY <1>3, LeastNatural
<1>5. k \in DOMAIN s /\ s[k] # l[k] /\ \A i \in 1..k - 1 : s[i] = l[i]
  BY <1>1, <1>2, <1>4
<1>6. Before(s, k) = Before(l, k)
  BY <1>5 DEF Before
<1>7. l[k] \in Tasks \ Before(s, k) /\ Preds(l[k]) \subseteq Before(s, k)
  BY <1>1, <1>5, <1>6, HonouringTakesAvailable
<1>8. Position(d, s[k]) <= Position(d, l[k])
  BY <1>5, <1>7 DEF Greedy
<1>9. /\ Position(d, s[k]) \in Nat /\ Position(d, l[k]) \in Nat
      /\ d[Position(d, s[k])] = s[k] /\ d[Position(d, l[k])] = l[k]
  <2>1. s[k] \in Tasks /\ l[k] \in Tasks
    BY <1>1, <1>5, SequenceIs
  <2> QED
    BY <1>1, <2>1, PositionOf
<1>10. Position(d, s[k]) # Position(d, l[k])
  BY <1>5, <1>9
<1> QED
  BY <1>5, <1>8, <1>9, <1>10

\* The least list leaves nothing to reorder: the tasks placed are its beginning.
LEMMA PlaceNextLeast ==
  ASSUME IInv, LeastInv, PlaceNext
  PROVE  LeastInv'
<1>1. PICK t \in Available : /\ \A u \in Available : Position(list, t) <= Position(list, u)
                             /\ order' = Append(order, t)
  BY DEF PlaceNext
<1>2. /\ UNCHANGED <<pc, draft, list, hard>> /\ pc = "reorder"
      /\ t \in Tasks \ Placed /\ Preds(t) \subseteq Placed
  BY <1>1 DEF PlaceNext, plan, Available
<1>3. /\ order \in Seq(Tasks) /\ IsInjective(order) /\ Placed \subseteq Tasks
      /\ list \in Lists
  BY OrderTyped DEF IInv
<1>4. PICK n : n = Len(order)
  OBVIOUS
<1>5. /\ n \in Nat /\ DOMAIN order = 1..n /\ DOMAIN order' = 1..n + 1
      /\ order'[n + 1] = t /\ \A i \in 1..n : order'[i] = order[i]
  BY <1>1, <1>3, <1>4
<1>6. \A i \in 1..n + 1 : Before(order, i) = Before(order', i)
  BY <1>5 DEF Before
<1>7. Before(order, n + 1) = Placed
  BY <1>3, <1>5 DEF Before, Placed, Range
<1>8. \A u : Preds(u)' = Preds(u)
  BY <1>2, SameGraph
<1>9. Available = {u \in Tasks \ Placed : Preds(u) \subseteq Placed}
  BY DEF Available
<1>10. CASE list = draft
  <2>1. ASSUME NEW i \in 1..n + 1, NEW u \in Tasks \ Before(order', i),
               Preds(u) \subseteq Before(order', i)
        PROVE  Position(draft, order'[i]) <= Position(draft, u)
    <3>1. CASE i \in 1..n
      BY <1>2, <1>5, <1>6, <1>10, <2>1, <3>1 DEF LeastInv, Greedy
    <3>2. CASE i = n + 1
      BY <1>1, <1>5, <1>6, <1>7, <1>9, <1>10, <2>1, <3>2
    <3> QED
      BY <1>5, <3>1, <3>2
  <2> QED
    BY <1>2, <1>5, <1>8, <1>10, <2>1 DEF LeastInv, Greedy, Before
<1>11. CASE list # draft
  <2>1. Honours(list) /\ Greedy(list, draft) /\ \A i \in 1..n : order[i] = list[i]
    BY <1>2, <1>5, <1>11 DEF LeastInv
  <2>2. /\ list \in Seq(Tasks) /\ IsInjective(list) /\ Range(list) = Tasks
        /\ DOMAIN list = 1..Len(list) /\ Len(list) \in Nat
    BY <1>3, ListIs
  <2>3. PICK k \in 1..Len(list) : list[k] = t
    BY <1>2, <2>2 DEF Range
  <2>4. k > n
    <3>1. t \notin {order[i] : i \in 1..n}
      BY <1>2, <1>5 DEF Placed, Range
    <3> SUFFICES ASSUME k \in 1..n PROVE FALSE
      BY <1>5, <2>2
    <3> QED
      BY <2>1, <2>3, <3>1
  <2>5. n + 1 \in DOMAIN list
    BY <1>5, <2>2, <2>3, <2>4
  <2>6. Before(list, n + 1) = Placed
    BY <1>5, <1>7, <2>1 DEF Before
  <2>7. list[n + 1] \in Available
    BY <1>3, <1>9, <2>1, <2>5, <2>6, HonouringTakesAvailable
  <2>8. Position(list, t) <= Position(list, list[n + 1])
    BY <1>1, <2>7
  <2>9. Position(list, t) = k /\ Position(list, list[n + 1]) = n + 1
    BY <2>2, <2>3, <2>5, PositionIs
  <2>10. k = n + 1
    BY <1>5, <2>4, <2>8, <2>9
  <2>11. \A i \in 1..n + 1 : order'[i] = list[i]
    BY <1>5, <2>1, <2>3, <2>10
  <2> QED
    BY <1>2, <1>5, <1>8, <1>11, <2>1, <2>11 DEF LeastInv, Greedy, Before, Honours
<1> QED
  BY <1>10, <1>11

\* What is adopted is the list the tasks were placed in, and is adopted once.
LEMMA AdoptReorderLeast ==
  ASSUME IInv, LeastInv, AdoptReorder
  PROVE  LeastInv'
<1>1. /\ pc = "reorder" /\ Placed = Tasks /\ order # list /\ list' = order
      /\ UNCHANGED <<draft, hard>> /\ pc' = "draft"
  BY DEF AdoptReorder
<1>2. order \in Lists /\ list \in Lists
  BY <1>1, OrderTyped, FullList DEF IInv, Placed
<1>3. list = draft
  <2>1. ASSUME list # draft PROVE order = list
    <3>1. \A i \in DOMAIN order : order[i] = list[i]
      BY <1>1, <2>1 DEF LeastInv
    <3>2. order \in Seq(Tasks) /\ list \in Seq(Tasks) /\ Len(order) = Len(list)
      BY <1>2, ListIs
    <3> QED
      BY <3>1, <3>2
  <2> QED
    BY <1>1, <2>1
<1>4. Greedy(order, draft) /\ Honours(order)
  BY <1>1, <1>3, AllPlaced DEF LeastInv
<1>5. \A u : Preds(u)' = Preds(u)
  BY <1>1, SameGraph
<1> QED
  BY <1>1, <1>4, <1>5 DEF LeastInv, Greedy, Before, Honours

LEMMA LeastInvariant == Spec => [](IInv /\ LeastInv)
<1>1. Init => LeastInv
  BY DEF Init, LeastInv
<1>2. IInv /\ LeastInv /\ [Next]_vars => LeastInv'
  <2> SUFFICES ASSUME IInv, LeastInv, [Next]_vars PROVE LeastInv'
    OBVIOUS
  <2>1. CASE PlaceNext
    BY <2>1, PlaceNextLeast
  <2>2. CASE AdoptReorder
    BY <2>2, AdoptReorderLeast
  <2>3. ASSUME UNCHANGED plan, pc' = "reorder" => (order' = order /\ pc = "reorder") \/ order' = <<>>
        PROVE  LeastInv'
    <3>1. \A u : Preds(u)' = Preds(u)
      BY <2>3, SameGraph DEF plan
    <3> QED
      BY <2>3, <3>1 DEF plan, LeastInv, Greedy, Before, Honours
  <2>4. pc = "draft" => order = <<>>
    BY DEF IInv
  <2>5. CASE RunCycleGate \/ StepFails \/ SynthesizeFull \/ RefuseCyclic \/ StartSort \/ Synthesize
    BY <2>3, <2>5 DEF RunCycleGate, StepFails, SynthesizeFull, RefuseCyclic, StartSort, Synthesize
  <2>6. CASE Dequeue \/ GatesEnd \/ DeclineReorder \/ CallReorder \/ UNCHANGED vars
    BY <2>3, <2>4, <2>6 DEF Dequeue, GatesEnd, DeclineReorder, CallReorder, vars, plan
  <2> QED
    BY <2>1, <2>2, <2>5, <2>6 DEF Next
<1> QED
  BY <1>1, <1>2, InitOK, Preserved, PTL DEF Spec

\* "Minimal disruption", for every graph and draft: of all lists in which producers
\* come first, the reordered one is the least in terms of the positions of the draft.
THEOREM ReorderDisruptsLeast == Spec => []ReorderIsLeast
<1>1. ASSUME IInv, LeastInv PROVE ReorderIsLeast
  <2>1. list \in Lists /\ draft \in Lists
    BY <1>1 DEF IInv, TypeOK, Lists
  <2>2. ASSUME list # draft, NEW l \in Lists, Honours(l), l # list
        PROVE  ComesBefore(list, l)
    BY <1>1, <2>1, <2>2, GreedyIsLeast DEF LeastInv, ComesBefore
  <2> QED
    BY <1>1, <2>2 DEF ReorderIsLeast, LeastInv, Lists
<1> QED
  BY <1>1, LeastInvariant, PTL


=============================================================================
