------------------------- MODULE LockAndNotifierProofs -------------------------
(***************************************************************************)
(* What holds of the two services that the runs of one process share, the  *)
(* resource lock (StateLock) and the notifier (Notifier): for every set of *)
(* plans and resources and every timeout, and for every set of surfaces    *)
(* and events and any number of attempts.                                  *)
(***************************************************************************)
EXTENDS StateLock, TLAPS, SequenceTheorems

\* A recorded lock is counted by the plan it is recorded for.
Backed == \A u \in Uris, p \in Plans : lock[u].plan = p => grant[p][u] = lock[u].age

\* Of punctual plans, the one that holds a resource is the one recorded.
HeldIsRecorded ==
  punctual => \A p \in Plans, u \in Uris :
                grant[p][u] # NotGranted => HoldsInTime(p, u) /\ lock[u].plan = p

LockInv == TypeOK /\ Backed /\ HeldIsRecorded

LEMMA InitLock == Init => LockInv
BY LockAssumption
   DEF Init, LockInv, TypeOK, Backed, HeldIsRecorded, Unlocked, Idle, NotGranted,
       Expired, Ages, HoldsInTime

\* Granting u to p is safe when no active lock is recorded for u.
LEMMA GrantStep ==
  ASSUME LockInv, NEW p \in Plans, NEW u \in Uris, ~IsActive(u), Grant(p, u)
  PROVE  LockInv'
<1>1. TypeOK'
  BY LockAssumption DEF LockInv, TypeOK, Grant, Ages, Expired, Idle
<1>2. Backed'
  BY LockAssumption DEF LockInv, TypeOK, Backed, Grant, Ages, Expired
<1>3. HeldIsRecorded'
  <2> SUFFICES ASSUME punctual', NEW q \in Plans, NEW v \in Uris,
                      grant'[q][v] # NotGranted
               PROVE  grant'[q][v] \in 0..LockTimeout /\ lock'[v].plan = q
    BY DEF HeldIsRecorded, HoldsInTime, Grant, NotGranted, Expired
  <2>0. punctual
    BY DEF Grant
  <2>1. CASE q = p /\ v = u
    BY <2>1, LockAssumption DEF LockInv, TypeOK, Grant
  <2>2. CASE ~(q = p /\ v = u)
    <3>1. grant'[q][v] = grant[q][v]
      BY <2>2 DEF LockInv, TypeOK, Grant
    <3>2. grant[q][v] \in 0..LockTimeout /\ lock[v].plan = q
      BY <2>0, <3>1 DEF LockInv, HeldIsRecorded, HoldsInTime
    <3>3. v # u
      <4>1. SUFFICES ASSUME v = u PROVE FALSE
        OBVIOUS
      <4>2. lock[u].age = grant[q][u] /\ lock[u].plan # NoPlan
        BY <3>2, <4>1, LockAssumption DEF LockInv, Backed
      <4> QED
        BY <4>1, <4>2, <3>2, LockAssumption DEF IsActive
    <3> QED
      BY <3>1, <3>2, <3>3 DEF LockInv, TypeOK, Grant
  <2> QED
    BY <2>1, <2>2
<1> QED
  BY <1>1, <1>2, <1>3 DEF LockInv

LEMMA ReleaseStep ==
  ASSUME LockInv, NEW p \in Plans, NEW u \in Uris, Release(p, u)
  PROVE  LockInv'
<1>1. TypeOK'
  BY LockAssumption DEF LockInv, TypeOK, Release, Ages, Expired, Unlocked
<1>2. Backed'
  BY LockAssumption DEF LockInv, TypeOK, Backed, Release, Unlocked
<1>3. HeldIsRecorded'
  <2> SUFFICES ASSUME punctual', NEW q \in Plans, NEW v \in Uris,
                      grant'[q][v] # NotGranted
               PROVE  grant'[q][v] \in 0..LockTimeout /\ lock'[v].plan = q
    BY DEF HeldIsRecorded, HoldsInTime, NotGranted, Expired
  <2>0. punctual
    BY DEF Release
  <2>1. grant'[q][v] = grant[q][v] /\ ~(q = p /\ v = u)
    BY DEF LockInv, TypeOK, Release
  <2>2. grant[q][v] \in 0..LockTimeout /\ lock[v].plan = q
    BY <2>0, <2>1 DEF LockInv, HeldIsRecorded, HoldsInTime
  <2>3. v # u
    BY <2>0, <2>1, <2>2 DEF LockInv, HeldIsRecorded, Release
  <2> QED
    BY <2>1, <2>2, <2>3 DEF LockInv, TypeOK, Release
<1> QED
  BY <1>1, <1>2, <1>3 DEF LockInv

LEMMA TickStep == LockInv /\ Tick => LockInv'
<1> SUFFICES ASSUME LockInv, Tick PROVE LockInv'
  OBVIOUS
<1>1. TypeOK'
  BY LockAssumption
     DEF LockInv, TypeOK, Tick, Ages, Expired, NotGranted, Older, Idle, Call
<1>2. Backed'
  BY LockAssumption DEF LockInv, TypeOK, Backed, Tick, Ages, Expired, NotGranted, Older
<1>3. HeldIsRecorded'
  <2> SUFFICES ASSUME punctual', NEW p \in Plans, NEW u \in Uris,
                      grant'[p][u] # NotGranted
               PROVE  grant'[p][u] \in 0..LockTimeout /\ lock'[u].plan = p
    BY DEF HeldIsRecorded, HoldsInTime, NotGranted, Expired
  <2>0. punctual
    BY DEF Tick
  <2>1. grant'[p][u] = Older(grant[p][u]) /\ grant[p][u] # LockTimeout
    BY <2>0 DEF Tick
  <2>2. grant[p][u] # NotGranted
    BY <2>1, LockAssumption DEF Older, NotGranted, Expired
  <2>3. grant[p][u] \in 0..LockTimeout /\ lock[u].plan = p
    BY <2>0, <2>2 DEF LockInv, HeldIsRecorded, HoldsInTime
  <2>4. grant'[p][u] \in 0..LockTimeout
    BY <2>1, <2>3, LockAssumption DEF Older
  <2>5. lock'[u].plan = p
    BY <2>3, LockAssumption DEF Tick
  <2> QED
    BY <2>4, <2>5
<1> QED
  BY <1>1, <1>2, <1>3 DEF LockInv

LEMMA LockStep == LockInv /\ [Next]_vars => LockInv'
<1> SUFFICES ASSUME LockInv, [Next]_vars PROVE LockInv'
  OBVIOUS
<1>1. CASE UNCHANGED vars
  BY <1>1 DEF vars, LockInv, TypeOK, Backed, HeldIsRecorded, HoldsInTime
<1>2. CASE Tick
  BY <1>2, TickStep
<1>3. ASSUME NEW p \in Plans, PlanStep(p) PROVE LockInv'
  <2>1. ASSUME NEW u \in Uris, Acquire(p, u) PROVE LockInv'
    BY <2>1, GrantStep DEF Acquire
  <2>2. ASSUME NEW u \in Uris, AcquireBusy(p, u) PROVE LockInv'
    <3>1. TypeOK'
      BY <2>2, LockAssumption DEF LockInv, TypeOK, AcquireBusy, Call, Idle
    <3> QED
      BY <2>2, <3>1 DEF LockInv, Backed, HeldIsRecorded, HoldsInTime, AcquireBusy
  <2>3. ASSUME NEW u \in Uris, Release(p, u) PROVE LockInv'
    BY <2>3, ReleaseStep
  <2>4. CASE WaitOn(p)
    <3>1. TypeOK'
      BY <2>4, LockAssumption DEF LockInv, TypeOK, WaitOn, Call, Idle
    <3> QED
      BY <2>4, <3>1 DEF LockInv, Backed, HeldIsRecorded, HoldsInTime, WaitOn
  <2>5. CASE Poll(p)
    <3>1. call[p].uri \in Uris
      BY <2>5 DEF Poll, LockInv, TypeOK, Idle
    <3>2. CASE IsActive(call[p].uri)
      <4> DEFINE Calls == [at : {"waiting", "asleep", "awake"}, uri : Uris,
                           left : 0..WaitDeadline]
      <4>1. call[p] \in Calls /\ call[p] # Idle
        BY <2>5 DEF Poll, LockInv, TypeOK, Idle
      <4>2. [call[p] EXCEPT !.at = "waiting"] \in Calls
        BY <4>1
      <4>3. /\ call' = [call EXCEPT ![p] = [call[p] EXCEPT !.at = "waiting"]]
            /\ UNCHANGED <<strategy, punctual, lock, grant>>
        BY <2>5, <3>2 DEF Poll
      <4>4. call \in [Plans -> Calls \cup {Idle}]
        BY DEF LockInv, TypeOK
      <4>5. call' \in [Plans -> Calls \cup {Idle}]
        BY <4>2, <4>3, <4>4
      <4>6. TypeOK'
        <5>1. \A q \in Plans : call'[q] # Idle => strategy = "wait"
          BY <4>1, <4>3, <4>4 DEF LockInv, TypeOK
        <5> QED
          BY <4>3, <4>5, <5>1 DEF LockInv, TypeOK
      <4>7. Backed' /\ HeldIsRecorded'
        BY <4>3 DEF LockInv, Backed, HeldIsRecorded, HoldsInTime
      <4> QED
        BY <4>6, <4>7 DEF LockInv
    <3>3. CASE ~IsActive(call[p].uri)
      BY <2>5, <3>1, <3>3, GrantStep DEF Poll
    <3> QED
      BY <3>2, <3>3
  <2> QED
    BY <1>3, <2>1, <2>2, <2>3, <2>4, <2>5 DEF PlanStep
<1> QED
  BY <1>1, <1>2, <1>3 DEF Next

LEMMA AlwaysLocked == Spec => []LockInv
BY InitLock, LockStep, PTL DEF Spec

\* Whatever the plans do, a lock that stands in somebody's way is the lock of a
\* plan that holds the resource within its timeout.
THEOREM ConflictsAreReal == Spec => []ConflictIsReal
<1>1. LockInv => ConflictIsReal
  BY LockAssumption
     DEF LockInv, TypeOK, Backed, ConflictIsReal, Conflicts, IsActive, HoldsInTime, Ages
<1> QED
  BY <1>1, AlwaysLocked, PTL

\* Plans that let go before the timeout exclude each other, for any number of
\* plans, any resources, any timeout and any deadline.
THEOREM PunctualPlansExcludeEachOther == Spec => []MutualExclusion
<1>1. LockInv => MutualExclusion
  BY LockAssumption
     DEF LockInv, HeldIsRecorded, MutualExclusion, HoldsInTime, NotGranted, Expired
<1> QED
  BY <1>1, AlwaysLocked, PTL

\* What the theorem below says of one resource.
BreaksLate(u) ==
  IsExclusive(u) /\ ~IsExclusive(u)' =>
    \E p \in Plans : grant[p][u] = Expired /\ grant'[p][u] = NotGranted

\* A lock is granted only where no active one is recorded, hence nobody in time.
LEMMA GrantKeepsExclusion ==
  ASSUME LockInv, NEW p \in Plans, NEW v \in Uris, ~IsActive(v), Grant(p, v),
         NEW u \in Uris, IsExclusive(u)
  PROVE  IsExclusive(u)'
<1> SUFFICES ASSUME NEW q \in Plans, HoldsInTime(q, u)' PROVE lock'[u].plan = q
  BY DEF IsExclusive
<1>1. CASE u = v /\ q = p
  BY <1>1 DEF Grant, LockInv, TypeOK
<1>2. CASE u # v \/ q # p
  <2>1. grant'[q][u] = grant[q][u]
    BY <1>2 DEF Grant, LockInv, TypeOK
  <2>2. HoldsInTime(q, u) /\ lock[u].plan = q
    BY <2>1 DEF HoldsInTime, IsExclusive
  <2>3. lock[u].age \in 0..LockTimeout /\ lock[u].plan # NoPlan
    BY <2>2, LockAssumption DEF HoldsInTime, LockInv, Backed
  <2>4. u # v
    BY <2>3, LockAssumption DEF IsActive
  <2> QED
    BY <2>2, <2>4 DEF Grant, LockInv, TypeOK
<1> QED
  BY <1>1, <1>2

\* Whoever frees a resource in time is the one recorded, so only a late plan frees
\* that of another.
LEMMA ReleaseBreaksLate ==
  ASSUME LockInv, NEW p \in Plans, NEW v \in Uris, Release(p, v), NEW u \in Uris
  PROVE  BreaksLate(u)
<1> SUFFICES ASSUME IsExclusive(u), NEW q \in Plans, HoldsInTime(q, u)', lock'[u].plan # q
             PROVE  \E x \in Plans : grant[x][u] = Expired /\ grant'[x][u] = NotGranted
  BY DEF BreaksLate, IsExclusive
<1>1. ~(q = p /\ u = v)
  BY LockAssumption DEF Release, LockInv, TypeOK, HoldsInTime, NotGranted, Expired
<1>2. HoldsInTime(q, u) /\ lock[u].plan = q
  BY <1>1 DEF Release, LockInv, TypeOK, HoldsInTime, IsExclusive
<1>3. u = v /\ q # p
  BY <1>1, <1>2 DEF Release, LockInv, TypeOK
<1>4. ~HoldsInTime(p, u)
  BY <1>2, <1>3 DEF IsExclusive
<1>5. grant[p][u] = Expired
  <2>1. grant[p][u] \in Ages \cup {NotGranted} /\ grant[p][u] # NotGranted
    BY <1>3 DEF Release, LockInv, TypeOK
  <2>2. grant[p][u] \in 0..(LockTimeout + 1) /\ ~(grant[p][u] \in 0..LockTimeout)
    BY <1>4, <2>1 DEF HoldsInTime, Ages, Expired
  <2> QED
    BY <2>2, LockAssumption DEF Expired
<1>6. grant'[p][u] = NotGranted
  BY <1>3 DEF Release, LockInv, TypeOK
<1> QED
  BY <1>5, <1>6

\* Time passes for the plan and for the record alike.
LEMMA TickKeepsExclusion ==
  ASSUME LockInv, Tick, NEW u \in Uris, IsExclusive(u)
  PROVE  IsExclusive(u)'
<1> SUFFICES ASSUME NEW q \in Plans, HoldsInTime(q, u)' PROVE lock'[u].plan = q
  BY DEF IsExclusive
<1>1. grant[q][u] \in Ages \cup {NotGranted} /\ grant'[q][u] = Older(grant[q][u])
  BY DEF Tick, LockInv, TypeOK
<1>2. HoldsInTime(q, u)
  BY <1>1, LockAssumption DEF HoldsInTime, Older, Ages, Expired, NotGranted
<1>3. lock[u].plan = q
  BY <1>2 DEF IsExclusive
<1> QED
  BY <1>3, LockAssumption DEF Tick

\* Whatever the plans do, exclusion is lost only to the release of a plan that held
\* on past its timeout.
THEOREM ExclusionBreaksLate == Spec => OnlyLateReleaseBreaksExclusion
<1>1. ASSUME LockInv, [Next]_vars
      PROVE  [\A u \in Uris : BreaksLate(u)]_vars
  <2> SUFFICES ASSUME Next, NEW u \in Uris PROVE BreaksLate(u)
    BY <1>1
  <2>1. CASE UNCHANGED <<lock, grant>>
    BY <2>1 DEF BreaksLate, IsExclusive, HoldsInTime
  <2>2. CASE Tick
    BY <1>1, <2>2, TickKeepsExclusion DEF BreaksLate
  <2>3. ASSUME NEW p \in Plans, NEW v \in Uris, Acquire(p, v) PROVE BreaksLate(u)
    BY <1>1, <2>3, GrantKeepsExclusion DEF Acquire, BreaksLate
  <2>4. ASSUME NEW p \in Plans, NEW v \in Uris, Release(p, v) PROVE BreaksLate(u)
    BY <1>1, <2>4, ReleaseBreaksLate
  <2>5. ASSUME NEW p \in Plans, Poll(p) PROVE BreaksLate(u)
    <3>1. call[p].uri \in Uris
      BY <1>1, <2>5 DEF Poll, LockInv, TypeOK, Idle
    <3>2. CASE IsActive(call[p].uri)
      BY <2>1, <2>5, <3>2 DEF Poll
    <3>3. CASE ~IsActive(call[p].uri)
      BY <1>1, <2>5, <3>1, <3>3, GrantKeepsExclusion DEF Poll, BreaksLate
    <3> QED
      BY <3>2, <3>3
  <2>6. ASSUME NEW p \in Plans, NEW v \in Uris, AcquireBusy(p, v) \/ WaitOn(p)
        PROVE  BreaksLate(u)
    BY <2>1, <2>6 DEF AcquireBusy, WaitOn
  <2> QED
    BY <2>2, <2>3, <2>4, <2>5, <2>6 DEF Next, PlanStep
<1> QED
  BY <1>1, AlwaysLocked, PTL DEF Spec, OnlyLateReleaseBreaksExclusion, BreaksLate

(***************************************************************************)
(* The notifier implements the delivery promise.                           *)
(***************************************************************************)

CONSTANTS Channels, Events, Keys, Key, MaxRetries, Window
VARIABLES surfaces, age, delivery, inbox, told

Alerts == INSTANCE Notifier WITH Surfaces <- Channels, call <- delivery

\* A list of surfaces, each named once.
Listing(l) == l \in Seq(Channels) /\ \A i, j \in 1..Len(l) : l[i] = l[j] => i = j

\* The surfaces a dispatch still has to serve are a list of them, and not an empty one.
Dispatches ==
  [event : Events, todo : {l \in Seq(Channels) : l # <<>> /\ Listing(l)}, attempt : Nat]
NotifierInv == Listing(surfaces) /\ delivery \in Dispatches \cup {Alerts!Idle}

LEMMA DispatchIsBusy ==
  ASSUME NEW c, c.todo # <<>>
  PROVE  c # Alerts!Idle
BY DEF Alerts!Idle

LEMMA ListingTail ==
  ASSUME NEW l, Listing(l), l # <<>>
  PROVE  /\ Head(l) \in Alerts!ToSet(l) /\ Alerts!ToSet(l) \subseteq Channels
         /\ Len(l) = 1 => Alerts!ToSet(l) = {Head(l)}
         /\ Len(l) # 1 => /\ Tail(l) # <<>> /\ Listing(Tail(l))
                          /\ Alerts!ToSet(Tail(l)) = Alerts!ToSet(l) \ {Head(l)}
<1>1. /\ l \in Seq(Channels) /\ Len(l) \in Nat /\ Len(l) >= 1 /\ DOMAIN l = 1..Len(l)
      /\ Head(l) = l[1] /\ \A i \in 1..Len(l) : l[i] \in Channels
  BY EmptySeq DEF Listing
<1>2. Alerts!ToSet(l) = {l[i] : i \in 1..Len(l)}
  BY <1>1 DEF Alerts!ToSet
<1>3. ASSUME Len(l) # 1
      PROVE  /\ Tail(l) # <<>> /\ Listing(Tail(l))
             /\ Alerts!ToSet(Tail(l)) = Alerts!ToSet(l) \ {Head(l)}
  <2>1. PICK m : m = Tail(l)
    OBVIOUS
  <2>2. /\ m \in Seq(Channels) /\ Len(m) = Len(l) - 1 /\ DOMAIN m = 1..Len(l) - 1
        /\ \A i \in 1..Len(l) - 1 : m[i] = l[i + 1]
    BY <1>1, <2>1
  <2>3. \A i \in 1..Len(l) - 1 : i + 1 \in 1..Len(l) /\ i + 1 # 1
    BY <1>1
  <2>4. \A i \in 1..Len(l) : i # 1 => i - 1 \in 1..Len(l) - 1 /\ (i - 1) + 1 = i
    BY <1>1
  <2>5. Listing(m)
    <3>1. ASSUME NEW i \in 1..Len(l) - 1, NEW j \in 1..Len(l) - 1, m[i] = m[j] PROVE i = j
      <4>1. l[i + 1] = l[j + 1]
        BY <2>2, <3>1
      <4>2. i + 1 = j + 1
        BY <2>3, <4>1 DEF Listing
      <4> QED
        BY <1>1, <4>2
    <3> QED
      BY <2>2, <3>1 DEF Listing
  <2>6. m # <<>>
    BY <1>1, <1>3, <2>2
  <2>7. Alerts!ToSet(m) = {m[i] : i \in 1..Len(l) - 1}
    BY <2>2 DEF Alerts!ToSet
  <2>8. ASSUME NEW x \in Alerts!ToSet(m) PROVE x \in Alerts!ToSet(l) \ {Head(l)}
    <3>1. PICK i \in 1..Len(l) - 1 : x = m[i]
      BY <2>7
    <3>2. x = l[i + 1] /\ i + 1 \in 1..Len(l) /\ i + 1 # 1
      BY <2>2, <2>3, <3>1
    <3>3. 1 \in 1..Len(l)
      BY <1>1
    <3>4. l[i + 1] # l[1]
      BY <3>2, <3>3 DEF Listing
    <3> QED
      BY <1>1, <1>2, <3>2, <3>4
  <2>9. ASSUME NEW x \in Alerts!ToSet(l) \ {Head(l)} PROVE x \in Alerts!ToSet(m)
    <3>1. PICK i \in 1..Len(l) : x = l[i]
      BY <1>2
    <3>2. i # 1
      BY <1>1, <3>1
    <3>3. i - 1 \in 1..Len(l) - 1 /\ m[i - 1] = l[i]
      BY <2>2, <2>4, <3>2
    <3> QED
      BY <2>7, <3>1, <3>3
  <2> QED
    BY <2>1, <2>5, <2>6, <2>8, <2>9
<1> QED
  BY <1>1, <1>2, <1>3

LEMMA ListingAppend ==
  ASSUME NEW l, Listing(l), NEW s \in Channels, s \notin Alerts!ToSet(l)
  PROVE  Listing(Append(l, s))
<1>1. l \in Seq(Channels) /\ Len(l) \in Nat /\ \A i \in 1..Len(l) : l[i] # s
  BY DEF Listing, Alerts!ToSet
<1>2. PICK m : m = Append(l, s)
  OBVIOUS
<1>3. /\ m \in Seq(Channels) /\ Len(m) = Len(l) + 1 /\ m[Len(l) + 1] = s
      /\ \A i \in 1..Len(l) : m[i] = l[i]
  BY <1>1, <1>2
<1>4. ASSUME NEW i \in 1..Len(l) + 1, NEW j \in 1..Len(l) + 1, m[i] = m[j] PROVE i = j
  <2>1. \A x \in 1..Len(l) + 1 : x = Len(l) + 1 \/ x \in 1..Len(l)
    BY <1>1
  <2> QED
    BY <1>1, <1>3, <1>4, <2>1 DEF Listing
<1> QED
  BY <1>2, <1>3, <1>4 DEF Listing

\* What is left to do after a surface was served or given up.
Onward(e, l) == IF Len(l) = 1 THEN Alerts!Idle ELSE Alerts!Dispatch(e, Tail(l))

LEMMA OnwardDispatches ==
  ASSUME NEW e \in Events, NEW l, Listing(l), l # <<>>
  PROVE  Onward(e, l) \in Dispatches \cup {Alerts!Idle}
<1>1. CASE Len(l) = 1
  BY <1>1 DEF Onward
<1>2. CASE Len(l) # 1
  <2>1. Tail(l) # <<>> /\ Listing(Tail(l)) /\ Tail(l) \in Seq(Channels)
    BY <1>2, ListingTail DEF Listing
  <2> QED
    BY <1>2, <2>1 DEF Onward, Dispatches, Alerts!Dispatch
<1> QED
  BY <1>1, <1>2

LEMMA BusyDispatch ==
  ASSUME NotifierInv, NEW s, NEW e, Alerts!Offers(s, e)
  PROVE  /\ delivery \in Dispatches /\ e \in Events /\ delivery.event = e
         /\ Listing(delivery.todo) /\ delivery.todo # <<>> /\ s = Head(delivery.todo)
<1>1. delivery \in Dispatches /\ delivery.event = e /\ s = Head(delivery.todo)
  BY DEF Alerts!Offers, Alerts!Busy, NotifierInv
<1> QED
  BY <1>1 DEF Dispatches

LEMMA AfterFailureIs ==
  ASSUME NotifierInv, NEW s, NEW e, Alerts!Offers(s, e)
  PROVE  \/ Alerts!AfterFailure = Onward(e, delivery.todo)
         \/ Alerts!AfterFailure \in Dispatches /\ Alerts!AfterFailure.event = e /\ Alerts!AfterFailure.todo = delivery.todo
<1>1. delivery \in Dispatches /\ delivery.event = e
  BY BusyDispatch
<1>2. CASE delivery.attempt < MaxRetries
  <2>1. Alerts!AfterFailure = [delivery EXCEPT !.attempt = delivery.attempt + 1]
    BY <1>2 DEF Alerts!AfterFailure
  <2> QED
    BY <1>1, <2>1 DEF Dispatches
<1>3. CASE ~(delivery.attempt < MaxRetries)
  BY <1>1, <1>3 DEF Alerts!AfterFailure, Onward
<1> QED
  BY <1>2, <1>3

LEMMA InitNotifierInv == Alerts!Init => NotifierInv
BY DEF Alerts!Init, NotifierInv, Listing

LEMMA StepNotifierInv ==
  ASSUME NotifierInv, [Alerts!Next]_(Alerts!vars)
  PROVE  NotifierInv'
<1>1. CASE Alerts!Tick \/ UNCHANGED Alerts!vars
  BY <1>1 DEF Alerts!Tick, Alerts!vars, NotifierInv
<1>2. ASSUME NEW s \in Channels, Alerts!Register(s) PROVE NotifierInv'
  BY <1>2, ListingAppend DEF Alerts!Register, NotifierInv
<1>3. ASSUME NEW e \in Events, Alerts!Begin(e) PROVE NotifierInv'
  <2>1. surfaces' = surfaces /\ Listing(surfaces) /\ surfaces \in Seq(Channels)
    BY <1>3 DEF Alerts!Begin, NotifierInv, Listing
  <2>2. surfaces # <<>> => Alerts!Dispatch(e, surfaces) \in Dispatches
    BY <2>1 DEF Alerts!Dispatch, Dispatches
  <2> QED
    BY <1>3, <2>1, <2>2 DEF Alerts!Begin, NotifierInv
<1>4. ASSUME NEW s \in Channels, NEW e \in Events, Alerts!Delivered(s, e) PROVE NotifierInv'
  <2>1. Alerts!Offers(s, e)
    BY <1>4 DEF Alerts!Delivered
  <2>2. delivery' = Onward(e, delivery.todo) /\ surfaces' = surfaces
    BY <1>4 DEF Alerts!Delivered, Onward
  <2>3. delivery' \in Dispatches \cup {Alerts!Idle}
    BY <2>1, <2>2, BusyDispatch, OnwardDispatches
  <2> QED
    BY <2>2, <2>3 DEF NotifierInv
<1>5. ASSUME NEW s \in Channels, NEW e \in Events, Alerts!Failed(s, e) PROVE NotifierInv'
  <2>1. Alerts!Offers(s, e) /\ delivery' = Alerts!AfterFailure /\ surfaces' = surfaces
    BY <1>5 DEF Alerts!Failed
  <2>2. delivery' \in Dispatches \cup {Alerts!Idle}
    BY <2>1, BusyDispatch, OnwardDispatches, AfterFailureIs
  <2> QED
    BY <2>1, <2>2 DEF NotifierInv
<1> QED
  BY <1>1, <1>2, <1>3, <1>4, <1>5 DEF Alerts!Next

\* The surfaces that are still to be served with event x, after the delivery is c.
ToServe(c, x) == IF c # Alerts!Idle /\ c.event = x THEN Alerts!ToSet(c.todo) ELSE {}
Open == [x \in Events |-> IF Alerts!Busy /\ delivery.event = x THEN Alerts!ToSet(delivery.todo) ELSE {}]

LEMMA OpenIs == Open = [x \in Events |-> ToServe(delivery, x)]
BY DEF Open, ToServe, Alerts!Busy

LEMMA OpenNext ==
  ASSUME NEW e \in Events, NEW S,
         \A x \in Events : ToServe(delivery', x) = IF x = e THEN S ELSE ToServe(delivery, x)
  PROVE  Open' = [Open EXCEPT ![e] = S]
BY OpenIs DEF Open, ToServe, Alerts!Busy

LEMMA OnwardServes ==
  ASSUME NotifierInv, NEW s, NEW e, Alerts!Offers(s, e), delivery' = Onward(e, delivery.todo)
  PROVE  /\ s \in Open[e] /\ Open' = [Open EXCEPT ![e] = @ \ {s}]
         /\ e \in Events
<1>1. /\ delivery \in Dispatches /\ e \in Events /\ delivery.event = e
      /\ Listing(delivery.todo) /\ delivery.todo # <<>> /\ s = Head(delivery.todo)
  BY BusyDispatch
<1>2. Open[e] = Alerts!ToSet(delivery.todo) /\ s \in Open[e]
  BY <1>1, ListingTail DEF Open, Alerts!Offers
<1>3. ToServe(delivery', e) = Alerts!ToSet(delivery.todo) \ {s}
  <2>1. CASE Len(delivery.todo) = 1
    <3>1. delivery' = Alerts!Idle
      BY <2>1 DEF Onward
    <3> QED
      BY <1>1, <2>1, <3>1, ListingTail DEF ToServe
  <2>2. CASE Len(delivery.todo) # 1
    <3>1. delivery' = Alerts!Dispatch(e, Tail(delivery.todo)) /\ Tail(delivery.todo) # <<>>
      BY <1>1, <2>2, ListingTail DEF Onward
    <3>2. delivery'.event = e /\ delivery'.todo = Tail(delivery.todo)
      BY <3>1 DEF Alerts!Dispatch
    <3>3. delivery' # Alerts!Idle
      BY <3>1, <3>2, DispatchIsBusy
    <3> QED
      BY <1>1, <2>2, <3>2, <3>3, ListingTail DEF ToServe
  <2> QED
    BY <2>1, <2>2
<1>4. \A x \in Events : x # e => ToServe(delivery, x) = {} /\ ToServe(delivery', x) = {}
  <2>1. delivery' = Alerts!Idle \/ delivery'.event = e
    BY DEF Onward, Alerts!Dispatch
  <2> QED
    BY <1>1, <2>1 DEF ToServe
<1>5. Open' = [Open EXCEPT ![e] = Alerts!ToSet(delivery.todo) \ {s}]
  <2>1. PICK S : S = Alerts!ToSet(delivery.todo) \ {s}
    OBVIOUS
  <2>2. \A x \in Events : ToServe(delivery', x) = IF x = e THEN S ELSE ToServe(delivery, x)
    BY <1>3, <1>4, <2>1
  <2>3. Open' = [Open EXCEPT ![e] = S]
    BY <1>1, <2>2, OpenNext
  <2> QED
    BY <2>1, <2>3
<1> QED
  BY <1>1, <1>2, <1>5

LEMMA SameCallOpen ==
  ASSUME delivery' = delivery
  PROVE  Open' = Open
BY DEF Open, Alerts!Busy

LEMMA NotifierRefines ==
  ASSUME NotifierInv, [Alerts!Next]_(Alerts!vars)
  PROVE  [Alerts!Promise!Next]_(Alerts!Promise!vars)
<1> USE DEF Open
<1>1. CASE Alerts!Tick \/ UNCHANGED Alerts!vars
  BY <1>1, SameCallOpen DEF Alerts!Tick, Alerts!vars, Alerts!Promise!vars
<1>2. ASSUME NEW s \in Channels, Alerts!Register(s) PROVE UNCHANGED Alerts!Promise!vars
  BY <1>2, SameCallOpen DEF Alerts!Register, Alerts!Promise!vars
<1>3. ASSUME NEW e \in Events, Alerts!Begin(e) PROVE [Alerts!Promise!Next]_(Alerts!Promise!vars)
  <2>1. delivery = Alerts!Idle /\ inbox' = inbox /\ told' = told /\ Listing(surfaces)
    BY <1>3 DEF Alerts!Begin, Alerts!Busy, NotifierInv
  <2>2. CASE surfaces = <<>>
    BY <1>3, <2>1, <2>2, SameCallOpen DEF Alerts!Begin, Alerts!Promise!vars
  <2>3. CASE surfaces # <<>>
    <3>1. delivery' = Alerts!Dispatch(e, surfaces)
      BY <1>3, <2>3 DEF Alerts!Begin
    <3>2. delivery'.event = e /\ delivery'.todo = surfaces
      BY <3>1 DEF Alerts!Dispatch
    <3>3. delivery' # Alerts!Idle
      BY <2>3, <3>2, DispatchIsBusy
    <3>4. PICK S : S = Alerts!ToSet(surfaces)
      OBVIOUS
    <3>5. \A x \in Events : ToServe(delivery', x) = IF x = e THEN S ELSE ToServe(delivery, x)
      BY <2>1, <3>2, <3>3, <3>4 DEF ToServe
    <3>6. Open' = [Open EXCEPT ![e] = S]
      BY <3>5, OpenNext
    <3>7. Open[e] = {}
      BY <2>1 DEF Alerts!Busy
    <3>8. S \in SUBSET Channels
      BY <2>1, <2>3, <3>4, ListingTail
    <3>9. Alerts!Promise!Begin(e, S)
      BY <2>1, <3>6, <3>7 DEF Alerts!Promise!Begin
    <3>10. Alerts!Promise!Next
      BY <3>8, <3>9 DEF Alerts!Promise!Next
    <3> QED
      BY <3>10
  <2> QED
    BY <2>2, <2>3
<1>4. ASSUME NEW s \in Channels, NEW e \in Events, Alerts!Delivered(s, e) PROVE Alerts!Promise!Next
  <2>1. /\ Alerts!Offers(s, e) /\ delivery' = Onward(e, delivery.todo)
        /\ inbox' = [inbox EXCEPT ![s] = @ \cup {e}] /\ told' = [told EXCEPT ![s] = @ \cup {e}]
    BY <1>4 DEF Alerts!Delivered, Onward
  <2>2. s \in Open[e] /\ Open' = [Open EXCEPT ![e] = @ \ {s}]
    BY <2>1, OnwardServes
  <2>3. Alerts!Promise!Confirm(s, e)
    BY <2>1, <2>2 DEF Alerts!Promise!Confirm
  <2> QED
    BY <2>3 DEF Alerts!Promise!Next
<1>5. ASSUME NEW s \in Channels, NEW e \in Events, Alerts!Failed(s, e) PROVE [Alerts!Promise!Next]_(Alerts!Promise!vars)
  <2>1. /\ Alerts!Offers(s, e) /\ delivery' = Alerts!AfterFailure /\ told' = told
        /\ inbox' \in {inbox, [inbox EXCEPT ![s] = @ \cup {e}]}
    BY <1>5 DEF Alerts!Failed
  <2>2. CASE Alerts!AfterFailure = Onward(e, delivery.todo)
    <3>1. s \in Open[e] /\ Open' = [Open EXCEPT ![e] = @ \ {s}]
      BY <2>1, <2>2, OnwardServes
    <3>2. Alerts!Promise!GiveUp(s, e)
      BY <2>1, <3>1 DEF Alerts!Promise!GiveUp
    <3> QED
      BY <3>2 DEF Alerts!Promise!Next
  <2>3. CASE Alerts!AfterFailure \in Dispatches /\ Alerts!AfterFailure.event = e /\ Alerts!AfterFailure.todo = delivery.todo
    <3>1. /\ delivery \in Dispatches /\ delivery.event = e
          /\ Listing(delivery.todo) /\ delivery.todo # <<>> /\ s = Head(delivery.todo)
      BY <2>1, BusyDispatch
    <3>2. delivery'.event = e /\ delivery'.todo = delivery.todo /\ delivery' # Alerts!Idle /\ delivery # Alerts!Idle
      BY <2>1, <2>3, <3>1, DispatchIsBusy
    <3>3. Open' = Open
      BY <3>1, <3>2 DEF Alerts!Busy
    <3>4. s \in Open[e]
      BY <3>1, <3>2, ListingTail DEF Alerts!Busy
    <3>5. CASE inbox' = inbox
      BY <2>1, <3>3, <3>5 DEF Alerts!Promise!vars
    <3>6. CASE inbox' = [inbox EXCEPT ![s] = @ \cup {e}]
      <4>1. Alerts!Promise!Arrive(s, e)
        BY <2>1, <3>3, <3>4, <3>6 DEF Alerts!Promise!Arrive
      <4> QED
        BY <4>1 DEF Alerts!Promise!Next
    <3> QED
      BY <2>1, <3>5, <3>6
  <2> QED
    BY <2>1, <2>2, <2>3, AfterFailureIs
<1> QED
  BY <1>1, <1>2, <1>3, <1>4, <1>5 DEF Alerts!Next

\* notifier.py: whatever surfaces fail, a dispatch reports a success only of a
\* surface that has the event, and ends when each one was served or given up on.
THEOREM NotifierImplementsDelivery == Alerts!Spec => Alerts!ImplementsDelivery
<1>1. Alerts!Init => Alerts!Promise!Init
  BY DEF Alerts!Init, Alerts!Promise!Init, Alerts!Busy
<1>2. Alerts!Init => NotifierInv
  BY InitNotifierInv
<1>3. NotifierInv /\ [Alerts!Next]_(Alerts!vars) => NotifierInv'
  BY StepNotifierInv
<1>4. NotifierInv /\ [Alerts!Next]_(Alerts!vars) => [Alerts!Promise!Next]_(Alerts!Promise!vars)
  BY NotifierRefines
<1> QED
  BY <1>1, <1>2, <1>3, <1>4, PTL DEF Alerts!Spec, Alerts!ImplementsDelivery, Alerts!Promise!Spec

=============================================================================
