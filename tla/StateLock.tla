------------------------------ MODULE StateLock ------------------------------
(***************************************************************************)
(* state.StateLock: locks on resource URIs that plans executing at the     *)
(* same time take before they touch a resource.                            *)
(*                                                                         *)
(* The caller is external: a plan acquires URIs, releases those it was     *)
(* granted, and gives up the ones it was refused.  Time advances in poll   *)
(* intervals (0.5 s).  A lock carries its age, counted up to the first     *)
(* value past the timeout, which is all that is_expired compares; a waiter *)
(* carries what is left until its deadline.                                *)
(***************************************************************************)
EXTENDS Naturals

CONSTANTS
  Plans, Uris,
  NoPlan,
  Strategies,    \* the strategies a StateLock may be built with
  LockTimeout,   \* lock_timeout, in polls
  WaitDeadline   \* wait_deadline, in polls

LockStrategy == {"wait", "fail_fast", "escalate"}

ASSUME LockAssumption ==
  /\ NoPlan \notin Plans
  /\ Strategies \subseteq LockStrategy
  /\ LockTimeout \in Nat /\ WaitDeadline \in Nat

VARIABLES
  strategy,  \* fixed when the StateLock is built
  punctual,  \* the callers let go of a resource before its lock expires
  lock,      \* _locks: per URI, the plan recorded (NoPlan: none) and its age
  grant,     \* grant[p][u]: age of the lock p was granted, as p counts it, or None
  call       \* call[p]: the acquire p is in, if any

vars == <<strategy, punctual, lock, grant, call>>

Expired == LockTimeout + 1
Ages == 0..Expired
NotGranted == Expired + 1

Idle == [at |-> "idle"]
Call(at, u, left) == [at |-> at, uri |-> u, left |-> left]

Unlocked == [plan |-> NoPlan, age |-> 0]

\* Variant: a lock expires one poll early.
IsActiveShort(u) == lock[u].plan # NoPlan /\ lock[u].age < LockTimeout

\* ResourceLock.is_active; release() also deletes the record.
IsActive(u) == lock[u].plan # NoPlan /\ lock[u].age <= LockTimeout

\* pre_execution_conflict
Conflicts(us) == {u \in us : IsActive(u)}

Init ==
  /\ strategy \in Strategies
  /\ punctual \in BOOLEAN
  /\ lock = [u \in Uris |-> Unlocked]
  /\ grant = [p \in Plans |-> [u \in Uris |-> NotGranted]]
  /\ call = [p \in Plans |-> Idle]

\* A plan asks for what it does not hold: acquire is not reentrant.  A punctual
\* plan holds one resource at a time, so that it never waits while holding.
MayAsk(p, u) ==
  /\ call[p] = Idle
  /\ grant[p][u] = NotGranted
  /\ punctual => \A v \in Uris : grant[p][v] = NotGranted

Grant(p, u) ==
  /\ lock' = [lock EXCEPT ![u] = [plan |-> p, age |-> 0]]
  /\ grant' = [grant EXCEPT ![p][u] = 0]
  /\ call' = [call EXCEPT ![p] = Idle]
  /\ UNCHANGED <<strategy, punctual>>

\* acquire: the first look at the record, under the mutex.
Acquire(p, u) == MayAsk(p, u) /\ ~IsActive(u) /\ Grant(p, u)

\* fail_fast and escalate return their reason code and change nothing; wait
\* computes its deadline and goes on polling.
AcquireBusy(p, u) ==
  /\ MayAsk(p, u)
  /\ IsActive(u)
  /\ strategy = "wait"
  /\ call' = [call EXCEPT ![p] = Call("waiting", u, WaitDeadline)]
  /\ UNCHANGED <<strategy, punctual, lock, grant>>

\* Variant: the deadline is computed again on every turn.
WaitOnAnew(p) ==
  /\ call[p].at = "waiting"
  /\ call' = [call EXCEPT ![p] = IF @.left > 0 THEN Call("asleep", @.uri, WaitDeadline)
                                              ELSE Idle]
  /\ UNCHANGED <<strategy, punctual, lock, grant>>

\* The while test: sleep for a poll, or return "locked" once the deadline is over.
WaitOn(p) ==
  /\ call[p].at = "waiting"
  /\ call' = [call EXCEPT ![p] = IF @.left > 0 THEN Call("asleep", @.uri, @.left) ELSE Idle]
  /\ UNCHANGED <<strategy, punctual, lock, grant>>

\* Variant: the plan that wakes up does not look at the record again.
PollUnchecked(p) == call[p].at = "awake" /\ Grant(p, call[p].uri)

\* After the sleep the record is looked at again, under the mutex.
Poll(p) ==
  /\ call[p].at = "awake"
  /\ IF IsActive(call[p].uri)
     THEN /\ call' = [call EXCEPT ![p].at = "waiting"]
          /\ UNCHANGED <<strategy, punctual, lock, grant>>
     ELSE Grant(p, call[p].uri)

\* Variant: the record stays until somebody takes it over.
ReleaseKeepsRecord(p, u) ==
  /\ call[p] = Idle /\ grant[p][u] # NotGranted
  /\ grant' = [grant EXCEPT ![p][u] = NotGranted]
  /\ UNCHANGED <<strategy, punctual, lock, call>>

\* release(uri): whatever lock is recorded goes, whoever it was granted to.
Release(p, u) ==
  /\ call[p] = Idle /\ grant[p][u] # NotGranted
  /\ lock' = [lock EXCEPT ![u] = Unlocked]
  /\ grant' = [grant EXCEPT ![p][u] = NotGranted]
  /\ UNCHANGED <<strategy, punctual, call>>

Older(age) == IF age \in 0..LockTimeout THEN age + 1 ELSE age

\* A poll interval passes; a punctual plan lets go before its lock expires.
Tick ==
  /\ punctual => \A p \in Plans, u \in Uris : grant[p][u] # LockTimeout
  /\ lock' = [u \in Uris |-> IF lock[u].plan = NoPlan THEN lock[u]
                             ELSE [plan |-> lock[u].plan, age |-> Older(lock[u].age)]]
  /\ grant' = [p \in Plans |-> [u \in Uris |-> Older(grant[p][u])]]
  /\ call' = [p \in Plans |->
       IF call[p] = Idle THEN Idle
       ELSE Call(IF call[p].at = "asleep" THEN "awake" ELSE call[p].at, call[p].uri,
                 IF call[p].left > 0 THEN call[p].left - 1 ELSE 0)]
  /\ UNCHANGED <<strategy, punctual>>

PlanStep(p) ==
  \/ \E u \in Uris : Acquire(p, u) \/ AcquireBusy(p, u) \/ Release(p, u)
  \/ WaitOn(p)
  \/ Poll(p)

Next == (\E p \in Plans : PlanStep(p)) \/ Tick

\* Clocks run, a thread inside acquire goes on, and punctual plans let go; what a
\* late plan does with the resources it was granted is up to the plan.
Spec ==
  /\ Init /\ [][Next]_vars
  /\ WF_vars(Tick)
  /\ \A p \in Plans : WF_vars(WaitOn(p) \/ Poll(p))
  /\ \A p \in Plans, u \in Uris : WF_vars(punctual /\ Release(p, u))

-----------------------------------------------------------------------------
(***************************************************************************)
(* Properties                                                              *)
(***************************************************************************)

\* Every variable has its type.
TypeOK ==
  /\ strategy \in Strategies
  /\ punctual \in BOOLEAN
  /\ lock \in [Uris -> [plan : Plans \cup {NoPlan}, age : Ages]]
  /\ grant \in [Plans -> [Uris -> Ages \cup {NotGranted}]]
  /\ call \in [Plans -> {Idle} \cup
                [at : {"waiting", "asleep", "awake"}, uri : Uris, left : 0..WaitDeadline]]
  /\ \A p \in Plans : call[p] # Idle => strategy = "wait"

HoldsInTime(p, u) == grant[p][u] \in 0..LockTimeout

\* Plans that let go before their locks expire exclude each other: two of them never
\* hold the same resource, each within the timeout of its own lock, through waits,
\* polls and the releases of others.
MutualExclusion ==
  punctual => \A u \in Uris, p, q \in Plans : HoldsInTime(p, u) /\ HoldsInTime(q, u) => p = q

\* Whoever holds u within the timeout is recorded, so that there is one of them.
IsExclusive(u) == \A p \in Plans : HoldsInTime(p, u) => lock[u].plan = p

\* enterprise-safety-design.md: "Concurrent plans targeting the same resource are
\* blocked".  With plans of any kind that is lost in one way only: a plan that is past
\* its timeout lets go of a resource another one has taken over (release asks nobody
\* whose lock it deletes).  Neither a take-over nor a waiter that wakes up does it.
OnlyLateReleaseBreaksExclusion ==
  [][\A u \in Uris : IsExclusive(u) /\ ~IsExclusive(u)' =>
       \E p \in Plans : grant[p][u] = Expired /\ grant'[p][u] = NotGranted]_vars

\* Whatever the plans do, late and foreign releases included, no plan is refused
\* for a ghost: a recorded lock is that of a plan which still counts itself its
\* holder and is of the age that plan counts, so every conflict that acquire and
\* pre_execution_conflict report is with a plan that holds the resource in time.
ConflictIsReal ==
  /\ \A u \in Uris, p \in Plans : lock[u].plan = p => grant[p][u] = lock[u].age
  /\ \A u \in Conflicts(Uris) : \E p \in Plans : HoldsInTime(p, u)

\* acquire returns, under every strategy and however long the others hold on:
\* plans that each hold what the other waits for do not block for ever.
AcquireReturns == \A p \in Plans : call[p] # Idle ~> call[p] = Idle

=============================================================================
