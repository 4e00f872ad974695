------------------------------ MODULE Notifier ------------------------------
(***************************************************************************)
(* The escalation notifier: a dispatch offers one event to every surface   *)
(* in turn, up to MaxRetries times each.  The key of the event is          *)
(* remembered before the first attempt, for a window of five minutes, and  *)
(* an event whose key is remembered is not dispatched.                     *)
(*                                                                         *)
(* A surface is a webhook: it may take a request and its answer be lost.   *)
(* The message a formatter makes of an event is the event.  The caller,    *)
(* who dispatches an event again until every surface confirmed it, is      *)
(* external, and so are the surfaces.                                      *)
(***************************************************************************)
EXTENDS Naturals, Sequences, SequencesExt

CONSTANTS
  Surfaces,    \* the surfaces that may be registered
  Events, Keys,
  Key,         \* Key[e]: escalation id and plan id; a run that is repeated may
               \* raise another question under the same key
  MaxRetries,
  Window       \* DEDUP_TTL, in ticks

ASSUME NotifierAssumption ==
  /\ Key \in [Events -> Keys]
  /\ MaxRetries \in Nat \ {0} /\ Window \in Nat \ {0}

VARIABLES
  surfaces, \* _surfaces: the names registered, in order
  age,      \* _dedup: the age of the entry of a key; Window when there is none
  call,     \* the dispatch in progress
  inbox,    \* inbox[s]: the events surface s has taken
  told      \* told[s]: the events of which dispatch returned a success for s

vars == <<surfaces, age, call, inbox, told>>

Idle == [todo |-> <<>>]
Dispatch(e, todo) == [event |-> e, todo |-> todo, attempt |-> 1]
Busy == call # Idle
Offers(s, e) == Busy /\ call.event = e /\ Head(call.todo) = s

Init ==
  /\ surfaces = <<>>
  /\ age = [k \in Keys |-> Window]
  /\ call = Idle
  /\ inbox = [s \in Surfaces |-> {}]
  /\ told = [s \in Surfaces |-> {}]

\* A name that is known keeps its place.
Register(s) ==
  /\ ~Busy
  /\ s \notin ToSet(surfaces)
  /\ surfaces' = Append(surfaces, s)
  /\ UNCHANGED <<age, call, inbox, told>>

\* Variant: an entry is renewed by every look at it, and so never evicted.
AgedNever(k) == 0

\* Eviction: an entry counts while it is younger than the window.
Aged(k) == IF age[k] = Window THEN Window ELSE age[k] + 1

\* Without a surface the key is recorded and the call returns at once the empty
\* list that a skipped dispatch returns too.
Begin(e) ==
  /\ ~Busy
  /\ \E s \in Surfaces : e \notin told[s]
  /\ age[Key[e]] = Window
  /\ age' = [age EXCEPT ![Key[e]] = 0]
  /\ call' = IF surfaces = <<>> THEN Idle ELSE Dispatch(e, surfaces)
  /\ UNCHANGED <<surfaces, inbox, told>>

\* Variant: attempts are counted for the dispatch and not for each surface.
AfterSharedAttempts ==
  IF call.attempt < MaxRetries THEN [call EXCEPT !.attempt = @ + 1] ELSE Idle

\* The attempt after one that failed: the same surface, then the one after it.
AfterFailure ==
  IF call.attempt < MaxRetries THEN [call EXCEPT !.attempt = @ + 1]
  ELSE IF Len(call.todo) = 1 THEN Idle ELSE Dispatch(call.event, Tail(call.todo))

\* The surface takes the message and answers in time.
Delivered(s, e) ==
  /\ Offers(s, e)
  /\ inbox' = [inbox EXCEPT ![s] = @ \cup {e}]
  /\ told' = [told EXCEPT ![s] = @ \cup {e}]
  /\ call' = IF Len(call.todo) = 1 THEN Idle ELSE Dispatch(e, Tail(call.todo))
  /\ UNCHANGED <<surfaces, age>>

\* No success: the surface refuses, the formatter raises, or no answer comes in
\* ten seconds although the message may have been taken.
Failed(s, e) ==
  /\ Offers(s, e)
  /\ \E taken \in BOOLEAN : inbox' = IF taken THEN [inbox EXCEPT ![s] = @ \cup {e}] ELSE inbox
  /\ call' = AfterFailure
  /\ UNCHANGED <<surfaces, age, told>>

Tick ==
  /\ age' = [k \in Keys |-> Aged(k)]
  /\ UNCHANGED <<surfaces, call, inbox, told>>

Next ==
  \/ Tick
  \/ \E s \in Surfaces : Register(s)
  \/ \E e \in Events : Begin(e)
  \/ \E s \in Surfaces, e \in Events : Delivered(s, e) \/ Failed(s, e)

\* dispatch runs on: each attempt has a time limit of ten seconds.  Of the
\* environment: the caller does not tire of an event, and a surface that is
\* offered it again and again takes it and answers some time.
Fairness ==
  /\ WF_vars(Tick)
  /\ \A s \in Surfaces : SF_vars(Register(s))
  /\ \A e \in Events : SF_vars(Begin(e))
  /\ \A s \in Surfaces, e \in Events :
       SF_vars(Delivered(s, e)) /\ WF_vars(Delivered(s, e) \/ Failed(s, e))

Spec == Init /\ [][Next]_vars /\ Fairness

-----------------------------------------------------------------------------

\* The notifier implements the delivery promise: dispatch reports a success
\* only of a surface that has the event, and it returns when every surface
\* registered has confirmed or used up its own attempts, whatever became of the
\* surfaces before it.
Promise ==
  INSTANCE Delivery WITH
    open <- [e \in Events |-> IF Busy /\ call.event = e THEN ToSet(call.todo) ELSE {}],
    reached <- inbox, confirmed <- told
ImplementsDelivery == Promise!Spec

\* A key that is remembered although its delivery failed, or although no surface
\* was registered yet, or because another question was asked under it, only
\* delays an event: a caller who keeps dispatching gets it to every surface.
EveryEventArrives == \A s \in Surfaces, e \in Events : <>(e \in inbox[s])

=============================================================================
