----------------------------- MODULE PlanningRun -----------------------------
(***************************************************************************)
(* What a planning run promises, whatever the controller does inside: at   *)
(* most a limit of rounds of drafting, each draft possibly replaced by a   *)
(* mechanical fix of it, then exactly one verdict; only a sound draft is   *)
(* ever approved, and a verdict is never taken back.                       *)
(***************************************************************************)
EXTENDS Naturals

CONSTANTS
  Drafts, NoDraft,
  Sound,    \* the drafts the deterministic gates do not block
  Fixes     \* <<p, q>> when the engine may replace p by its mechanical fix q

VARIABLES status, draft, rounds, limit

runVars == <<status, draft, rounds, limit>>

Start ==
  status = "running" /\ draft = NoDraft /\ rounds = 0 /\ limit \in Nat \ {0}

\* The planner drafts, or drafts again.
Draft ==
  /\ status = "running" /\ rounds < limit
  /\ draft' \in Drafts
  /\ rounds' = rounds + 1
  /\ UNCHANGED <<status, limit>>

FixDraft ==
  /\ status = "running"
  /\ <<draft, draft'>> \in Fixes
  /\ UNCHANGED <<status, rounds, limit>>

Approval ==
  /\ status = "running"
  /\ draft \in Sound
  /\ status' = "approved"
  /\ UNCHANGED <<draft, rounds, limit>>

Stop ==
  /\ status = "running"
  /\ status' \in {"escalated", "failed"}
  /\ UNCHANGED <<draft, rounds, limit>>

RunStep == Draft \/ FixDraft \/ Approval \/ Stop

RunSafety == Start /\ [][RunStep]_runVars

\* Every run ends with a verdict.
RunSpec == RunSafety /\ WF_runVars(Approval \/ Stop)

==============================================================================
