------------------------------ MODULE Migrations ------------------------------
(***************************************************************************)
(* store/versions.py: the schema migrations that every process applies     *)
(* when it opens the SQLite store, and that plancritic migrate applies and *)
(* reverts.                                                                *)
(*                                                                         *)
(* A migration's script is a list of DDL statements, and executescript     *)
(* commits each of them on its own; the row of schema_migrations is        *)
(* inserted (deleted) in a transaction of its own after the script.  Other *)
(* processes come in between, and a process may fail at any of these       *)
(* points (it dies, the database is locked or full).                       *)
(***************************************************************************)
EXTENDS Naturals

CONSTANTS
  SchemaVersion,  \* the latest migration
  Parts,          \* objects each migration creates
  Processes,
  MaxFailures     \* bound: processes that fail half-way

MigrationsAssumption ==
  /\ SchemaVersion \in Nat \ {0} /\ Parts \in Nat \ {0} /\ MaxFailures \in Nat
ASSUME MigrationsAssumption

Versions == 1..SchemaVersion
Targets == 0..SchemaVersion

VARIABLES
  ledger,   \* the versions schema_migrations lists
  objects,  \* objects[v]: the objects of migration v that exist
  proc,     \* what each process is doing
  failures,
  mayRevert,  \* somebody runs plancritic migrate --revert; fixed from the start
  alone       \* history: no process has started while another was at work, or failed

vars == <<ledger, objects, proc, failures, mayRevert, alone>>

\* at: "idle"; the script that runs, "up" or "down", and its next statement; the
\* ledger row to follow, "record" or "unrecord"; the outcome, "opened" or "failed".
Proc(at, v, part, target) == [at |-> at, version |-> v, part |-> part, target |-> target]
Idle == Proc("idle", 0, 1, 0)

\* current_schema_version
IsCurrent(v) == (v = 0 \/ v \in ledger) /\ \A u \in ledger : u <= v

Complete(v) == objects[v] = 1..Parts

Init ==
  /\ ledger = {}
  /\ objects = [v \in Versions |-> {}]
  /\ proc = [p \in Processes |-> Idle]
  /\ failures = 0
  /\ mayRevert \in BOOLEAN
  /\ alone = TRUE

\* p starts an upgrade or a revert.
Starts(p) ==
  /\ alone' = (alone /\ \A q \in Processes \ {p} : proc[q].at \in {"idle", "opened", "failed"})
  /\ UNCHANGED mayRevert

Become(p, state) == proc' = [proc EXCEPT ![p] = state]

\* The turn of apply_migrations' loop after version v; it counts on from what the
\* process read at the start.
Upward(v, target) ==
  IF v < target THEN Proc("up", v + 1, 1, target) ELSE Proc("opened", v, 1, target)

\* Variant: the process trusts the newest table it finds, not the ledger.
StartUpFromTables(p, target) ==
  /\ proc[p].at = "idle"
  /\ LET found == IF \E v \in Versions : objects[v] # {}
                  THEN CHOOSE v \in Versions : /\ objects[v] # {}
                                               /\ \A u \in Versions : objects[u] # {} => u <= v
                  ELSE 0
     IN found <= target /\ Become(p, Upward(found, target))
  /\ Starts(p)
  /\ UNCHANGED <<ledger, objects, failures>>

\* apply_migrations; SQLiteStore always asks for the latest version.
StartUp(p, target) ==
  /\ proc[p].at = "idle"
  /\ \E current \in Targets :
       /\ IsCurrent(current)
       /\ Become(p, IF target < current THEN Proc("failed", 0, 1, target)
                                        ELSE Upward(current, target))
  /\ Starts(p)
  /\ UNCHANGED <<ledger, objects, failures>>

\* Variant: the script creates what exists already, and fails.
CreateObjectStrictly(p) ==
  /\ proc[p].at = "up"
  /\ LET v == proc[p].version  k == proc[p].part
     IN IF k \in objects[v]
        THEN Become(p, Proc("failed", 0, 1, proc[p].target)) /\ UNCHANGED objects
        ELSE /\ objects' = [objects EXCEPT ![v] = @ \cup {k}]
             /\ Become(p, IF k < Parts THEN [proc[p] EXCEPT !.part = k + 1]
                                       ELSE [proc[p] EXCEPT !.at = "record"])
  /\ UNCHANGED <<ledger, failures, mayRevert, alone>>

\* The next statement of the up script: CREATE ... IF NOT EXISTS.
CreateObject(p) ==
  /\ proc[p].at = "up"
  /\ LET v == proc[p].version  k == proc[p].part
     IN /\ objects' = [objects EXCEPT ![v] = @ \cup {k}]
        /\ Become(p, IF k < Parts THEN [proc[p] EXCEPT !.part = k + 1]
                                  ELSE [proc[p] EXCEPT !.at = "record"])
  /\ UNCHANGED <<ledger, failures, mayRevert, alone>>

\* The INSERT into the ledger: a version that another process has recorded
\* meanwhile is an IntegrityError, raised as StoreUnavailable.
Record(p) ==
  /\ proc[p].at = "record"
  /\ LET v == proc[p].version
     IN IF v \in ledger
        THEN Become(p, Proc("failed", 0, 1, proc[p].target)) /\ UNCHANGED ledger
        ELSE ledger' = ledger \cup {v} /\ Become(p, Upward(v, proc[p].target))
  /\ UNCHANGED <<objects, failures, mayRevert, alone>>

\* The turn of revert_migrations' loop that leaves the process at version v.
Downward(v, target) == IF v > target THEN Proc("down", v, 1, target) ELSE Idle

\* revert_migrations
StartDown(p, target) ==
  /\ mayRevert
  /\ proc[p].at = "idle"
  /\ \E current \in Targets :
       /\ IsCurrent(current) /\ target <= current
       /\ Become(p, Downward(current, target))
  /\ Starts(p)
  /\ UNCHANGED <<ledger, objects, failures>>

\* The next statement of the down script: DROP ... IF EXISTS.
DropObject(p) ==
  /\ proc[p].at = "down"
  /\ LET v == proc[p].version  k == proc[p].part
     IN /\ objects' = [objects EXCEPT ![v] = @ \ {k}]
        /\ Become(p, IF k < Parts THEN [proc[p] EXCEPT !.part = k + 1]
                                  ELSE [proc[p] EXCEPT !.at = "unrecord"])
  /\ UNCHANGED <<ledger, failures, mayRevert, alone>>

\* Variant: the row of the version reached is deleted, not that of the one left.
UnrecordBelow(p) ==
  /\ proc[p].at = "unrecord"
  /\ LET v == proc[p].version
     IN ledger' = ledger \ {v - 1} /\ Become(p, Downward(v - 1, proc[p].target))
  /\ UNCHANGED <<objects, failures, mayRevert, alone>>

Unrecord(p) ==
  /\ proc[p].at = "unrecord"
  /\ LET v == proc[p].version
     IN ledger' = ledger \ {v} /\ Become(p, Downward(v - 1, proc[p].target))
  /\ UNCHANGED <<objects, failures, mayRevert, alone>>

\* A statement fails or the process dies; what is committed stays.
Fail(p) ==
  /\ proc[p].at \in {"up", "record", "down", "unrecord"}
  /\ failures < MaxFailures
  /\ failures' = failures + 1
  /\ Become(p, Proc("failed", 0, 1, proc[p].target))
  /\ alone' = FALSE
  /\ UNCHANGED <<ledger, objects, mayRevert>>

\* The store is closed, or the error was reported; the process may open it again.
Close(p) ==
  /\ proc[p].at \in {"opened", "failed"}
  /\ Become(p, Idle)
  /\ UNCHANGED <<ledger, objects, failures, mayRevert, alone>>

Migrate(p) == CreateObject(p) \/ Record(p) \/ DropObject(p) \/ Unrecord(p)

Next ==
  \/ \E p \in Processes : Migrate(p) \/ Fail(p) \/ Close(p)
  \/ \E p \in Processes, target \in Targets : StartUp(p, target) \/ StartDown(p, target)

Spec == Init /\ [][Next]_vars

\* No call hangs, and callers open the store again and again, whatever else they
\* ask of it in between.
Retried == \A p \in Processes :
  /\ WF_vars(Migrate(p)) /\ WF_vars(Close(p))
  /\ SF_vars(StartUp(p, SchemaVersion))
RetriedSpec == Spec /\ Retried

-----------------------------------------------------------------------------
(***************************************************************************)
(* Properties                                                              *)
(***************************************************************************)

\* Every variable has its type.
TypeOK ==
  /\ ledger \subseteq Versions
  /\ objects \in [Versions -> SUBSET (1..Parts)]
  /\ \A p \in Processes :
       /\ proc[p] \in [at : {"idle", "up", "record", "down", "unrecord", "opened", "failed"},
                       version : Targets, part : 1..Parts, target : Targets]
       /\ proc[p].at \in {"up", "record", "down", "unrecord"} => proc[p].version # 0
  /\ failures \in 0..MaxFailures
  /\ mayRevert \in BOOLEAN /\ alone \in BOOLEAN

\* The versions recorded run on from 1 and all their objects exist.
LedgerHolds ==
  \A v \in ledger : Complete(v) /\ \A u \in Versions : u < v => u \in ledger

\* Without reverts, and whatever fails or runs at the same time, the ledger never
\* claims a schema that is not there.
LedgerIsTrue == ~mayRevert => LedgerHolds

\* Without reverts, opening the store ensures that the schema exists: when
\* apply_migrations returns, every object up to its target is there.
SchemaExistsOnOpen ==
  ~mayRevert => \A p \in Processes : proc[p].at = "opened" =>
    \A v \in Versions : v <= proc[p].target => Complete(v)

\* Without reverts, a process that dies half-way or loses the race for a ledger row
\* wedges nobody: once failures stop, the opens to come finish the migration.
UpgradeCompletes == ~mayRevert ~> SchemaVersion \in ledger

\* A migration is reversible: as long as nothing failed and no two processes were at
\* it together, at rest exactly the objects of the recorded versions exist, after any
\* ups and downs.
Reversible ==
  alone /\ (\A p \in Processes : proc[p].at \in {"idle", "opened", "failed"}) =>
    \A v \in Versions : IF v \in ledger THEN Complete(v) ELSE objects[v] = {}

=============================================================================
