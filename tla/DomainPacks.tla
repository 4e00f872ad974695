---------------------------- MODULE DomainPacks -----------------------------
(***************************************************************************)
(* The gates of the four domain packs (domains/*/gates.py), which an       *)
(* engine runs beside its own.  A plan names what it does by actions, and  *)
(* a pack asks for a safeguard: two gates of secops look at the order of   *)
(* the list, every other gate only whether some task of the plan is one.   *)
(***************************************************************************)
EXTENDS PlanSchema

CONSTANTS
  Cost,        \* Cost[target]: the number a target is, 0 when it is none
  BudgetCap    \* finops: what scale-ups may cost together

Packs == {"data_eng", "finops", "secops", "supply_chain"}

Has(p, actions) == \E t \in Steps(p) : t.action \in actions
Doing(p, actions) == {t \in Steps(p) : t.action \in actions}

\* A blocker for each of these tasks.
Flags(code, S) == {Blocker(code, t.id) : t \in S}

\* Some task with one of the first actions is listed before t.
Preceded(p, t, actions) ==
  \E u \in Doing(p, actions) : Place(p, u.id) < Place(p, t.id)

(***************************************************************************)
(* data_eng                                                                *)
(***************************************************************************)
DestructiveQueries == {"drop_table", "truncate", "delete_rows", "drop_db"}
BackupActions == {"create_backup", "backup"}
VerifyBackupActions == {"verify_restorable", "verify_backup"}
WindowActions == {"maintenance_window", "open_window", "begin_window"}
LiveMigrations == {"live_migrate", "migrate"}
DualWriteActions == {"enable_dual_write", "dual_write"}
FallbackActions == {"define_fallback", "fallback_path"}

SchemaPreVerification(p) ==
  When(~(Has(p, BackupActions) /\ Has(p, VerifyBackupActions)),
       Flags("data_eng_destructive_without_backup", Doing(p, DestructiveQueries)))

SLAWindow(p) ==
  When(~Has(p, WindowActions),
       Flags("data_eng_migration_outside_maintenance_window",
             Doing(p, LiveMigrations \cup {"apply_migration"})))

DualWrite(p) ==
  When(~Has(p, DualWriteActions),
       Flags("data_eng_migration_without_dual_write", Doing(p, LiveMigrations)))
  \cup When(~Has(p, FallbackActions),
            Flags("data_eng_migration_without_fallback", Doing(p, LiveMigrations)))

(***************************************************************************)
(* finops                                                                  *)
(***************************************************************************)
Deletions == {"delete", "terminate", "release"}
GraceSteps == {{"snapshot", "backup"}, {"notify_owner", "notify"}, {"wait_grace_period", "wait"}}
OverrideActions == {"executive_override", "budget_override"}
ScaleUps == {"scale_up", "scale_out", "provision", "add_capacity"}

GracePeriod(p) ==
  When(\E step \in GraceSteps : ~Has(p, step),
       Flags("finops_delete_without_grace_period", Doing(p, Deletions)))

\* One scale-up of known cost hides that another one's is unknown.
Spend(p) ==
  FoldSeq(LAMBDA t, sum : IF t.action \in ScaleUps THEN sum + Cost[t.target] ELSE sum,
          0, p.tasks)

BudgetBoundary(p) ==
  LET code == "finops_budget_boundary_breached"
  IN When(Has(p, ScaleUps) /\ ~Has(p, OverrideActions),
          IF Spend(p) = 0 THEN {Warning(code, NoTask)}
          ELSE When(Spend(p) > BudgetCap, {Blocker(code, NoTask)}))

(***************************************************************************)
(* secops                                                                  *)
(***************************************************************************)
ForensicDestruction == {"terminate", "stop", "destroy", "delete"}
Preservation == {"snapshot", "backup", "export", "capture"}
Approvals == {"human_approval", "approve", "peer_review"}
StsActions == {"sts:AssumeRole"}     \* stands for every action of that prefix
BroadTargets == {"*", "all", "everything", "arn:aws:iam::*"}

\* Variant: a drain anywhere in the plan will do.
UndrainedAnywhere(p) ==
  {t \in Doing(p, {"isolate"}) : ~Has(p, {"drain"})}

Undrained(p) == {t \in Doing(p, {"isolate"}) : ~Preceded(p, t, {"drain"})}

BlastRadius(p) == Flags("secops_isolation_without_traffic_drain", Undrained(p))

ForensicOrder(p) ==
  Flags("secops_forensic_order_violation",
        {t \in Doing(p, Preservation) : Preceded(p, t, ForensicDestruction)})

LeastPrivilege(p) ==
  When(~Has(p, Approvals),
       Flags("secops_broad_privilege_without_hitl",
             {t \in Doing(p, StsActions) : t.target \in BroadTargets}))

(***************************************************************************)
(* supply_chain                                                            *)
(***************************************************************************)
ManifestEdits == {"edit_manifest", "edit_dependency", "add_dependency"}
LockfileActions == {"regenerate_lockfile", "update_lockfile", "install"}
LockfileTargets == {"package-lock.json", "yarn.lock", "poetry.lock", "Pipfile.lock",
                    "Cargo.lock", "go.sum", "composer.lock"}
MajorBumps == {"bump_major", "breaking_change"}
MigrationActions == {"run_migration", "write_migration", "migrate"}
LintActions == {"run_linter", "lint", "api_lint"}    \* or any name that ends with _lint
Deployments == {"deploy", "release", "publish"}
SignActions == {"sign_artifact", "sign", "cosign"}
SbomActions == {"generate_sbom", "generate_bom", "sbom"}

\* A lockfile is regenerated, or its name is part of some task's target.
Relocks(p) == Has(p, LockfileActions) \/ \E t \in Steps(p) : t.target \in LockfileTargets

TransitiveLocking(p) ==
  When(~Relocks(p), Flags("supply_chain_lockfile_not_regenerated", Doing(p, ManifestEdits)))

BreakingChange(p) ==
  When(~(Has(p, MigrationActions) /\ Has(p, LintActions)),
       Flags("supply_chain_breaking_change_without_migration", Doing(p, MajorBumps)))

ArtifactIntegrity(p) ==
  When(~Has(p, SignActions), Flags("supply_chain_unsigned_artifact", Doing(p, Deployments)))
  \cup When(~Has(p, SbomActions), Flags("supply_chain_missing_sbom", Doing(p, Deployments)))

(***************************************************************************)
(* What an engine's pack says of a plan; None is an engine without one.    *)
(***************************************************************************)
PackFindings(p, pack) ==
  CASE pack = "data_eng"     -> SchemaPreVerification(p) \cup SLAWindow(p) \cup DualWrite(p)
    [] pack = "finops"       -> GracePeriod(p) \cup BudgetBoundary(p)
    [] pack = "secops"       -> BlastRadius(p) \cup ForensicOrder(p) \cup LeastPrivilege(p)
    [] pack = "supply_chain" -> TransitiveLocking(p) \cup BreakingChange(p) \cup ArtifactIntegrity(p)
    [] OTHER                 -> {}

=============================================================================
