---------------------------- MODULE ReasonCodes -----------------------------
(***************************************************************************)
(* The catalogue of reason codes (reason_codes.py), by who raises them.  A *)
(* Finding is validated against it: one with a code of its own is an       *)
(* exception in the middle of a run.                                       *)
(***************************************************************************)

\* the gates every engine runs, and the stall guard of the loop
GateCodes ==
  {"plan_schema_invalid", "dependency_cycle", "unsafe_ordering", "missing_verification",
   "missing_rollback", "unverified_precondition", "unsafe_parallelization",
   "verification_after_consumer", "rollback_unreachable", "rollback_self_dependent",
   "rollback_inconsistent_state", "rollback_post_consumed", "rollback_state_undeclared",
   "step_not_traced_to_criterion", "family_histogram_cycling"}

\* the automatic fixes and the convergence guards
FixCodes ==
  {"auto_repaired_ordering", "auto_closed_precondition", "plan_oscillation_detected",
   "auto_converge_partial_approval"}

\* policies
PolicyCodes ==
  {"policy_evaluation_error", "policy_violation"}

\* the gates of the domain packs
PackCodes ==
  {"secops_isolation_without_traffic_drain", "secops_forensic_order_violation",
   "secops_broad_privilege_without_hitl", "supply_chain_lockfile_not_regenerated",
   "supply_chain_breaking_change_without_migration", "supply_chain_unsigned_artifact",
   "supply_chain_missing_sbom", "finops_delete_without_grace_period",
   "finops_budget_boundary_breached", "data_eng_destructive_without_backup",
   "data_eng_migration_outside_maintenance_window", "data_eng_migration_without_dual_write",
   "data_eng_migration_without_fallback"}

\* rollback synthesis
RollbackCodes ==
  {"rollback_dag_generated", "rollback_execution_triggered",
   "rollback_non_reversible_step_skipped", "rollback_missing_action_mapping"}

\* how a run of the loop ends
LoopCodes ==
  {"revision_cap_reached", "converged_stalled", "regression_thrashing", "budget_exceeded",
   "replan_aborted", "approved", "planning_unavailable", "critic_satisfied",
   "approval_threshold_not_met", "runtime_precondition_stale"}

\* the critic, one per heuristic family
CriticCodes ==
  {"llm_feasibility", "llm_risk", "llm_missing_steps", "llm_unsafe_sequencing",
   "llm_unverified_dependencies", "llm_weak_rollback"}

\* evaluation of the critic
OracleCodes ==
  {"security_critic_aligned", "security_critic_missed", "security_critic_spurious",
   "security_injection_blocked", "security_injection_bypassed", "standing_rule_proposed",
   "standing_rule_promoted", "label_migration_detected", "boundary_case_flip",
   "irreversible_invariant_blocked"}

\* posture, run budget, replanning, resource lock, drift, ledger
SafetyCodes ==
  {"posture_resolved", "run_budget_exceeded", "run_depth_exceeded", "run_timeout",
   "transient_retry_triggered", "deterministic_replan_triggered",
   "ambiguous_replan_escalated", "step_retry_budget_exceeded", "state_view_stale",
   "resource_locked_by_concurrent_execution", "concurrent_resource_conflict",
   "finding_drift_stored", "drift_alert_triggered", "precondition_redundantly_re_injected",
   "precondition_dropped_from_compaction", "secret_redacted"}

\* reserved for the scale validation; nothing raises them yet
ScaleCodes ==
  {"idp_rbac_broad_role", "idp_missing_corporate_metadata", "idp_quota_breach",
   "idp_noisy_neighbor_risk", "multi_agent_cyclic_handoff",
   "multi_agent_unverified_state_signal", "multi_agent_rollback_unsynchronized",
   "sre_blast_radius_exceeded", "sre_missing_inter_batch_healthcheck",
   "sre_destructive_without_hitl", "scp_no_topological_propagation",
   "scp_missing_per_service_ci", "scp_bulk_deploy_internal_dep",
   "fng_cost_impact_exceeds_budget", "fng_terminates_committed_instance"}

\* blast-radius quota
QuotaCodes ==
  {"blast_radius_quota_breach", "blast_radius_restricted_cluster",
   "blast_radius_restricted_action"}

ReasonCode ==
  UNION {GateCodes, FixCodes, PolicyCodes, PackCodes, RollbackCodes, LoopCodes,
         CriticCodes, OracleCodes, SafetyCodes, ScaleCodes, QuotaCodes}

=============================================================================
