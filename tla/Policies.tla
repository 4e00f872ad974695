------------------------------ MODULE Policies ------------------------------
(***************************************************************************)
(* Policies (policy.py) and the commands that judge a plan file without a  *)
(* model (check, critique, domains test, policy test): the gates of every  *)
(* engine, those of the domain pack they are given, and policies.  The     *)
(* quota is the engine's alone.                                            *)
(***************************************************************************)
EXTENDS Gates

(***************************************************************************)
(* The built-in policies, used when neither a pack nor a directory is      *)
(* named.  They read the risk class of a task and not its blast radius.    *)
(***************************************************************************)
BuiltinHolds(p) ==
  [schema_valid |-> p.tasks # <<>>,
   no_unsafe_ordering |-> \A e \in p.hard : e[1] # e[2],
   high_risk_has_rollback |-> \A t \in Steps(p) : t.risky => t.rollback # "none",
   high_risk_has_verification |-> \A t \in Steps(p) : t.risky => t.what # None]

BuiltinFindings(p) ==
  {Blocker("policy_violation", NoTask) :
     name \in {n \in DOMAIN BuiltinHolds(p) : ~BuiltinHolds(p)[n]}}

(***************************************************************************)
(* A policy of a directory, by what evaluating it comes to.  An expression *)
(* that raises does not hold.  opa that is missing or fails is a warning;  *)
(* opa that exceeds its time limit raises, and check goes on without it.   *)
(***************************************************************************)
ExpressionVerdict(ending) == IF ending = "true" THEN "holds" ELSE "violated"

OpaVerdict(ending) ==
  CASE ending = "allow"     -> "holds"
    [] ending = "deny"      -> "violated"
    [] ending = "no answer" -> "unevaluated"
    [] ending = "timeout"   -> "raised"

Verdicts ==
  {ExpressionVerdict(ending) : ending \in {"true", "false", "error"}}
    \cup {OpaVerdict(ending) : ending \in {"allow", "deny", "no answer", "timeout"}}

PolicyFindings(v) ==
  CASE v = "violated"    -> {Blocker("policy_violation", NoTask)}
    [] v = "unevaluated" -> {Warning("policy_evaluation_error", NoTask)}
    [] OTHER             -> {}

NoDirectory == {"no directory"}

\* policies: NoDirectory, or the verdicts of the policies in the directory.
CheckFindings(p, pack, policies) ==
  StandardFindings(p) \cup PackFindings(p, pack)
    \cup (IF pack = None /\ policies = NoDirectory THEN BuiltinFindings(p)
          ELSE UNION {PolicyFindings(v) : v \in policies})

\* --fail-on-severity: the severities that make the command exit with 1.
Failing(threshold) ==
  CASE threshold = "low"                  -> Severity
    [] threshold \in {"medium", "warning"} -> {"warning", "blocker"}
    [] OTHER                               -> {"blocker"}

CheckPasses(p, pack, policies, threshold) ==
  \A f \in CheckFindings(p, pack, policies) : f.sev \notin Failing(threshold)

\* "critique" knows no pack; "domains test" fails on any finding.
CritiquePasses(p) == ~HasBlocker(StandardFindings(p))
DomainsTestPasses(p, pack) == CheckFindings(p, pack, {}) = {}

\* "policy test": any finding at all, a warning that it could not evaluate included.
PolicyTestPasses(policies) == \A v \in policies : PolicyFindings(v) = {}

=============================================================================
