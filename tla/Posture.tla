------------------------------ MODULE Posture -------------------------------
(***************************************************************************)
(* The context-aware posture of a run (posture.py): the first rule whose   *)
(* every signal is in the context decides, and the goal's own posture      *)
(* stands when none does.  A rule keeps, for each key it names, the values *)
(* it takes (an expected value, or those a "re:" pattern finds); a signal  *)
(* the context lacks is the empty text.                                    *)
(***************************************************************************)
EXTENDS Naturals, Sequences

Signals == {"env", "pc_env", "git_branch", "deploy_target", "k8s_namespace"}
Unset == ""

\* _collect_context: what the environment and the sources registered beside it say.
Context(known) == [k \in Signals |-> IF k \in DOMAIN known THEN known[k] ELSE Unset]

Matches(rule, context) == \A k \in DOMAIN rule.match : context[k] \in rule.match[k]

\* Places of the rules that apply.
Applying(rules, context) == {i \in DOMAIN rules : Matches(rules[i], context)}

Resolve(rules, context, goalPosture) ==
  LET A == Applying(rules, context)
  IN IF A = {} THEN goalPosture
     ELSE rules[CHOOSE i \in A : \A j \in A : i <= j].posture

=============================================================================
