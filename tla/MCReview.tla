----------------------------- MODULE MCReview ------------------------------
(***************************************************************************)
(* Small instances of Review: plans of two to four tasks around one        *)
(* high-risk migration, plans for each domain pack, and those of the       *)
(* demonstration.                                                          *)
(***************************************************************************)
EXTENDS Review, Policies, DemoScenarios, ReasonCodes

Low(id) ==
  [id |-> id, action |-> "apply", target |-> "app", high |-> FALSE, risky |-> FALSE, group |-> None,
   what |-> None, rollback |-> "none", pre |-> {}, traced |-> FALSE, flaw |-> "none"]
High(id) ==
  [Low(id) EXCEPT !.action = "migrate", !.target = "db", !.high = TRUE,
                  !.risky = TRUE, !.what = "schema ok", !.rollback = "typed"]
Needs(t, fact, by) == [t EXCEPT !.pre = {[fact |-> fact, by |-> by, probed |-> FALSE]}]

Do(id, action) == [Low(id) EXCEPT !.action = action]
On(t, target) == [t EXCEPT !.target = target]

Snap == On(Do("snap", "snapshot"), "database_snapshot")
MCQuota == [changes |-> 4, destructive |-> 1, alterations |-> 1,
            actions |-> {"terminate"}, targets |-> {"arn:aws:iam::*"}]
MCPreStateChecks == {"pre-state ok"}

Firsts ==
  {High("t1"), [High("t1") EXCEPT !.rollback = "prose"], [High("t1") EXCEPT !.what = None],
   [High("t1") EXCEPT !.action = "destroy"], Needs(High("t1"), "snapshot", "snap"),
   Needs(High("t1"), "snapshot", "t2"), Low("t1"), [Low("t1") EXCEPT !.flaw = "shaky"],
   [Low("t1") EXCEPT !.flaw = "feasibility"]}
Seconds ==
  {Low("t2"), [Low("t2") EXCEPT !.what = "snapshot"], [Low("t2") EXCEPT !.target = "db"],
   [Low("t2") EXCEPT !.what = "pre-state ok"], [Low("t2") EXCEPT !.flaw = "risk"],
   Needs(Low("t2"), "schema ok", "t1"), Needs(Low("t2"), "snapshot", "schema ok"),
   Needs(Low("t2"), "schema ok", None), Needs(Low("t2"), "schema ok", "verified:schema ok"),
   [High("t2") EXCEPT !.target = "app", !.action = "apply"], [High("t2") EXCEPT !.rollback = "none"]}
Thirds == {Low("t3"), [Low("t3") EXCEPT !.flaw = "feasibility"], Needs(Low("t3"), "snapshot", "t2")}

Plan(l, hard, soft) == [tasks |-> l, hard |-> hard, soft |-> soft]
In(g, t) == [t EXCEPT !.group = g]
Orders(a, b) == {<<a, b>>, <<b, a>>}
Edges == {{}, {<<"t1", "t2">>}, {<<"t2", "t1">>}, {<<"t1", "t2">>, <<"t2", "t1">>}}

Pairs == UNION {{Plan(l, E, {}) : l \in Orders(a, b), E \in Edges} : a \in Firsts, b \in Seconds}
Groups == UNION {{Plan(l, {}, S) : l \in Orders(In("g", a), In("g", b)),
                                   S \in {{}, {<<"t1", "t2">>}}} : a \in Firsts, b \in Seconds}
Triples == {Plan(<<a, b, c>>, {<<"t1", "t2">>}, S) :
              a \in Firsts, b \in Seconds, c \in Thirds, S \in {{}, {<<"t2", "t3">>}}}

\* Each member of the group has its basis in the other one; in a circle of three the
\* last one is outside.
Circles ==
  {Plan(<<In("g", Needs(Low("t1"), "a", by)), In("g", Needs(Low("t2"), "b", "t1"))>> \o last, {}, {}) :
     by \in {"t2", "t3", "env:app"}, last \in {<<>>, <<Needs(Low("t3"), "snapshot", "t2")>>}}

\* Two gaps of one task, and a gap whose task's name matches a template.
TwoGaps == [Low("t1") EXCEPT !.pre = {[fact |-> f, by |-> b, probed |-> FALSE] :
                                        f \in {"snapshot", "outage"}, b \in {"snap"}}]
Gapped == {Plan(<<Low("t2"), t>>, {}, {}) :
             t \in {TwoGaps, Needs(Low("snapshot app"), "schema ok", "snap")}}

\* At the quota, with a gap the closer would fill.
Quads == {Plan(<<a, Low("t2"), Low("t3"), Low("t4")>>, {}, {}) :
            a \in {High("t1"), Needs(High("t1"), "snapshot", "snap")}}

StandardRevisions ==
  {Plan(<<a, Low("t2"), c>>, {<<"t1", "t2">>}, S) :
     a \in {High("t1"), Low("t1"), [Low("t1") EXCEPT !.flaw = "shaky"]},
     c \in Thirds, S \in {{}, {<<"t2", "t3">>}}}

(***************************************************************************)
(* Plans for an engine with a pack                                         *)
(***************************************************************************)

\* Every list of these tasks, in a group or not, for these sets of edges.
Arranged(S, edges) ==
  {Plan(l, E, {}) : l \in SetToSeqs(S), E \in edges}
  \cup {Plan(l, {}, {}) : l \in SetToSeqs({In("g", t) : t \in S})}

\* One task per action, and a list of them in this order.
Doings(actions) == {Do("t" \o ToString(i), actions[i]) : i \in DOMAIN actions}
InOrder(actions) ==
  Plan([i \in DOMAIN actions |-> Do("t" \o ToString(i), actions[i])], {}, {})

\* These actions in order, and without one of them.
AndWithoutOne(actions) ==
  {InOrder(actions)} \cup {InOrder(SelectSeq(actions, LAMBDA a : a # b)) : b \in Range(actions)}

T12 == {<<"t1", "t2">>}
T21 == {<<"t2", "t1">>}

SecopsPlans ==
  Arranged(Doings(<<"drain", "isolate">>), {{}, T12, T21})
  \cup Arranged(Doings(<<"capture", "terminate">>), {{}, T12, T21})
  \cup Arranged({On(Do("t1", "sts:AssumeRole"), "arn:aws:iam::*"), Do("t2", "approve")}, {{}})
  \cup {Plan(<<On(Do("t1", "sts:AssumeRole"), b)>>, {}, {}) : b \in {"*", "role/ci"}}
  \cup {Plan(<<a, Needs(Low("t2"), "snapshot", "snap")>>, {}, {}) :
          a \in {Do("t1", "stop"), Do("t1", "capture")}}

FinopsPlans ==
  AndWithoutOne(<<"delete", "snapshot", "notify", "wait">>)
  \cup {Plan(<<On(Do("t1", "provision"), a), On(Do("t2", "scale_up"), b)>> \o last, {}, {}) :
          a, b \in {"60", "90", "gpu"}, last \in {<<>>, <<Do("t3", "budget_override")>>}}
  \cup {Plan(<<Do("t1", "terminate"), Do("t2", "notify_owner"),
               Needs(Do("t3", "wait"), "snapshot", "snap")>>, {}, {})}

DataPlans ==
  AndWithoutOne(<<"drop_table", "verify_backup", "create_backup">>)
  \cup AndWithoutOne(<<"dual_write", "define_fallback", "live_migrate", "open_window">>)

SupplyPlans ==
  AndWithoutOne(<<"add_dependency", "install">>)
  \cup {Plan(<<Do("t1", "edit_manifest"), On(Do("t2", "edit"), f)>>, {}, {}) :
          f \in {"go.sum", "app"}}
  \cup AndWithoutOne(<<"bump_major", "run_migration", "lint">>)
  \cup AndWithoutOne(<<"deploy", "sign", "sbom">>)

(***************************************************************************)
(* The instance                                                            *)
(***************************************************************************)

DemoPlans == {Decomposed(s) : s \in Scenarios} \cup {Revised(s) : s \in Scenarios}

MCDrafts ==
  [none |-> Pairs \cup Groups \cup Triples \cup Circles \cup Gapped \cup Quads \cup DemoPlans, secops |-> SecopsPlans,
   finops |-> FinopsPlans, data_eng |-> DataPlans, supply_chain |-> SupplyPlans]
MCRevisions ==
  [none |-> StandardRevisions, secops |-> {InOrder(<<"drain", "isolate">>)},
   finops |-> {InOrder(<<"snapshot", "notify", "wait", "delete">>)},
   data_eng |-> {InOrder(<<"drop_table", "create_backup", "verify_backup">>)},
   supply_chain |-> {InOrder(<<"deploy", "sign", "sbom">>)}]

AllTasks ==
  UNION {Steps(p) : p \in UNION {MCDrafts[pk] \cup MCRevisions[pk] : pk \in DOMAIN MCDrafts}}
MCTasks == {t.id : t \in AllTasks} \cup {"snap", "book"}
MCFacts ==
  MCTasks \cup {"snapshot"} \cup ({t.what : t \in AllTasks} \ {None})
    \cup UNION {{c.fact, c.by} \ {None} : c \in UNION {t.pre : t \in AllTasks}}

MCEnvFacts == {"env"} \cup {"env:" \o t.target : t \in AllTasks}

MCTemplates ==
  [f \in MCFacts |-> [id \in MCTasks |->
     CASE f = "outage" -> Do("book", "book")
       [] f = "snapshot" \/ id = "snapshot app" -> Snap
       [] OTHER -> NoStep]]

Targets == {t.target : t \in AllTasks}
MCCost == [f \in Targets |-> CASE f = "60" -> 60 [] f = "90" -> 90 [] OTHER -> 0]

MCRules ==
  <<[match |-> [env |-> {"prod"}, git_branch |-> {"main", "release"}], posture |-> "strict"],
    [match |-> [env |-> {"", "sandbox"}], posture |-> "balanced"]>>
MCContexts ==
  {[env |-> "prod", git_branch |-> "main"], [env |-> "prod"], [git_branch |-> "main"]}

(***************************************************************************)
(* What these plans show of the operators                                  *)
(***************************************************************************)
Judged == {<<p, pk>> : p \in DemoPlans, pk \in {None}}
          \cup UNION {{<<p, pk>> : p \in MCDrafts[pk]} : pk \in Packs}

\* Every finding is in the catalogue of reason codes.
ASSUME CodesAreCatalogued ==
  \A j \in Judged : \A f \in GateFindings(j[1], j[2]) \cup CheckFindings(j[1], j[2], Verdicts) :
    f.code \in ReasonCode

\* demo/roles.py: under the strict posture of the corpus, the first revision of every
\* scenario is sent back and the second one approved.
ASSUME DemoConverges ==
  \A s \in Scenarios : /\ ~MeetsThreshold(DemoFindings(s, 1), "strict")
                       /\ MeetsThreshold(DemoFindings(s, 2), "strict")

\* cli/check.py, cli/critique.py: what an engine's gates let through, these commands
\* let through too, be they told of the pack or left to the built-in policies; and so
\* it stays when the policies of a directory cannot be evaluated, which "policy test"
\* takes for a failure.  A plan "domains test" accepts is stopped by the quota only.
ASSUME CheckFollowsTheEngine ==
  \A j \in Judged :
    LET p == j[1]  pk == j[2]
    IN /\ Blockers(p, pk) = {} =>
            /\ CritiquePasses(p)
            /\ \A d \in {pk, None} : CheckPasses(p, d, NoDirectory, "high")
            /\ CheckPasses(p, pk, {"unevaluated", "raised"}, "high")
       /\ DomainsTestPasses(p, pk) =>
            \A f \in Blockers(p, pk) : f.code = "blast_radius_quota_breach"
       /\ PolicyTestPasses({"holds"}) /\ ~PolicyTestPasses({"holds", "unevaluated"})

=============================================================================
