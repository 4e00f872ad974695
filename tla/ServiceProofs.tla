---------------------------- MODULE ServiceProofs ----------------------------
(***************************************************************************)
(* What holds of Service for every set of provider names and models, of    *)
(* shells and of requests in progress at once, and for every number of     *)
(* retries.                                                                *)
(***************************************************************************)
EXTENDS Service, TLAPS

Writers == Editors \cup Servers
Providers == ((Names \cup {None}) \X (Models \cup {None})) \cup {FakeProvider}
Stages == {"idle", "load", "planner", "keep", "critic", "call", "returned", "failed"}

Jobs == [pc : Stages, surface : Surfaces \cup {None}, reg : Registry \cup {NoRegistry},
         planner : Providers, critic : Providers, role : Roles \cup {None},
         tries : Nat, made : Nat, last : Endings \cup {None}]

TypeInv ==
  /\ file \in Registry
  /\ editor \in [Writers -> [pc : {"idle", "loaded", "saving"}, reg : Registry]]
  /\ up \subseteq Servers
  /\ cache \in [Servers -> [reg : Registry \cup {NoRegistry}, planner : Providers]]
  /\ job \in [Workers -> Jobs]
  /\ offered \subseteq Providers \X Providers
  /\ edits \in Nat

\* Every role that is bound names a provider that is defined.
Resolves(reg) == \A r \in Roles : reg.roles[r] # None => reg.roles[r] \in Defined(reg)

ResolvedInv ==
  /\ Resolves(file)
  /\ \A e \in Writers : Resolves(editor[e].reg)
  /\ \A s \in Servers : cache[s].reg \in Registry => Resolves(cache[s].reg)

\* A registry that has a planner is a content the file has had: one that a save left
\* empty has none.
Sourced(reg) == Provider(reg, "planner") # NoProvider => Offer(reg) \in offered

Binding == {"planner", "keep", "critic"}
Answering == {"call", "returned", "failed"}

\* What a request that is not MCP's or the guardrail's knows of its registry.  The
\* planner that HTTP keeps is the one of the registry that HTTP keeps.
JobSourced(j) ==
  /\ j.pc \in Binding => j.reg \in Registry /\ Sourced(j.reg)
  /\ j.pc \in Binding /\ j.surface = "http" => j.reg = cache["http"].reg
  /\ j.pc = "keep" /\ j.surface \notin {"mcp", "guardrail"} =>
       j.planner = Provider(j.reg, "planner") /\ j.planner # NoProvider
  /\ j.pc = "critic" /\ j.surface \notin Servers \cup {"guardrail"} =>
       j.planner = Provider(j.reg, "planner") /\ j.planner # NoProvider
  /\ j.pc = "critic" /\ j.surface = "http" => cache["http"].planner # NoProvider
  /\ j.pc \in Answering /\ j.surface \notin {"mcp", "guardrail"} =>
       <<j.planner, j.critic>> \in offered

SourceInv ==
  /\ Sourced(file)
  /\ cache["http"].reg \in Registry => Sourced(cache["http"].reg)
  /\ cache["http"].planner # NoProvider =>
       /\ cache["http"].reg \in Registry
       /\ cache["http"].planner = Provider(cache["http"].reg, "planner")
  /\ \A w \in Workers : JobSourced(job[w])

\* The calls made are the attempts counted; a role that is still called has some left.
Spent(j) ==
  /\ j.made = j.tries /\ j.tries <= MaxRetries + 1
  /\ j.pc \notin Answering => j.tries = 0
  /\ j.pc = "call" => j.tries <= MaxRetries
  /\ j.pc = "failed" => j.tries = MaxRetries + 1 \/ ~Retried(j.surface, j.last)

BudgetInv == \A w \in Workers : Spent(job[w])

IInv == TypeInv /\ ResolvedInv /\ SourceInv /\ BudgetInv

-----------------------------------------------------------------------------
\* Registries.

LEMMA ProviderOf ==
  ASSUME NEW reg \in Registry, NEW r \in Roles
  PROVE  Provider(reg, r) \in Providers
BY DEF Provider, Providers, Registry, Defined, NoProvider

LEMMA EmptyFacts ==
  /\ EmptyRegistry \in Registry /\ Resolves(EmptyRegistry)
  /\ Provider(EmptyRegistry, "planner") = NoProvider
<1>1. EmptyRegistry \in Registry /\ Resolves(EmptyRegistry)
  BY DEF EmptyRegistry, Registry, Resolves
<1>2. Defined(EmptyRegistry) = {}
  BY DEF Defined, EmptyRegistry
<1> QED
  BY <1>1, <1>2 DEF Provider

LEMMA NoRegistryIsNone == NoRegistry \notin Registry
<1>1. DOMAIN NoRegistry = {"roles"}
  BY DEF NoRegistry
<1>2. \A reg \in Registry : "specs" \in DOMAIN reg
  BY DEF Registry
<1> QED
  BY <1>1, <1>2

LEMMA AddResolves ==
  ASSUME NEW reg \in Registry, Resolves(reg), NEW n \in Names, NEW m \in Models,
         NEW bound \in SUBSET Roles
  PROVE  Add(reg, n, m, bound) \in Registry /\ Resolves(Add(reg, n, m, bound))
<1> DEFINE new == Add(reg, n, m, bound)
<1>1. new \in Registry
  BY DEF Add, Registry
<1>2. /\ \A r \in Roles : new.roles[r] = IF r \in bound THEN n ELSE reg.roles[r]
      /\ \A k \in Names : new.specs[k] = IF k = n THEN m ELSE reg.specs[k]
  BY DEF Add, Registry
<1>3. n \in Defined(new) /\ Defined(reg) \subseteq Defined(new)
  BY <1>2, ServiceAssumption DEF Defined
<1> QED
  BY <1>1, <1>2, <1>3 DEF Resolves

\* To remove a provider is to leave no role bound to it.
LEMMA RemoveResolves ==
  ASSUME NEW reg \in Registry, Resolves(reg), NEW n \in Names
  PROVE  Remove(reg, n) \in Registry /\ Resolves(Remove(reg, n))
<1> DEFINE new == Remove(reg, n)
<1>1. new \in Registry
  BY DEF Remove, Registry
<1>2. /\ \A r \in Roles : new.roles[r] = IF reg.roles[r] = n THEN None ELSE reg.roles[r]
      /\ \A k \in Names : new.specs[k] = IF k = n THEN None ELSE reg.specs[k]
  BY DEF Remove, Registry
<1>3. Defined(new) = Defined(reg) \ {n}
  BY <1>2 DEF Defined
<1> QED
  BY <1>1, <1>2, <1>3 DEF Resolves

LEMMA ChangeResolves ==
  ASSUME NEW reg \in Registry, Resolves(reg), NEW e, NEW new \in Change(e, reg)
  PROVE  new \in Registry /\ Resolves(new)
<1>1. Defined(reg) \subseteq Names
  BY DEF Defined
<1>2. \/ \E n \in Names, m \in Models, bound \in SUBSET Roles : new = Add(reg, n, m, bound)
      \/ \E n \in Names : new = Remove(reg, n)
  BY <1>1, ServiceAssumption DEF Change, Roles
<1> QED
  BY <1>2, AddResolves, RemoveResolves

-----------------------------------------------------------------------------
\* The invariant.

LEMMA InitService == Init => IInv
<1> SUFFICES ASSUME Init PROVE IInv
  OBVIOUS
<1>1. file \in Registry /\ Resolves(file)
  BY EmptyFacts, AddResolves DEF Init
<1>2. NoProvider \in Providers /\ Offer(file) \in Providers \X Providers
  BY <1>1, ProviderOf DEF Offer, Roles, NoProvider, Providers
<1>3. NoJob \in Jobs
  BY <1>2 DEF NoJob, Jobs, Stages
<1>4. TypeInv
  BY <1>1, <1>2, <1>3, EmptyFacts DEF Init, TypeInv, NoEdit, NoCache, Writers
<1>5. ResolvedInv
  BY <1>1, EmptyFacts, NoRegistryIsNone DEF Init, ResolvedInv, NoEdit, NoCache, Writers
<1>6. SourceInv
  BY NoRegistryIsNone DEF Init, SourceInv, Sourced, NoCache, NoJob, JobSourced, Servers,
     Binding, Answering
<1>7. BudgetInv
  BY ServiceAssumption DEF Init, BudgetInv, Spent, NoJob, Answering
<1> QED
  BY <1>4, <1>5, <1>6, <1>7 DEF IInv

\* A step of the file: jobs and caches stay, and more contents may have been offered.
LEMMA FileStep ==
  ASSUME IInv, UNCHANGED <<cache, job>>, up' \subseteq Servers, edits' \in Nat,
         offered \subseteq offered', offered' \subseteq Providers \X Providers,
         file' \in Registry, Resolves(file'),
         Provider(file', "planner") # NoProvider => Offer(file') \in offered',
         editor' \in [Writers -> [pc : {"idle", "loaded", "saving"}, reg : Registry]],
         \A e \in Writers : Resolves(editor'[e].reg)
  PROVE  IInv'
<1>1. TypeInv'
  BY DEF IInv, TypeInv
<1>2. ResolvedInv'
  BY DEF IInv, ResolvedInv
<1>3. ASSUME NEW w \in Workers PROVE JobSourced(job[w])'
  BY DEF IInv, SourceInv, JobSourced, Sourced
<1>4. SourceInv'
  BY <1>3 DEF IInv, SourceInv, Sourced
<1>5. BudgetInv'
  BY DEF IInv, BudgetInv, Spent
<1> QED
  BY <1>1, <1>2, <1>4, <1>5 DEF IInv

LEMMA LoadStep ==
  ASSUME IInv, NEW e \in Writers, Load(e)
  PROVE  IInv'
<1>1. editor' = [editor EXCEPT ![e] = [pc |-> "loaded", reg |-> file]]
  BY DEF Load
<1>2. \A x \in Writers : Resolves(editor'[x].reg)
  BY <1>1 DEF IInv, TypeInv, ResolvedInv
<1>3. editor' \in [Writers -> [pc : {"idle", "loaded", "saving"}, reg : Registry]]
  BY <1>1 DEF IInv, TypeInv
<1>4. Resolves(file) /\ (Provider(file, "planner") # NoProvider => Offer(file) \in offered)
  BY DEF IInv, ResolvedInv, SourceInv, Sourced
<1>5. edits' \in Nat /\ UNCHANGED <<file, up, cache, job, offered>>
  BY DEF Load, IInv, TypeInv
<1> QED
  BY <1>2, <1>3, <1>4, <1>5, FileStep DEF IInv, TypeInv

LEMMA TruncateStep ==
  ASSUME IInv, NEW e \in Writers, Truncate(e)
  PROVE  IInv'
<1>1. PICK reg \in Change(e, editor[e].reg) :
        editor' = [editor EXCEPT ![e] = [pc |-> "saving", reg |-> reg]]
  BY DEF Truncate
<1>2. editor[e].reg \in Registry /\ Resolves(editor[e].reg)
  BY DEF IInv, TypeInv, ResolvedInv
<1>3. reg \in Registry /\ Resolves(reg)
  BY <1>2, ChangeResolves
<1>4. \A x \in Writers : Resolves(editor'[x].reg)
  BY <1>1, <1>3 DEF IInv, TypeInv, ResolvedInv
<1>5. editor' \in [Writers -> [pc : {"idle", "loaded", "saving"}, reg : Registry]]
  BY <1>1, <1>3 DEF IInv, TypeInv
<1>6. file' = EmptyRegistry /\ UNCHANGED <<up, cache, job, offered, edits>>
  BY DEF Truncate
<1> QED
  BY <1>4, <1>5, <1>6, EmptyFacts, FileStep DEF IInv, TypeInv

LEMMA SaveStep ==
  ASSUME IInv, NEW e \in Writers, Save(e)
  PROVE  IInv'
<1>1. /\ editor' = [editor EXCEPT ![e] = NoEdit] /\ file' = editor[e].reg
      /\ offered' = offered \cup {Offer(file')}
      /\ up' \subseteq Servers /\ UNCHANGED <<cache, job, edits>>
  BY DEF Save, IInv, TypeInv
<1>2. file' \in Registry /\ Resolves(file')
  BY <1>1 DEF IInv, TypeInv, ResolvedInv
<1>3. Offer(file') \in Providers \X Providers
  BY <1>2, ProviderOf DEF Offer, Roles
<1>4. \A x \in Writers : Resolves(editor'[x].reg)
  BY <1>1, EmptyFacts DEF IInv, TypeInv, ResolvedInv, NoEdit
<1>5. editor' \in [Writers -> [pc : {"idle", "loaded", "saving"}, reg : Registry]]
  BY <1>1, EmptyFacts DEF IInv, TypeInv, NoEdit
<1> QED
  BY <1>1, <1>2, <1>3, <1>4, <1>5, FileStep DEF IInv, TypeInv

LEMMA GiveUpStep ==
  ASSUME IInv, NEW e \in Writers, GiveUp(e)
  PROVE  IInv'
<1>1. editor' = [editor EXCEPT ![e] = NoEdit] /\ UNCHANGED <<file, up, cache, job, offered, edits>>
  BY DEF GiveUp
<1>2. \A x \in Writers : Resolves(editor'[x].reg)
  BY <1>1, EmptyFacts DEF IInv, TypeInv, ResolvedInv, NoEdit
<1>3. editor' \in [Writers -> [pc : {"idle", "loaded", "saving"}, reg : Registry]]
  BY <1>1, EmptyFacts DEF IInv, TypeInv, NoEdit
<1>4. Resolves(file) /\ (Provider(file, "planner") # NoProvider => Offer(file) \in offered)
  BY DEF IInv, ResolvedInv, SourceInv, Sourced
<1> QED
  BY <1>1, <1>2, <1>3, <1>4, FileStep DEF IInv, TypeInv

\* A step of one request that leaves the caches alone.
LEMMA JobStep ==
  ASSUME IInv, NEW w \in Workers, NEW new \in Jobs, job' = [job EXCEPT ![w] = new],
         UNCHANGED <<file, editor, up, cache, offered, edits>>,
         JobSourced(new), Spent(new)
  PROVE  IInv'
<1>1. \A x \in Workers : job'[x] = IF x = w THEN new ELSE job[x]
  BY DEF IInv, TypeInv
<1>2. TypeInv'
  BY DEF IInv, TypeInv
<1>3. ResolvedInv'
  BY DEF IInv, ResolvedInv
<1>4. ASSUME NEW x \in Workers PROVE JobSourced(job[x])'
  <2>1. JobSourced(job'[x])
    BY <1>1 DEF IInv, SourceInv
  <2> QED
    BY <2>1 DEF JobSourced, Sourced
<1>5. SourceInv'
  BY <1>4 DEF IInv, SourceInv, Sourced
<1>6. BudgetInv'
  BY <1>1 DEF IInv, BudgetInv, Spent
<1> QED
  BY <1>2, <1>3, <1>5, <1>6 DEF IInv

LEMMA NoJobFacts ==
  /\ NoJob \in Jobs /\ NoJob.pc = "idle" /\ JobSourced(NoJob) /\ Spent(NoJob)
<1>1. NoJob \in Jobs /\ NoJob.pc = "idle" /\ NoJob.made = 0 /\ NoJob.tries = 0
  BY DEF NoJob, Jobs, Stages, Providers, NoProvider
<1> QED
  BY <1>1, ServiceAssumption DEF JobSourced, Spent, Binding, Answering

\* A request that is over, with a result or without one.
LEMMA AnswerStep ==
  ASSUME IInv, NEW w \in Workers, Answer(w),
         UNCHANGED <<file, editor, up, cache, offered, edits>>
  PROVE  IInv'
BY NoJobFacts, JobStep DEF Answer

LEMMA AskStep ==
  ASSUME IInv, NEW w \in Workers, Ask(w)
  PROVE  IInv'
<1>1. PICK s \in Surfaces : Starts(w, s)
  BY DEF Ask, AskHTTP, AskMCP, AskCLI, AskField, AskGuardrail, Surfaces, Servers
<1> DEFINE new == [NoJob EXCEPT !.pc = "load", !.surface = s]
<1>2. /\ new \in Jobs /\ new.pc = "load" /\ new.tries = 0 /\ new.made = 0
  BY NoJobFacts DEF Jobs, Stages, NoJob
<1>3. job' = [job EXCEPT ![w] = new] /\ UNCHANGED <<file, editor, up, cache, offered, edits>>
  BY <1>1 DEF Starts
<1> HIDE DEF new
<1>4. JobSourced(new) /\ Spent(new)
  BY <1>2, ServiceAssumption DEF JobSourced, Spent, Binding, Answering
<1> QED
  BY <1>2, <1>3, <1>4, JobStep

\* A step of one request that keeps something in the cache of its server: a registry
\* for HTTP where there is none, or a planner.
LEMMA CacheStep ==
  ASSUME IInv, NEW w \in Workers, NEW new \in Jobs, job' = [job EXCEPT ![w] = new],
         UNCHANGED <<file, editor, up, offered, edits>>,
         cache' \in [Servers -> [reg : Registry \cup {NoRegistry}, planner : Providers]],
         \A s \in Servers : cache'[s].reg # cache[s].reg => Resolves(cache'[s].reg),
         cache["http"].reg \in Registry => cache'["http"].reg = cache["http"].reg,
         cache'["http"].reg \in Registry => Sourced(cache'["http"].reg),
         cache["http"].planner # NoProvider => cache'["http"].planner # NoProvider,
         cache'["http"].planner # NoProvider =>
           /\ cache'["http"].reg \in Registry
           /\ cache'["http"].planner = Provider(cache'["http"].reg, "planner"),
         JobSourced(new)', Spent(new)
  PROVE  IInv'
<1>1. \A x \in Workers : job'[x] = IF x = w THEN new ELSE job[x]
  BY DEF IInv, TypeInv
<1>2. TypeInv'
  BY DEF IInv, TypeInv
<1>3. ResolvedInv'
  BY DEF IInv, ResolvedInv
<1>4. ASSUME NEW x \in Workers PROVE JobSourced(job[x])'
  <2>1. CASE x = w
    <3>1. job'[x] = new
      BY <1>1, <2>1
    <3> QED
      BY <3>1 DEF JobSourced, Sourced
  <2>2. CASE x # w
    <3>1. JobSourced(job[x]) /\ job'[x] = job[x]
      BY <1>1, <2>2 DEF IInv, SourceInv
    <3> QED
      BY <3>1 DEF JobSourced, Sourced
  <2> QED
    BY <2>1, <2>2
<1>5. SourceInv'
  BY <1>4 DEF IInv, SourceInv, Sourced
<1>6. BudgetInv'
  BY <1>1 DEF IInv, BudgetInv, Spent
<1> QED
  BY <1>2, <1>3, <1>5, <1>6 DEF IInv

\* HTTP answers every request from the registry it read first.
LEMMA ReadConfigStep ==
  ASSUME IInv, NEW w \in Workers, ReadConfig(w)
  PROVE  IInv'
<1>0. PICK s, reg, new : /\ s = job[w].surface /\ reg = Loaded(s)
                         /\ new = [job[w] EXCEPT !.pc = "planner", !.reg = reg]
  OBVIOUS
<1>1. job[w] \in Jobs /\ job[w].pc = "load" /\ Spent(job[w])
  BY DEF ReadConfig, IInv, TypeInv, BudgetInv
<1>2. cache["http"] \in [reg : Registry \cup {NoRegistry}, planner : Providers]
  BY DEF IInv, TypeInv, Servers
<1>3. reg \in Registry /\ Resolves(reg)
  BY <1>0, <1>2 DEF Loaded, IInv, TypeInv, ResolvedInv, Servers
<1>4. Sourced(reg)
  BY <1>0, <1>2 DEF Loaded, IInv, SourceInv
<1>5. s = "http" /\ cache["http"].reg \in Registry => reg = cache["http"].reg
  BY <1>0, NoRegistryIsNone DEF Loaded
<1>6. /\ new \in Jobs /\ new.pc = "planner" /\ new.reg = reg /\ new.surface = s
      /\ new.tries = job[w].tries /\ new.made = job[w].made
  BY <1>0, <1>1, <1>3 DEF Jobs, Stages
<1>7. job' = [job EXCEPT ![w] = new] /\ UNCHANGED <<file, editor, up, offered, edits>>
  BY <1>0, <1>1 DEF ReadConfig, IInv, TypeInv
<1>8. cache' = IF s = "http" THEN [cache EXCEPT ![s].reg = reg] ELSE cache
  BY <1>0 DEF ReadConfig
<1>9. cache' \in [Servers -> [reg : Registry \cup {NoRegistry}, planner : Providers]]
  BY <1>3, <1>8 DEF IInv, TypeInv
<1>10. /\ \A x \in Servers : cache'[x].planner = cache[x].planner
       /\ \A x \in Servers : cache'[x].reg = IF x = "http" /\ s = "http" THEN reg ELSE cache[x].reg
  BY <1>8 DEF IInv, TypeInv
<1>11. /\ cache'["http"].planner = cache["http"].planner
       /\ cache'["http"].reg = IF s = "http" THEN reg ELSE cache["http"].reg
  BY <1>10 DEF Servers
<1>12. cache'["http"].reg \in Registry => Sourced(cache'["http"].reg)
  BY <1>4, <1>11 DEF IInv, SourceInv
<1>13. cache["http"].reg \in Registry => cache'["http"].reg = cache["http"].reg
  BY <1>5, <1>11
<1>14. cache'["http"].planner # NoProvider =>
         /\ cache'["http"].reg \in Registry
         /\ cache'["http"].planner = Provider(cache'["http"].reg, "planner")
  BY <1>11, <1>13 DEF IInv, SourceInv
<1>15. Spent(new)
  BY <1>1, <1>6 DEF Spent, Answering
<1>16. JobSourced(new)'
  <2>1. new.pc = "planner" /\ new.reg \in Registry /\ Sourced(new.reg)
    BY <1>3, <1>4, <1>6
  <2>2. Provider(new.reg, "planner") # NoProvider => Offer(new.reg) \in offered'
    BY <1>7, <2>1 DEF Sourced
  <2>3. new.surface = "http" => new.reg = cache'["http"].reg
    BY <1>6, <1>11
  <2> QED
    BY <2>1, <2>2, <2>3 DEF JobSourced, Sourced, Binding, Answering
<1> QED
  BY <1>3, <1>6, <1>7, <1>9, <1>10, <1>11, <1>12, <1>13, <1>14, <1>15, <1>16, CacheStep

LEMMA BindPlannerStep ==
  ASSUME IInv, NEW w \in Workers, BindPlanner(w)
  PROVE  IInv'
<1>0. PICK s, reg : s = job[w].surface /\ reg = job[w].reg
  OBVIOUS
<1>1. /\ job[w] \in Jobs /\ job[w].pc = "planner" /\ Spent(job[w]) /\ JobSourced(job[w])
      /\ UNCHANGED <<file, editor, up, cache, offered, edits>>
  BY DEF BindPlanner, IInv, TypeInv, BudgetInv, SourceInv
<1>2. reg \in Registry /\ Sourced(reg) /\ (s = "http" => reg = cache["http"].reg)
  BY <1>0, <1>1 DEF JobSourced, Binding
<1>3. CASE ~CanPlan(s, reg)
  BY <1>0, <1>1, <1>3, AnswerStep DEF BindPlanner
<1>4. CASE CanPlan(s, reg) /\ s \in Servers /\ cache[s].planner # NoProvider
  <2>1. PICK new : new = [job[w] EXCEPT !.pc = "critic"]
    OBVIOUS
  <2>2. /\ new \in Jobs /\ new.pc = "critic" /\ new.reg = reg /\ new.surface = s
        /\ new.tries = job[w].tries /\ new.made = job[w].made
    BY <1>0, <1>1, <2>1 DEF Jobs, Stages
  <2>3. job' = [job EXCEPT ![w] = new]
    BY <1>0, <1>4, <2>1 DEF BindPlanner, IInv, TypeInv
  <2>4. JobSourced(new) /\ Spent(new)
    BY <1>1, <1>2, <1>4, <2>2 DEF JobSourced, Spent, Binding, Answering
  <2> QED
    BY <1>1, <2>2, <2>3, <2>4, JobStep
<1>5. CASE CanPlan(s, reg) /\ ~(s \in Servers /\ cache[s].planner # NoProvider)
  <2>1. PICK new : new = [job[w] EXCEPT !.pc = "keep", !.planner = PlannerProvider(s, reg)]
    OBVIOUS
  <2>2. PlannerProvider(s, reg) \in Providers
    BY <1>2, ProviderOf DEF PlannerProvider, Roles, Providers
  <2>3. /\ new \in Jobs /\ new.pc = "keep" /\ new.reg = reg /\ new.surface = s
        /\ new.tries = job[w].tries /\ new.made = job[w].made
        /\ new.planner = PlannerProvider(s, reg)
    BY <1>0, <1>1, <2>1, <2>2 DEF Jobs, Stages
  <2>4. job' = [job EXCEPT ![w] = new]
    BY <1>0, <1>5, <2>1 DEF BindPlanner, IInv, TypeInv
  <2>5. s \notin {"mcp", "guardrail"} =>
          new.planner = Provider(reg, "planner") /\ new.planner # NoProvider
    BY <1>5, <2>3 DEF CanPlan, PlannerProvider, Complete, Roles, Servers
  <2>6. JobSourced(new) /\ Spent(new)
    BY <1>1, <1>2, <2>3, <2>5 DEF JobSourced, Spent, Binding, Answering
  <2> QED
    BY <1>1, <2>3, <2>4, <2>6, JobStep
<1> QED
  BY <1>3, <1>4, <1>5

\* A planner that HTTP keeps is the one of the registry it keeps.
LEMMA KeepPlannerStep ==
  ASSUME IInv, NEW w \in Workers, KeepPlanner(w)
  PROVE  IInv'
<1>1. PICK s, reg, planner, new :
        /\ s = job[w].surface /\ reg = job[w].reg /\ planner = job[w].planner
        /\ new = [job[w] EXCEPT !.pc = "critic"]
  OBVIOUS
<1>2. /\ job[w] \in Jobs /\ job[w].pc = "keep" /\ Spent(job[w]) /\ JobSourced(job[w])
      /\ UNCHANGED <<file, editor, up, offered, edits>>
  BY DEF KeepPlanner, IInv, TypeInv, BudgetInv, SourceInv
<1>3. /\ reg \in Registry /\ Sourced(reg) /\ (s = "http" => reg = cache["http"].reg)
      /\ s \notin {"mcp", "guardrail"} =>
           planner = Provider(reg, "planner") /\ planner # NoProvider
  BY <1>1, <1>2 DEF JobSourced, Binding
<1>4. /\ new \in Jobs /\ new.pc = "critic" /\ new.reg = reg /\ new.surface = s
      /\ new.tries = job[w].tries /\ new.made = job[w].made /\ new.planner = planner
      /\ planner \in Providers
  BY <1>1, <1>2 DEF Jobs, Stages
<1>5. /\ job' = [job EXCEPT ![w] = new]
      /\ cache' = IF s \in Servers THEN [cache EXCEPT ![s].planner = planner] ELSE cache
  BY <1>1, <1>2 DEF KeepPlanner, IInv, TypeInv
<1>6. cache' \in [Servers -> [reg : Registry \cup {NoRegistry}, planner : Providers]]
  BY <1>4, <1>5 DEF IInv, TypeInv
<1>7. /\ \A x \in Servers : cache'[x].reg = cache[x].reg
      /\ \A x \in Servers : cache'[x].planner = IF x = s THEN planner ELSE cache[x].planner
  BY <1>5 DEF IInv, TypeInv
<1>8. /\ cache'["http"].reg = cache["http"].reg
      /\ cache'["http"].planner = IF s = "http" THEN planner ELSE cache["http"].planner
  BY <1>7 DEF Servers
<1>9. s = "http" => planner = Provider(cache["http"].reg, "planner") /\ planner # NoProvider
                    /\ cache["http"].reg \in Registry
  BY <1>3
<1>10. cache["http"].planner # NoProvider => cache'["http"].planner # NoProvider
  BY <1>8, <1>9
<1>11. cache'["http"].planner # NoProvider =>
         /\ cache'["http"].reg \in Registry
         /\ cache'["http"].planner = Provider(cache'["http"].reg, "planner")
  BY <1>8, <1>9 DEF IInv, SourceInv
<1>12. cache'["http"].reg \in Registry => Sourced(cache'["http"].reg)
  BY <1>8 DEF IInv, SourceInv
<1>13. Spent(new)
  BY <1>2, <1>4 DEF Spent, Answering
<1>14. JobSourced(new)'
  <2>1. Provider(reg, "planner") # NoProvider => Offer(reg) \in offered'
    BY <1>2, <1>3 DEF Sourced
  <2>2. s = "http" => reg = cache'["http"].reg /\ cache'["http"].planner # NoProvider
    BY <1>3, <1>8, <1>9
  <2> QED
    BY <1>3, <1>4, <2>1, <2>2 DEF JobSourced, Sourced, Binding, Answering, Servers
<1> QED
  BY <1>2, <1>4, <1>5, <1>6, <1>7, <1>8, <1>10, <1>11, <1>12, <1>13, <1>14, CacheStep

\* The critic comes from the registry the planner came from.
LEMMA BindCriticStep ==
  ASSUME IInv, NEW w \in Workers, BindCritic(w)
  PROVE  IInv'
<1>0. PICK s, reg : s = job[w].surface /\ reg = job[w].reg
  OBVIOUS
<1>1. /\ job[w] \in Jobs /\ job[w].pc = "critic" /\ Spent(job[w]) /\ JobSourced(job[w])
      /\ UNCHANGED <<file, editor, up, cache, offered, edits>>
  BY DEF BindCritic, IInv, TypeInv, BudgetInv, SourceInv
<1>2. reg \in Registry /\ Sourced(reg) /\ (s = "http" => reg = cache["http"].reg)
  BY <1>0, <1>1 DEF JobSourced, Binding
<1>3. CASE ~CanJudge(s, reg)
  BY <1>0, <1>1, <1>3, AnswerStep DEF BindCritic
<1>4. CASE CanJudge(s, reg)
  <2>1. PICK planner, critic, new :
          /\ planner = IF s \in Servers THEN cache[s].planner ELSE job[w].planner
          /\ critic = IF s = "guardrail" THEN NoProvider ELSE Provider(reg, "critic")
          /\ new = [job[w] EXCEPT !.pc = "call", !.role = "planner", !.reg = NoRegistry,
                                  !.planner = planner, !.critic = critic]
    OBVIOUS
  <2>2. planner \in Providers /\ critic \in Providers
    BY <1>1, <1>2, <2>1, ProviderOf DEF Roles, Providers, NoProvider, IInv, TypeInv, Jobs
  <2>3. /\ new \in Jobs /\ new.pc = "call" /\ new.surface = s
        /\ new.tries = job[w].tries /\ new.made = job[w].made
        /\ new.planner = planner /\ new.critic = critic
    <3>1. new \in Jobs
      <4>1. new = [pc |-> "call", surface |-> job[w].surface, reg |-> NoRegistry,
                   planner |-> planner, critic |-> critic, role |-> "planner",
                   tries |-> job[w].tries, made |-> job[w].made, last |-> job[w].last]
        BY <1>1, <2>1 DEF Jobs
      <4>2. /\ "call" \in Stages /\ "planner" \in Roles
            /\ job[w].surface \in Surfaces \cup {None} /\ job[w].tries \in Nat
            /\ job[w].made \in Nat /\ job[w].last \in Endings \cup {None}
        BY <1>1 DEF Stages, Roles, Jobs
      <4> QED
        BY <2>2, <4>1, <4>2 DEF Jobs
    <3>2. new.surface = s /\ new.tries = job[w].tries /\ new.made = job[w].made
      BY <1>0, <1>1, <2>1 DEF Jobs
    <3>3. new.pc = "call" /\ new.planner = planner /\ new.critic = critic
      BY <1>1, <2>1 DEF Jobs
    <3> QED
      BY <3>1, <3>2, <3>3
  <2>4. job' = [job EXCEPT ![w] = new]
    <3>1. job \in [Workers -> Jobs]
      BY DEF IInv, TypeInv
    <3> QED
      BY <1>0, <1>4, <2>1, <3>1, ZenonT(30) DEF BindCritic
  <2>5. s \notin {"mcp", "guardrail"} =>
          planner = Provider(reg, "planner") /\ planner # NoProvider
    <3>1. CASE s = "http"
      <4>1. cache["http"].planner # NoProvider
        BY <1>0, <1>1, <3>1 DEF JobSourced
      <4> QED
        BY <1>2, <2>1, <3>1, <4>1 DEF IInv, SourceInv, Servers
    <3>2. CASE s \notin Servers \cup {"guardrail"}
      BY <1>0, <1>1, <2>1, <3>2 DEF JobSourced
    <3> QED
      BY <3>1, <3>2 DEF Servers
  <2>6. s \notin {"mcp", "guardrail"} => <<planner, critic>> \in offered
    BY <1>2, <2>1, <2>5 DEF Sourced, Offer
  <2>7. JobSourced(new)
    BY <2>3, <2>6 DEF JobSourced, Binding, Answering
  <2>8. Spent(new)
    BY <1>1, <2>3, ServiceAssumption DEF Spent, Answering
  <2> QED
    BY <1>1, <2>3, <2>4, <2>7, <2>8, JobStep
<1> QED
  BY <1>3, <1>4

\* A call is counted; it is not repeated when it ended well, when its error is not one
\* to retry, or when the attempts are used up.
LEMMA CallProviderStep ==
  ASSUME IInv, NEW w \in Workers, CallProvider(w)
  PROVE  IInv'
<1>1. /\ job[w] \in Jobs /\ job[w].pc = "call" /\ Spent(job[w]) /\ JobSourced(job[w])
      /\ UNCHANGED <<file, editor, up, cache, offered, edits>>
  BY DEF CallProvider, IInv, TypeInv, BudgetInv, SourceInv
<1>2. PICK ending \in Endings :
        LET tries == Counted(w, ending)
            again == Retried(job[w].surface, ending) /\ ~Exhausted(tries)
        IN job' = [job EXCEPT ![w].tries = tries, ![w].made = @ + 1,
                              ![w].last = IF again THEN None ELSE ending,
                              ![w].pc = IF again THEN "call"
                                        ELSE IF ending = "valid" THEN "returned" ELSE "failed"]
  BY DEF CallProvider, Endings
<1> DEFINE again == Retried(job[w].surface, ending) /\ ~Exhausted(job[w].tries + 1)
<1>3. PICK tries, pc, last, new :
        /\ tries = job[w].tries + 1
        /\ pc = IF again THEN "call" ELSE IF ending = "valid" THEN "returned" ELSE "failed"
        /\ last = IF again THEN None ELSE ending
        /\ new = [job[w] EXCEPT !.tries = tries, !.made = tries, !.last = last, !.pc = pc]
  OBVIOUS
<1>4. /\ tries \in Nat /\ job[w].made \in Nat /\ job[w].made = job[w].tries
      /\ tries <= MaxRetries + 1
  BY <1>1, <1>3, ServiceAssumption DEF Jobs, Spent
<1>5. again => Retried(job[w].surface, ending) /\ tries <= MaxRetries
  BY <1>3, <1>4, ServiceAssumption DEF Exhausted
<1>6. pc \in {"call", "returned", "failed"} /\ last \in Endings \cup {None}
  BY <1>3
<1>7. /\ new \in Jobs /\ new.pc = pc /\ new.last = last /\ new.surface = job[w].surface
      /\ new.tries = tries /\ new.made = tries
      /\ new.planner = job[w].planner /\ new.critic = job[w].critic
  <2>1. job[w] \in Jobs /\ tries \in Nat /\ pc \in Stages
    BY <1>1, <1>4, <1>6 DEF Stages
  <2>2. new = [job[w] EXCEPT !.tries = tries, !.made = tries, !.last = last, !.pc = pc]
    BY <1>3
  <2> HIDE DEF again
  <2> QED
    BY <2>1, <2>2, <1>6 DEF Jobs
<1>8. job' = [job EXCEPT ![w] = new]
  BY <1>1, <1>2, <1>3, <1>4 DEF Counted, IInv, TypeInv
<1>9. JobSourced(new)
  BY <1>1, <1>3, <1>7 DEF JobSourced, Binding, Answering
<1>10. pc = "call" => tries <= MaxRetries
  BY <1>3, <1>5
<1>11. pc = "failed" => last = ending /\ (~Retried(job[w].surface, last) \/ Exhausted(tries))
  BY <1>3
<1>12. Exhausted(tries) => tries = MaxRetries + 1
  BY <1>4, ServiceAssumption DEF Exhausted
<1>13. Spent(new)
  BY <1>3, <1>4, <1>7, <1>10, <1>11, <1>12 DEF Spent, Answering
<1> QED
  BY <1>1, <1>7, <1>8, <1>9, <1>13, JobStep

LEMMA PlannerFailsStep ==
  ASSUME IInv, NEW w \in Workers, PlannerFails(w)
  PROVE  IInv'
BY AnswerStep DEF PlannerFails

LEMMA ProceedsStep ==
  ASSUME IInv, NEW w \in Workers, Proceeds(w)
  PROVE  IInv'
<1>1. /\ job[w] \in Jobs /\ job[w].pc \in {"returned", "failed"} /\ JobSourced(job[w])
      /\ UNCHANGED <<file, editor, up, cache, offered, edits>>
  BY DEF Proceeds, IInv, TypeInv, SourceInv
<1>2. CASE Answer(w)
  BY <1>1, <1>2, AnswerStep
<1>3. CASE Calls(w, "critic")
  <2>1. PICK new : new = [job[w] EXCEPT !.pc = "call", !.role = "critic",
                                        !.tries = 0, !.made = 0, !.last = None]
    OBVIOUS
  <2>2. /\ new \in Jobs /\ new.pc = "call" /\ new.surface = job[w].surface
        /\ new.tries = 0 /\ new.made = 0
        /\ new.planner = job[w].planner /\ new.critic = job[w].critic
    BY <1>1, <2>1 DEF Jobs, Stages, Roles
  <2>3. job' = [job EXCEPT ![w] = new]
    BY <1>1, <1>3, <2>1 DEF Calls, IInv, TypeInv
  <2>4. JobSourced(new) /\ Spent(new)
    BY <1>1, <2>2, ServiceAssumption DEF JobSourced, Spent, Binding, Answering
  <2> QED
    BY <1>1, <2>2, <2>3, <2>4, JobStep
<1> QED
  BY <1>2, <1>3 DEF Proceeds

\* A server that stops takes its cache and its requests with it.
LEMMA CrashStep ==
  ASSUME IInv, NEW s \in Servers, Crash(s)
  PROVE  IInv'
<1>1. /\ cache' = [cache EXCEPT ![s] = NoCache] /\ up' \subseteq Servers
      /\ job' = [w \in Workers |-> IF job[w].surface = s THEN NoJob ELSE job[w]]
      /\ UNCHANGED <<file, editor, offered, edits>>
  BY DEF Crash, IInv, TypeInv
<1>2. NoCache \in [reg : Registry \cup {NoRegistry}, planner : Providers]
      /\ NoCache.reg = NoRegistry /\ NoCache.planner = NoProvider
  BY DEF NoCache, Providers, NoProvider
<1>3. \A x \in Servers : cache'[x] = IF x = s THEN NoCache ELSE cache[x]
  BY <1>1 DEF IInv, TypeInv
<1>4. cache'["http"] = IF s = "http" THEN NoCache ELSE cache["http"]
  BY <1>3 DEF Servers
<1>5. \A w \in Workers : job'[w] = IF job[w].surface = s THEN NoJob ELSE job[w]
  BY <1>1
<1>6. TypeInv'
  BY <1>1, <1>2, NoJobFacts DEF IInv, TypeInv
<1>7. ResolvedInv'
  BY <1>1, <1>2, <1>3, NoRegistryIsNone DEF IInv, ResolvedInv
<1>8. ASSUME NEW w \in Workers PROVE JobSourced(job[w])'
  <2>1. CASE job[w].surface = s
    <3>1. job'[w].pc = "idle"
      BY <1>5, <2>1, NoJobFacts
    <3> QED
      BY <3>1 DEF JobSourced, Binding, Answering
  <2>2. CASE job[w].surface # s
    <3>1. job'[w] = job[w] /\ JobSourced(job[w])
      BY <1>5, <2>2 DEF IInv, SourceInv
    <3>2. job[w].surface = "http" => cache'["http"] = cache["http"]
      BY <1>4, <2>2
    <3> QED
      BY <1>1, <3>1, <3>2 DEF JobSourced, Sourced
  <2> QED
    BY <2>1, <2>2
<1>9. SourceInv'
  BY <1>1, <1>2, <1>4, <1>8, NoRegistryIsNone DEF IInv, SourceInv, Sourced
<1>10. ASSUME NEW w \in Workers PROVE Spent(job'[w])
  BY <1>5, NoJobFacts DEF IInv, BudgetInv
<1>11. BudgetInv'
  BY <1>10 DEF BudgetInv, Spent
<1> QED
  BY <1>6, <1>7, <1>9, <1>11 DEF IInv

LEMMA ServiceInductive ==
  ASSUME IInv, [Next]_vars
  PROVE  IInv'
<1>1. ASSUME NEW e \in Writers, Load(e) \/ Truncate(e) \/ Save(e) \/ GiveUp(e) PROVE IInv'
  BY <1>1, LoadStep, TruncateStep, SaveStep, GiveUpStep
<1>2. ASSUME NEW w \in Workers, Ask(w) \/ Step(w) PROVE IInv'
  BY <1>2, AskStep, ReadConfigStep, BindPlannerStep, KeepPlannerStep, BindCriticStep,
     CallProviderStep, PlannerFailsStep, ProceedsStep DEF Step
<1>3. CASE UNCHANGED vars
  BY <1>3 DEF vars, IInv, TypeInv, ResolvedInv, SourceInv, Sourced, JobSourced, BudgetInv, Spent
<1> QED
  BY <1>1, <1>2, <1>3, CrashStep DEF Next, Writers

LEMMA ServiceInvariant == Spec => []IInv
BY InitService, ServiceInductive, PTL DEF Spec

\* Whoever edits the provider file, however many at once, and wherever a save stops: a
\* role that is bound names a provider that is defined.
THEOREM EveryRoleResolves == Spec => []RolesResolve
<1>1. IInv => RolesResolve
  BY NoRegistryIsNone DEF IInv, TypeInv, ResolvedInv, RolesResolve, Resolves, Writers
<1> QED
  BY <1>1, ServiceInvariant, PTL

\* However many requests run together: the planner and the critic of one that is not
\* MCP's come from one content of the provider file.
THEOREM RolesAreOfOneConfiguration == Spec => []OneConfiguration
<1>1. IInv => OneConfiguration
  BY DEF IInv, SourceInv, JobSourced, Answering, OneConfiguration
<1> QED
  BY <1>1, ServiceInvariant, PTL

\* Whatever MaxRetries is, a role calls its provider that many times and once more, and
\* gives up earlier only on an error that is not retried.
THEOREM RetriesStayBounded == Spec => []RetriesAreBounded
<1>1. IInv => RetriesAreBounded
  BY DEF IInv, BudgetInv, Spent, RetriesAreBounded
<1> QED
  BY <1>1, ServiceInvariant, PTL

=============================================================================
