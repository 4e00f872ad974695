------------------------------- MODULE Service -------------------------------
(***************************************************************************)
(* How a planning request gets its roles and its answers: the provider     *)
(* config file with the programs that rewrite it, the surfaces that build  *)
(* an engine from it, and the calls of a role with their bounded retries.  *)
(* What the engine then decides is PlanLoop's, and what it stores of it is *)
(* EscalationDesk's subject.                                               *)
(*                                                                         *)
(* Two containers share the config file: each binds both roles to its own  *)
(* environment when it starts (bootstrap_config) and then serves; both may *)
(* start at once.  A save truncates the file before it writes it, and an   *)
(* empty file is a valid, empty registry.  A provider is its name and the  *)
(* model it serves; the model server is external.                          *)
(***************************************************************************)
EXTENDS Naturals, FiniteSets

CONSTANTS
  Names,       \* provider names
  Local,       \* the name bootstrap_config binds
  Models,
  Editors,     \* shells in which somebody runs "providers add" or "rm"
  Workers,     \* requests that may be in progress at once
  MaxRetries,
  MaxEdits     \* bound: edits of the config file, starts included

Roles == {"planner", "critic"}
Servers == {"http", "mcp"}
Surfaces == Servers \cup {"cli", "field", "guardrail"}
None == "none"
NoProvider == <<None, None>>

ASSUME ServiceAssumption ==
  /\ Local \in Names /\ None \notin Names \cup Models
  /\ MaxRetries \in Nat /\ MaxEdits \in Nat

\* What the guardrail decorator falls back on; it answers with an empty plan.
FakeProvider == <<"fake", "fake">>

VARIABLES
  file,     \* the registry the config file holds
  editor,   \* editor[e]: a load, change and save of the file in progress
  up,       \* the servers that serve
  cache,    \* cache[s]: what a server keeps: a registry and the planner
  job,      \* job[w]: the request in progress
  offered,  \* history: the pair of providers each content of the file gave the roles
  edits     \* number of edits begun

vars == <<file, editor, up, cache, job, offered, edits>>

(***************************************************************************)
(* The registry                                                            *)
(***************************************************************************)

Registry == [roles : [Roles -> Names \cup {None}], specs : [Names -> Models \cup {None}]]
EmptyRegistry == [roles |-> [r \in Roles |-> None], specs |-> [n \in Names |-> None]]
NoRegistry == [roles |-> None]

Add(reg, n, m, bound) ==
  [roles |-> [r \in Roles |-> IF r \in bound THEN n ELSE reg.roles[r]],
   specs |-> [reg.specs EXCEPT ![n] = m]]

\* Variant: the roles keep the name.
RemoveSpec(reg, n) == [reg EXCEPT !.specs[n] = None]

Remove(reg, n) ==
  [roles |-> [r \in Roles |-> IF reg.roles[r] = n THEN None ELSE reg.roles[r]],
   specs |-> [reg.specs EXCEPT ![n] = None]]

Defined(reg) == {n \in Names : reg.specs[n] # None}

\* get_provider; None is its PlanningError, which an unknown transport raises too.
Provider(reg, r) ==
  LET n == reg.roles[r] IN IF n \in Defined(reg) THEN <<n, reg.specs[n]>> ELSE NoProvider

Complete(reg) == \A r \in Roles : Provider(reg, r) # NoProvider
Offer(reg) == <<Provider(reg, "planner"), Provider(reg, "critic")>>

(***************************************************************************)
(* Edits of the file.  A server edits it once, before it serves.           *)
(***************************************************************************)

NoEdit == [pc |-> "idle", reg |-> EmptyRegistry]
NoCache == [reg |-> NoRegistry, planner |-> NoProvider]

Load(e) ==
  /\ editor[e].pc = "idle" /\ e \notin up
  /\ edits < MaxEdits /\ edits' = edits + 1
  /\ editor' = [editor EXCEPT ![e] = [pc |-> "loaded", reg |-> file]]
  /\ UNCHANGED <<file, up, cache, job, offered>>

\* add and remove; a name that is not there is not removed, and nothing is saved.
Change(e, reg) ==
  IF e \in Servers THEN {Add(reg, Local, m, Roles) : m \in Models}
  ELSE {Add(reg, n, m, bound) : n \in Names, m \in Models, bound \in {{}, {"planner"}, {"critic"}}}
       \cup {Remove(reg, n) : n \in Defined(reg)}

\* save opens the file for writing: what it held is gone.
Truncate(e) ==
  /\ editor[e].pc = "loaded"
  /\ \E reg \in Change(e, editor[e].reg) :
       editor' = [editor EXCEPT ![e] = [pc |-> "saving", reg |-> reg]]
  /\ file' = EmptyRegistry
  /\ UNCHANGED <<up, cache, job, offered, edits>>

\* The text is written; a server goes on to serve, with nothing cached.
Save(e) ==
  /\ editor[e].pc = "saving"
  /\ file' = editor[e].reg
  /\ offered' = offered \cup {Offer(editor[e].reg)}
  /\ editor' = [editor EXCEPT ![e] = NoEdit]
  /\ up' = up \cup ({e} \cap Servers)
  /\ UNCHANGED <<cache, job, edits>>

\* The program stops, or the disk is full: the file stays as it is.
GiveUp(e) ==
  /\ editor[e].pc # "idle"
  /\ editor' = [editor EXCEPT ![e] = NoEdit]
  /\ UNCHANGED <<file, up, cache, job, offered, edits>>

(***************************************************************************)
(* A request: the roles are built, the loop calls them, the answer is sent *)
(***************************************************************************)

\* role is the role being called; tries counts its attempts.  made and last are
\* history: the calls the provider had for this answer, and how it ended.
NoJob == [pc |-> "idle", surface |-> None, reg |-> NoRegistry, planner |-> NoProvider,
          critic |-> NoProvider, role |-> None, tries |-> 0, made |-> 0, last |-> None]

Idle(w) == job[w].pc = "idle"

\* With a result, or with an error; the surfaces word it differently.
Answer(w) == job' = [job EXCEPT ![w] = NoJob]

Starts(w, s) ==
  /\ Idle(w)
  /\ job' = [job EXCEPT ![w] = [NoJob EXCEPT !.pc = "load", !.surface = s]]
  /\ UNCHANGED <<file, editor, up, cache, offered, edits>>

\* POST /plan.  HTTP takes one request at a time: its handlers run on the event
\* loop and never yield.
AskHTTP(w) ==
  /\ "http" \in up
  /\ \A v \in Workers : job[v].surface # "http"
  /\ Starts(w, "http")

\* The tool "plan".  The threads of the MCP server run together.
AskMCP(w) == "mcp" \in up /\ Starts(w, "mcp")

AskCLI(w) == Starts(w, "cli")

\* The dimension core-api of a sweep, of one goal: each goal has roles of its own,
\* all from the registry the sweep has read.
AskField(w) == Starts(w, "field")

\* A call of a decorated function with no roles given.
AskGuardrail(w) == Starts(w, "guardrail")

Ask(w) == AskHTTP(w) \/ AskMCP(w) \/ AskCLI(w) \/ AskField(w) \/ AskGuardrail(w)

\* Variant: HTTP reads the file for each request, as MCP does.
LoadedFresh(s) == file

\* HTTP keeps the first registry it has read; the others read the file.
Loaded(s) == IF s = "http" /\ cache[s].reg # NoRegistry THEN cache[s].reg ELSE file

ReadConfig(w) ==
  LET s == job[w].surface
  IN /\ job[w].pc = "load"
     /\ job' = [job EXCEPT ![w].pc = "planner", ![w].reg = Loaded(s)]
     /\ cache' = IF s = "http" THEN [cache EXCEPT ![s].reg = Loaded(s)] ELSE cache
     /\ UNCHANGED <<file, editor, up, offered, edits>>

\* The provider a new planner gets.
PlannerProvider(s, reg) ==
  IF s = "guardrail" /\ Provider(reg, "planner") = NoProvider THEN FakeProvider
  ELSE Provider(reg, "planner")

\* What a surface needs of the registry before it has a planner: HTTP the planner,
\* the others both roles.  A planner a server keeps needs nothing, and neither
\* does the guardrail.
CanPlan(s, reg) ==
  \/ s \in Servers /\ cache[s].planner # NoProvider
  \/ s = "guardrail"
  \/ IF s = "http" THEN Provider(reg, "planner") # NoProvider ELSE Complete(reg)

\* Variant: a request waits for a registry with both roles.
BindPlannerWaits(w) ==
  LET s == job[w].surface  reg == job[w].reg
  IN /\ job[w].pc = "planner"
     /\ IF ~CanPlan(s, reg) THEN job' = [job EXCEPT ![w].pc = "load"]
        ELSE IF s \in Servers /\ cache[s].planner # NoProvider
             THEN job' = [job EXCEPT ![w].pc = "critic"]
             ELSE job' = [job EXCEPT ![w].pc = "keep", ![w].planner = PlannerProvider(s, reg)]
     /\ UNCHANGED <<file, editor, up, cache, offered, edits>>

\* The planner: the one the server keeps, or a new one.  Two requests of the MCP
\* server may both find none.
BindPlanner(w) ==
  LET s == job[w].surface  reg == job[w].reg
  IN /\ job[w].pc = "planner"
     /\ IF ~CanPlan(s, reg) THEN Answer(w)
        ELSE IF s \in Servers /\ cache[s].planner # NoProvider
             THEN job' = [job EXCEPT ![w].pc = "critic"]
             ELSE job' = [job EXCEPT ![w].pc = "keep", ![w].planner = PlannerProvider(s, reg)]
     /\ UNCHANGED <<file, editor, up, cache, offered, edits>>

KeepPlanner(w) ==
  LET s == job[w].surface
  IN /\ job[w].pc = "keep"
     /\ job' = [job EXCEPT ![w].pc = "critic"]
     /\ cache' = IF s \in Servers THEN [cache EXCEPT ![s].planner = job[w].planner] ELSE cache
     /\ UNCHANGED <<file, editor, up, offered, edits>>

\* The critic is built for each goal; MCP builds a planner beside it and drops it,
\* and the guardrail's critic asks no model.
CanJudge(s, reg) ==
  \/ s = "guardrail"
  \/ IF s = "http" THEN Provider(reg, "critic") # NoProvider ELSE Complete(reg)

BindCritic(w) ==
  LET s == job[w].surface  reg == job[w].reg
  IN /\ job[w].pc = "critic"
     /\ IF CanJudge(s, reg)
        THEN job' = [job EXCEPT
               ![w].pc = "call", ![w].role = "planner", ![w].reg = NoRegistry,
               ![w].planner = IF s \in Servers THEN cache[s].planner ELSE @,
               ![w].critic = IF s = "guardrail" THEN NoProvider ELSE Provider(reg, "critic")]
        ELSE Answer(w)
     /\ UNCHANGED <<file, editor, up, cache, offered, edits>>

(***************************************************************************)
(* A role's answer: StructuredEnforcer.complete.  A call of the provider   *)
(* ends with a valid answer, with an error of the provider (time limit,    *)
(* HTTP status, malformed or cut-off answer), with text that is no JSON or *)
(* not of the schema, or with an exception the transport does not map (an  *)
(* answer of another shape).                                               *)
(***************************************************************************)

Endings == {"valid", "refused", "content", "odd"}

\* The logging wrapper of the field test turns any error into a RuntimeError,
\* which is not retried.
Retried(s, ending) == ending = "content" \/ (ending = "refused" /\ s # "field")

\* Variant: the attempts are counted without those the provider refused.
CountedContent(w, ending) == IF ending = "refused" THEN job[w].tries ELSE job[w].tries + 1

Counted(w, ending) == job[w].tries + 1

\* range(max_retries + 1)
Exhausted(tries) == tries > MaxRetries

CallProvider(w) ==
  /\ job[w].pc = "call"
  /\ \E ending \in IF job[w].planner = FakeProvider THEN {"valid"} ELSE Endings :
       LET tries == Counted(w, ending)
           again == Retried(job[w].surface, ending) /\ ~Exhausted(tries)
       IN job' = [job EXCEPT ![w].tries = tries, ![w].made = @ + 1,
                             ![w].last = IF again THEN None ELSE ending,
                             ![w].pc = IF again THEN "call"
                                       ELSE IF ending = "valid" THEN "returned" ELSE "failed"]
  /\ UNCHANGED <<file, editor, up, cache, offered, edits>>

Calls(w, r) ==
  job' = [job EXCEPT ![w].pc = "call", ![w].role = r,
                     ![w].tries = 0, ![w].made = 0, ![w].last = None]

\* The loop fails closed when the planner does: a PlanningError ends the run.
PlannerFails(w) ==
  /\ job[w].pc = "failed" /\ job[w].role = "planner"
  /\ Answer(w)
  /\ UNCHANGED <<file, editor, up, cache, offered, edits>>

\* A draft is audited, or judged without the critic; a critic that fails is taken
\* for one with no findings.  One draft stands for all: PlanLoop has the revisions.
Proceeds(w) ==
  /\ \/ job[w].pc = "returned"
     \/ job[w].pc = "failed" /\ job[w].role = "critic"
  /\ \/ job[w].role = "planner" /\ job[w].surface # "guardrail" /\ Calls(w, "critic")
     \/ Answer(w)
  /\ UNCHANGED <<file, editor, up, cache, offered, edits>>

\* A server stops; its requests get no answer.
Crash(s) ==
  /\ s \in up
  /\ up' = up \ {s}
  /\ cache' = [cache EXCEPT ![s] = NoCache]
  /\ job' = [w \in Workers |-> IF job[w].surface = s THEN NoJob ELSE job[w]]
  /\ UNCHANGED <<file, editor, offered, edits>>

-----------------------------------------------------------------------------

\* The file is absent, or binds both roles.
Init ==
  /\ file \in {EmptyRegistry} \cup {Add(EmptyRegistry, n, m, Roles) : n \in Names, m \in Models}
  /\ editor = [e \in Editors \cup Servers |-> NoEdit]
  /\ up = {}
  /\ cache = [s \in Servers |-> NoCache]
  /\ job = [w \in Workers |-> NoJob]
  /\ offered = {Offer(file)}
  /\ edits = 0

Step(w) ==
  \/ ReadConfig(w) \/ BindPlanner(w) \/ KeepPlanner(w) \/ BindCritic(w)
  \/ CallProvider(w) \/ PlannerFails(w) \/ Proceeds(w)

Next ==
  \/ \E e \in Editors \cup Servers : Load(e) \/ Truncate(e) \/ Save(e) \/ GiveUp(e)
  \/ \E w \in Workers : Ask(w) \/ Step(w)
  \/ \E s \in Servers : Crash(s)

\* A request in progress goes on: every call of a provider has a time limit.
Fairness == \A w \in Workers : WF_vars(Step(w))

Spec == Init /\ [][Next]_vars /\ Fairness

-----------------------------------------------------------------------------
(***************************************************************************)
(* Properties                                                              *)
(***************************************************************************)

\* llm/registry.py: a role that is bound names a provider that is defined, in the
\* file and in every copy of it, whoever saves over whom and wherever a save stops.
RolesResolve ==
  \A reg \in {file} \cup {editor[e].reg : e \in DOMAIN editor}
             \cup ({cache[s].reg : s \in Servers} \ {NoRegistry}) :
    \A r \in Roles : reg.roles[r] # None => reg.roles[r] \in Defined(reg)

\* server/http.py: the planner and the critic that answer an HTTP request, or a
\* command of the CLI, come from one content of the config file, although the
\* planner is kept and the critic is built for each goal.
OneConfiguration ==
  \A w \in Workers :
    job[w].pc \in {"call", "returned", "failed"} /\ job[w].surface \notin {"mcp", "guardrail"}
      => <<job[w].planner, job[w].critic>> \in offered

\* llm/structured.py: a role gives up on its provider only after MaxRetries + 1
\* calls or an error that is not retried, and never calls it more often; each
\* answer of a role has this budget to itself.
RetriesAreBounded ==
  \A w \in Workers :
    /\ job[w].made <= MaxRetries + 1
    /\ job[w].pc = "failed" =>
         job[w].made = MaxRetries + 1 \/ ~Retried(job[w].surface, job[w].last)

\* Every request gets its answer, whatever the provider does, unless its server
\* stops.
EveryRequestIsAnswered == \A w \in Workers : job[w].pc # "idle" ~> Idle(w)

=============================================================================
