---------------------------- MODULE Orchestrator -----------------------------
(***************************************************************************)
(* orchestrator.Engine: BuildDAG sorts the agents of an orchestrator into  *)
(* layers (Kahn's algorithm, one layer a step), Execute runs the layers in *)
(* order, the agents of a layer in goroutines of their own, hands each the *)
(* outputs of its dependencies and has the orchestrator's model synthesise *)
(* an answer.  The interactive chat executes one input after another.      *)
(*                                                                         *)
(* Texts are abstracted to whose output they carry, costs to whole units.  *)
(* The order within a layer is that of a map iteration: a layer is a set.  *)
(***************************************************************************)
EXTENDS Integers, FiniteSets, SequencesExt

CONSTANTS
  Names,          \* the names that agents and dependencies may have
  Orchestrators,  \* the lists of agents an orchestrator may be configured with
  MaxCost,        \* bound: the most one agent, its tools, or the synthesis, costs
  MaxInputs       \* bound: user inputs in one chat

Agent == [Name : Names, DependsOn : Seq(Names)]

ASSUME OrchestratorAssumption ==
  /\ IsFiniteSet(Names)
  /\ \A agents \in Orchestrators : agents \in Seq(Agent)
  /\ MaxCost \in Nat /\ MaxInputs \in Nat

VARIABLES
  agents,      \* cfg.Orchestrator.Agents
  phase,       \* where New, Execute and the chat are
  inDegree,    \* topoSort's map: the agents not in a layer yet
  Layers,      \* dag.Layers
  layerIdx,    \* the layer being executed
  agent,       \* the goroutine of each agent: "todo", "running" or "ended"
  outputs,     \* the agents whose output Execute passes on
  failed,      \* the agents whose result is an error
  given,       \* whose outputs the input of each agent was built from
  cost,        \* what each agent's result says it cost
  TotalCost,   \* of the last result, or -1
  inputs,      \* user inputs so far
  spent,       \* history: what the execution has really cost
  unreported   \* history: what of it no result tells

dagVars == <<agents, inDegree, Layers>>
runVars == <<agent, outputs, failed, given, cost, spent, unreported>>
vars == <<phase, dagVars, layerIdx, runVars, TotalCost, inputs>>

\* dag.Nodes: its keys, and the DependsOn of a name.
Nodes == { agents[i].Name : i \in DOMAIN agents }
DependsOn(n) == agents[CHOOSE i \in DOMAIN agents : agents[i].Name = n].DependsOn
Deps(n) == { DependsOn(n)[i] : i \in DOMAIN DependsOn(n) }

Phases == {"index", "sort", "invalid", "cycle", "idle", "layer", "synthesis"}

TypeOK ==
  /\ agents \in Seq(Agent)
  /\ phase \in Phases
  /\ DOMAIN inDegree \subseteq Names /\ \A n \in DOMAIN inDegree : inDegree[n] \in Nat
  /\ Layers \in Seq(SUBSET Names)
  /\ layerIdx \in Nat
  /\ agent \in [Names -> {"todo", "running", "ended"}]
  /\ outputs \subseteq Names /\ failed \subseteq Names
  /\ given \in [Names -> SUBSET Names]
  /\ cost \in [Names -> Nat]
  /\ TotalCost \in Nat \cup {-1} /\ inputs \in Nat
  /\ spent \in Nat /\ unreported \in Nat

FreshRun ==
  /\ agent' = [n \in Names |-> "todo"]
  /\ outputs' = {} /\ failed' = {}
  /\ given' = [n \in Names |-> {}] /\ cost' = [n \in Names |-> 0]
  /\ spent' = 0 /\ unreported' = 0

Init ==
  /\ agents \in Orchestrators
  /\ phase = "index"
  /\ inDegree = << >> /\ Layers = << >> /\ layerIdx = 0
  /\ agent = [n \in Names |-> "todo"] /\ outputs = {} /\ failed = {}
  /\ given = [n \in Names |-> {}] /\ cost = [n \in Names |-> 0]
  /\ TotalCost = -1 /\ inputs = 0
  /\ spent = 0 /\ unreported = 0

-----------------------------------------------------------------------------
(* BuildDAG and topoSort.                                                  *)

Unique == \A i, j \in DOMAIN agents : agents[i].Name = agents[j].Name => i = j
Known == \A n \in Nodes : Deps(n) \subseteq Nodes

InDegree(n) == Len(DependsOn(n))

IndexNodes ==
  /\ phase = "index"
  /\ IF Unique /\ Known
       THEN /\ phase' = "sort"
            /\ inDegree' = [n \in Nodes |-> InDegree(n)]
       ELSE phase' = "invalid" /\ UNCHANGED inDegree
  /\ UNCHANGED <<agents, Layers, layerIdx, runVars, TotalCost, inputs>>

\* How often a layer's agents appear among the dependencies of n.
Occurrences(n, layer) ==
  Cardinality({ i \in DOMAIN DependsOn(n) : DependsOn(n)[i] \in layer })

\* Slip: a dependency listed twice is counted down once.
DecrementOnce(n, layer) == inDegree[n] - Cardinality(Deps(n) \cap layer)

Decrement(n, layer) == inDegree[n] - Occurrences(n, layer)

\* Slip: one dependency may still be missing.
NextLayerEarly == { n \in DOMAIN inDegree : inDegree[n] <= 1 }

NextLayer == { n \in DOMAIN inDegree : inDegree[n] = 0 }

PeelLayer ==
  /\ phase = "sort" /\ DOMAIN inDegree # {}
  /\ LET layer == NextLayer
     IN IF layer = {}
          THEN phase' = "cycle" /\ UNCHANGED <<inDegree, Layers>>
          ELSE /\ Layers' = Append(Layers, layer)
               /\ inDegree' = [n \in DOMAIN inDegree \ layer |-> Decrement(n, layer)]
               /\ UNCHANGED phase
  /\ UNCHANGED <<agents, layerIdx, runVars, TotalCost, inputs>>

Sorted ==
  /\ phase = "sort" /\ DOMAIN inDegree = {}
  /\ phase' = "idle"
  /\ UNCHANGED <<dagVars, layerIdx, runVars, TotalCost, inputs>>

-----------------------------------------------------------------------------
(* Execute.                                                                *)

Execute ==
  /\ phase = "idle" /\ inputs < MaxInputs
  /\ phase' = IF Layers = << >> THEN "synthesis" ELSE "layer"
  /\ layerIdx' = 1 /\ inputs' = inputs + 1 /\ TotalCost' = -1
  /\ FreshRun
  /\ UNCHANGED dagVars

\* executeLayer's goroutine: buildAgentInput reads the outputs so far.
StartAgent(n) ==
  /\ phase = "layer" /\ n \in Layers[layerIdx] /\ agent[n] = "todo"
  /\ agent' = [agent EXCEPT ![n] = "running"]
  /\ given' = [given EXCEPT ![n] = Deps(n) \cap outputs]
  /\ UNCHANGED <<phase, dagVars, layerIdx, outputs, failed, cost, spent, unreported,
                 TotalCost, inputs>>

\* Slip: the cost of an agent is not taken over into its result.
FinishAgentFree(n, ok, c, t) ==
  /\ agent[n] = "running"
  /\ agent' = [agent EXCEPT ![n] = "ended"]
  /\ spent' = spent + c + t
  /\ failed' = IF ok THEN failed ELSE failed \cup {n}
  /\ unreported' = IF ok THEN unreported + t ELSE unreported + c + t
  /\ UNCHANGED <<phase, dagVars, layerIdx, outputs, given, cost, TotalCost, inputs>>

\* executeChildAgent returns: a result with the cost of its own session, or an
\* error, which carries none, whatever the agent had spent before it failed.
\* The agents that this one used as its tools have spent t, which no result tells.
FinishAgent(n, ok, c, t) ==
  /\ agent[n] = "running"
  /\ agent' = [agent EXCEPT ![n] = "ended"]
  /\ spent' = spent + c + t
  /\ IF ok THEN /\ cost' = [cost EXCEPT ![n] = c] /\ UNCHANGED failed
                /\ unreported' = unreported + t
           ELSE /\ failed' = failed \cup {n} /\ UNCHANGED cost
                /\ unreported' = unreported + c + t
  /\ UNCHANGED <<phase, dagVars, layerIdx, outputs, given, TotalCost, inputs>>

\* Slip: an agent that fails does not tell the wait group.
LayerEndedInSuccess == \A n \in Layers[layerIdx] : agent[n] = "ended" /\ n \notin failed

\* wg.Wait.
LayerEnded == \A n \in Layers[layerIdx] : agent[n] = "ended"

\* Slip: failed agents pass their output on as well.
PassedOnAll == outputs \cup Layers[layerIdx]

PassedOn == outputs \cup (Layers[layerIdx] \ failed)

EndLayer ==
  /\ phase = "layer" /\ LayerEnded
  /\ outputs' = PassedOn
  /\ layerIdx' = layerIdx + 1
  /\ phase' = IF layerIdx = Len(Layers) THEN "synthesis" ELSE "layer"
  /\ UNCHANGED <<dagVars, agent, failed, given, cost, spent, unreported, TotalCost, inputs>>

\* The synthesis fails, or its cost and those of all results are added up.
Synthesize(ok, c) ==
  /\ phase = "synthesis"
  /\ phase' = "idle"
  /\ spent' = spent + c
  /\ unreported' = IF ok THEN unreported ELSE unreported + c
  /\ TotalCost' = IF ok THEN c + SumFunctionOnSet(cost, Nodes) ELSE -1
  /\ UNCHANGED <<dagVars, layerIdx, agent, outputs, failed, given, cost, inputs>>

-----------------------------------------------------------------------------
Build == IndexNodes \/ PeelLayer \/ Sorted

Run ==
  \/ EndLayer
  \/ \E n \in Names : StartAgent(n)
  \/ \E n \in Names, ok \in BOOLEAN, c, t \in 0..MaxCost : FinishAgent(n, ok, c, t)
  \/ \E ok \in BOOLEAN, c \in 0..MaxCost : Synthesize(ok, c)

Next == Build \/ Execute \/ Run

Spec == Init /\ [][Next]_vars

\* The code is sequential but for the goroutines of a layer, which the
\* scheduler runs; a child's SendMessage returns (AgentRuntime).
FairSpec == Spec /\ WF_vars(Build \/ Run)

-----------------------------------------------------------------------------
(* Properties.                                                             *)

\* Whatever n depends on, over any number of steps: the reference for cycles.
Reach(n) ==
  LET Grow[k \in 0..Cardinality(Nodes)] ==
        IF k = 0 THEN Deps(n) ELSE Grow[k - 1] \cup UNION { Deps(d) : d \in Grow[k - 1] }
  IN Grow[Cardinality(Nodes)]

(***************************************************************************)
(* An orchestrator is rejected as cyclic only if an agent depends on       *)
(* itself over some steps, and accepted only if none does; then its layers *)
(* hold every agent once.  (dag.go BuildDAG, topoSort.)                    *)
(***************************************************************************)
CyclesRejected ==
  /\ phase = "cycle" => \E n \in Nodes : n \in Reach(n)
  /\ phase \in {"idle", "layer", "synthesis"} =>
       /\ \A n \in Nodes : n \notin Reach(n)
       /\ UNION Range(Layers) = Nodes
       /\ \A i, j \in DOMAIN Layers : i # j => Layers[i] \cap Layers[j] = {}

(***************************************************************************)
(* The input of a started agent carries the outputs of exactly those of    *)
(* its dependencies that succeeded, none is missing because it was still   *)
(* running.  (engine.go buildAgentInput, Execute.)                         *)
(***************************************************************************)
OutputsPassedOn ==
  phase \in {"layer", "synthesis"} =>
    \A n \in Nodes : agent[n] # "todo" => given[n] = Deps(n) \ failed

(***************************************************************************)
(* The reported total is, to the unit, what the sessions of the agents     *)
(* that succeeded and the synthesis have cost: nothing is counted twice or *)
(* taken from an earlier input, and all that is missing is what agents     *)
(* that failed and agents used as tools have spent.                        *)
(* (engine.go Execute, executeChildAgent.)                                 *)
(***************************************************************************)
TotalsReported ==
  TotalCost # -1 => TotalCost + unreported = spent

(***************************************************************************)
(* Every input of a valid orchestrator comes back to the prompt with all   *)
(* its agents ended, whichever of them failed.  (engine.go Execute.)       *)
(***************************************************************************)
ExecuteReturns ==
  phase = "layer" ~> phase = "idle" /\ \A n \in Nodes : agent[n] = "ended"

(***************************************************************************)
(* The layers implement the workflow: an agent starts only after all its   *)
(* dependencies have ended.                                                *)
(***************************************************************************)
WF == INSTANCE Workflow WITH
        Tasks <- Names,
        needs <- [n \in Names |-> IF n \in Nodes THEN Deps(n) ELSE {}],
        task <- agent

ImplementsWorkflow == WF!Spec

=============================================================================
