------------------------- MODULE OrchestratorProofs --------------------------
(***************************************************************************)
(* Proofs about Orchestrator, for every list of agents: exactly the cyclic *)
(* graphs are rejected, an agent never starts before its dependencies have *)
(* ended and gets exactly their outputs, and the total adds up.  They rest *)
(* on what topoSort keeps while it peels off layers: the counter of an     *)
(* agent is the number of its dependencies, repetitions included, that are *)
(* in no layer yet.                                                        *)
(*                                                                         *)
(* And about Provider, for answers of any length: a response is what the   *)
(* model said, whatever was retried, and what is sent answers every call.  *)
(* They rest on how far the parser has followed the server.                *)
(***************************************************************************)
EXTENDS Orchestrator, Provider, Sums, SequenceTheorems, TLAPS

-----------------------------------------------------------------------------
(* The inductive invariant.                                                *)

\* The agents of the first k - 1 layers, and of all layers.
Before(k) == { n \in Nodes : \E j \in DOMAIN Layers : j < k /\ n \in Layers[j] }
Placed == { n \in Nodes : \E j \in DOMAIN Layers : n \in Layers[j] }

\* Where n lists a dependency outside S.
Outside(n, S) == { i \in DOMAIN DependsOn(n) : DependsOn(n)[i] \notin S }

\* The types, but for inDegree: they follow from SortInv.
RunTypes ==
  /\ agents \in Seq(Agent)
  /\ phase \in Phases
  /\ Layers \in Seq(SUBSET Names)
  /\ layerIdx \in Nat
  /\ agent \in [Names -> {"todo", "running", "ended"}]
  /\ outputs \subseteq Names /\ failed \subseteq Names
  /\ given \in [Names -> SUBSET Names]
  /\ cost \in [Names -> Nat]
  /\ TotalCost \in Nat \cup {-1} /\ inputs \in Nat
  /\ spent \in Nat /\ unreported \in Nat

AfterSort == {"idle", "layer", "synthesis"}

SortInv ==
  /\ phase = "index" => Layers = << >>
  /\ \A i \in DOMAIN Layers : Layers[i] \subseteq Nodes
  /\ \A i \in DOMAIN Layers : \A n \in Layers[i] : Deps(n) \subseteq Before(i)
  /\ \A i, j \in DOMAIN Layers : i # j => Layers[i] \cap Layers[j] = {}
  /\ phase \notin {"index", "invalid"} => \A n \in Nodes : Deps(n) \subseteq Nodes
  /\ phase \in {"sort", "cycle"} =>
       /\ DOMAIN inDegree = Nodes \ Placed
       /\ \A n \in DOMAIN inDegree : inDegree[n] = Cardinality(Outside(n, Placed))
  /\ phase \notin {"sort", "cycle"} => DOMAIN inDegree = {}
  /\ phase = "cycle" => DOMAIN inDegree # {} /\ NextLayer = {}
  /\ phase \in AfterSort => Placed = Nodes

RunInv ==
  /\ phase # "layer" => \A n \in Names : agent[n] # "running"
  /\ phase = "layer" =>
       /\ layerIdx \in DOMAIN Layers
       /\ \A n \in Before(layerIdx) : agent[n] = "ended"
       /\ \A n \in Names : agent[n] = "running" => n \in Layers[layerIdx]

OutInv ==
  /\ phase = "layer" => outputs = Before(layerIdx) \ failed
  /\ phase \in {"layer", "synthesis"} =>
       \A n \in Nodes : agent[n] # "todo" =>
         /\ given[n] = Deps(n) \ failed
         /\ \A d \in Deps(n) : agent[d] = "ended"

\* What the agents of the run have reported so far.
Reported == SumFunctionOnSet(cost, Nodes)

CostInv ==
  /\ \A n \in Names : agent[n] # "ended" => cost[n] = 0
  /\ phase \in {"layer", "synthesis"} =>
       TotalCost = -1 /\ Reported + unreported = spent
  /\ TotalsReported

IInv == RunTypes /\ SortInv /\ RunInv /\ OutInv /\ CostInv

-----------------------------------------------------------------------------
(* Facts about the operators.                                              *)

(***************************************************************************)
(* What a node depends on is a list of names.                              *)
(***************************************************************************)
LEMMA NodesTypes ==
  ASSUME agents \in Seq(Agent)
  PROVE  /\ Nodes \subseteq Names
         /\ \A n \in Nodes : DependsOn(n) \in Seq(Names) /\ Deps(n) \subseteq Names
<1>1. \A i \in DOMAIN agents : agents[i] \in Agent
  BY ElementOfSeq, LenProperties
<1>2. Nodes \subseteq Names
  BY <1>1 DEF Nodes, Agent
<1>3. ASSUME NEW n \in Nodes PROVE DependsOn(n) \in Seq(Names)
  <2>1. \E i \in DOMAIN agents : agents[i].Name = n
    BY <1>3 DEF Nodes
  <2> QED BY <1>1, <2>1 DEF DependsOn, Agent
<1>4. ASSUME NEW n \in Nodes PROVE Deps(n) \subseteq Names
  <2>1. DependsOn(n) \in Seq(Names)
    BY <1>3
  <2>2. \A i \in DOMAIN DependsOn(n) : DependsOn(n)[i] \in Names
    BY <2>1, ElementOfSeq, LenProperties
  <2> QED BY <2>2 DEF Deps
<1> QED BY <1>2, <1>3, <1>4

(***************************************************************************)
(* The places of a dependency list are finitely many.                      *)
(***************************************************************************)
LEMMA PlacesFinite ==
  ASSUME agents \in Seq(Agent), NEW n \in Nodes
  PROVE  /\ IsFiniteSet(DOMAIN DependsOn(n))
         /\ Cardinality(DOMAIN DependsOn(n)) = Len(DependsOn(n))
<1>1. DependsOn(n) \in Seq(Names)
  BY NodesTypes
<1>2. DOMAIN DependsOn(n) = 1..Len(DependsOn(n)) /\ Len(DependsOn(n)) \in Nat
  BY <1>1, LenProperties
<1>3. \A m \in Nat : IsFiniteSet(1..m) /\ Cardinality(1..m) = m
  <2> TAKE m \in Nat
  <2>1. IsFiniteSet(1..m) /\ Cardinality(1..m) = IF 1 > m THEN 0 ELSE m - 1 + 1
    BY FS_Interval
  <2> QED BY <2>1
<1> QED BY <1>2, <1>3

(***************************************************************************)
(* A counter of zero means that every dependency has a layer.              *)
(***************************************************************************)
LEMMA NoneOutside ==
  ASSUME agents \in Seq(Agent), NEW n \in Nodes, NEW S,
         Cardinality(Outside(n, S)) = 0
  PROVE  Deps(n) \subseteq S
<1>1. IsFiniteSet(Outside(n, S))
  BY PlacesFinite, FS_Subset DEF Outside
<1>2. Outside(n, S) = {}
  BY <1>1, FS_EmptySet
<1> QED BY <1>2 DEF Outside, Deps

(***************************************************************************)
(* Two disjoint parts of a finite set.                                     *)
(***************************************************************************)
LEMMA PartsAddUp ==
  ASSUME NEW A, NEW B, IsFiniteSet(A), IsFiniteSet(B), A \cap B = {}
  PROVE  Cardinality(A \cup B) = Cardinality(A) + Cardinality(B)
<1>1. Cardinality(A \cup B) = Cardinality(A) + Cardinality(B) - Cardinality(A \cap B)
  BY FS_Union
<1>2. Cardinality(A \cap B) = 0
  BY FS_EmptySet
<1>3. Cardinality(A) \in Nat /\ Cardinality(B) \in Nat
  BY FS_CardinalityType
<1> QED BY <1>1, <1>2, <1>3

(***************************************************************************)
(* topoSort counts down exactly the dependencies that a layer places.      *)
(***************************************************************************)
LEMMA CountedDown ==
  ASSUME agents \in Seq(Agent), NEW n \in Nodes, NEW S, NEW L, S \cap L = {}
  PROVE  Cardinality(Outside(n, S \cup L))
           = Cardinality(Outside(n, S)) - Occurrences(n, L)
<1> DEFINE In == { i \in DOMAIN DependsOn(n) : DependsOn(n)[i] \in L }
           Out == Outside(n, S \cup L)
<1>1. IsFiniteSet(In) /\ IsFiniteSet(Out)
  BY PlacesFinite, FS_Subset DEF Outside
<1>2. In \cup Out = Outside(n, S) /\ In \cap Out = {}
  BY DEF Outside
<1>3. Cardinality(Outside(n, S)) = Cardinality(In) + Cardinality(Out)
  BY <1>1, <1>2, PartsAddUp
<1>4. Cardinality(In) \in Nat /\ Cardinality(Out) \in Nat
  BY <1>1, FS_CardinalityType
<1>5. Occurrences(n, L) = Cardinality(In)
  BY DEF Occurrences
<1> HIDE DEF In, Out
<1>6. Cardinality(Out) = Cardinality(Outside(n, S)) - Cardinality(In)
  BY <1>3, <1>4
<1> QED BY <1>5, <1>6 DEF Out

(***************************************************************************)
(* The graph, and what is derived from it, changes only with the agents    *)
(* and the layers.                                                         *)
(***************************************************************************)
LEMMA GraphUnchanged ==
  ASSUME agents' = agents
  PROVE  /\ Nodes' = Nodes
         /\ \A n : DependsOn(n)' = DependsOn(n) /\ Deps(n)' = Deps(n)
         /\ \A n, S : Outside(n, S)' = Outside(n, S)
         /\ Layers' = Layers => Placed' = Placed /\ \A k : Before(k)' = Before(k)
BY DEF Nodes, DependsOn, Deps, Outside, Placed, Before

-----------------------------------------------------------------------------
(* Types and layers.                                                       *)

(***************************************************************************)
(* The actions, one case of every proof below.                             *)
(***************************************************************************)
LEMMA Cases ==
  ASSUME [Next]_vars
  PROVE  \/ IndexNodes \/ PeelLayer \/ Sorted \/ Execute \/ EndLayer
         \/ \E n \in Names : StartAgent(n)
         \/ \E n \in Names, ok \in BOOLEAN, c, t \in 0..MaxCost : FinishAgent(n, ok, c, t)
         \/ \E ok \in BOOLEAN, c \in 0..MaxCost : Synthesize(ok, c)
         \/ UNCHANGED vars
BY DEF Next, Build, Run

(***************************************************************************)
(* In the beginning nothing is sorted, run or spent.                       *)
(***************************************************************************)
LEMMA InitInv == Init => IInv
<1> SUFFICES ASSUME Init PROVE IInv
  OBVIOUS
<1>1. agents \in Seq(Agent)
  BY OrchestratorAssumption DEF Init
<1>2. Layers = << >> /\ Layers \in Seq(SUBSET Names) /\ DOMAIN Layers = {}
  BY DEF Init
<1>3. RunTypes /\ RunInv /\ OutInv
  BY <1>1, <1>2 DEF Init, RunTypes, RunInv, OutInv, Phases
<1>4. SortInv
  BY <1>2 DEF Init, SortInv, AfterSort
<1>5. CostInv
  BY DEF Init, CostInv, TotalsReported
<1> QED BY <1>3, <1>4, <1>5 DEF IInv

(***************************************************************************)
(* The agents are finitely many, and their costs add up.                   *)
(***************************************************************************)
LEMMA ReportedNat ==
  ASSUME RunTypes
  PROVE  IsFiniteSet(Nodes) /\ (\A n \in Nodes : cost[n] \in Nat) /\ Reported \in Nat
<1>1. Nodes \subseteq Names
  BY NodesTypes DEF RunTypes
<1>2. IsFiniteSet(Nodes) /\ \A n \in Nodes : cost[n] \in Nat
  BY <1>1, OrchestratorAssumption, FS_Subset DEF RunTypes
<1> QED BY <1>2, SumNat DEF Reported

(***************************************************************************)
(* Every step keeps the types.                                             *)
(***************************************************************************)
LEMMA TypesStep == RunTypes /\ SortInv /\ RunInv /\ [Next]_vars => RunTypes'
<1>0. MaxCost \in Nat
  BY OrchestratorAssumption
<1> SUFFICES ASSUME RunTypes, SortInv, RunInv, [Next]_vars PROVE RunTypes'
  OBVIOUS
<1> USE DEF RunTypes, Phases
<1>1. CASE IndexNodes
  BY <1>1 DEF IndexNodes, runVars
<1>2. CASE PeelLayer
  <2>1. NextLayer \in SUBSET Names
    BY <1>2, NodesTypes DEF NextLayer, PeelLayer, SortInv
  <2>2. Layers' \in Seq(SUBSET Names)
    <3>1. Layers' = Layers \/ Layers' = Append(Layers, NextLayer)
      BY <1>2 DEF PeelLayer
    <3>2. Append(Layers, NextLayer) \in Seq(SUBSET Names)
      <4> DEFINE L == NextLayer
      <4> HIDE DEF L
      <4> QED BY <2>1, AppendProperties DEF L
    <3> QED BY <3>1, <3>2
  <2>3. phase' \in {phase, "cycle"} /\ UNCHANGED <<agents, layerIdx, runVars, TotalCost, inputs>>
    BY <1>2 DEF PeelLayer
  <2>4. UNCHANGED <<agent, outputs, failed, given, cost, spent, unreported>>
    BY <2>3 DEF runVars
  <2> QED BY <2>2, <2>3, <2>4
<1>3. CASE Sorted
  BY <1>3 DEF Sorted, dagVars, runVars
<1>4. CASE Execute
  BY <1>4 DEF Execute, FreshRun, dagVars
<1>5. CASE EndLayer
  <2>1. PassedOn \subseteq Names
    <3>1. layerIdx \in DOMAIN Layers => Layers[layerIdx] \subseteq Names
      BY NodesTypes DEF SortInv
    <3> QED BY <1>5, <3>1 DEF EndLayer, PassedOn, RunInv
  <2> QED BY <1>5, <2>1 DEF EndLayer, dagVars
<1>6. ASSUME NEW n \in Names, StartAgent(n) PROVE RunTypes'
  BY <1>6 DEF StartAgent, dagVars
<1>7. ASSUME NEW n \in Names, NEW ok \in BOOLEAN, NEW c \in 0..MaxCost,
             NEW t \in 0..MaxCost, FinishAgent(n, ok, c, t)
      PROVE  RunTypes'
  <2>1. c \in Nat /\ spent + c + t \in Nat /\ unreported + t \in Nat /\ unreported + c + t \in Nat
    BY <1>0
  <2>2. cost' \in [Names -> Nat] /\ failed' \subseteq Names
    BY <1>7, <2>1 DEF FinishAgent
  <2> QED BY <1>7, <2>1, <2>2 DEF FinishAgent, dagVars
<1>8. ASSUME NEW ok \in BOOLEAN, NEW c \in 0..MaxCost, Synthesize(ok, c)
      PROVE  RunTypes'
  <2>1. c \in Nat /\ spent + c \in Nat /\ unreported + c \in Nat
    BY <1>0
  <2>2. Reported \in Nat
    BY ReportedNat
  <2>3. TotalCost' \in Nat \cup {-1}
    BY <1>8, <2>1, <2>2 DEF Synthesize, Reported
  <2> QED BY <1>8, <2>1, <2>3 DEF Synthesize, dagVars
<1>9. CASE UNCHANGED vars
  BY <1>9 DEF vars, dagVars, runVars
<1> QED BY <1>1, <1>2, <1>3, <1>4, <1>5, <1>6, <1>7, <1>8, <1>9, Cases

(***************************************************************************)
(* A new layer extends the layers before it, and holds only agents whose   *)
(* dependencies all have one.                                              *)
(***************************************************************************)
LEMMA Peeled ==
  ASSUME RunTypes, SortInv, PeelLayer, NextLayer # {}
  PROVE  /\ NextLayer \subseteq Nodes \ Placed
         /\ \A n \in NextLayer : Deps(n) \subseteq Placed
         /\ DOMAIN Layers = 1..Len(Layers) /\ Len(Layers) \in Nat
         /\ DOMAIN Layers' = 1..(Len(Layers) + 1)
         /\ Layers'[Len(Layers) + 1] = NextLayer
         /\ \A i \in DOMAIN Layers : Layers'[i] = Layers[i]
<1>1. phase = "sort" /\ Layers' = Append(Layers, NextLayer)
  BY DEF PeelLayer
<1>2. NextLayer \subseteq Nodes \ Placed
  BY <1>1 DEF SortInv, NextLayer
<1>3. ASSUME NEW n \in NextLayer PROVE Deps(n) \subseteq Placed
  <2>1. n \in Nodes /\ Cardinality(Outside(n, Placed)) = 0
    BY <1>1, <1>2 DEF SortInv, NextLayer
  <2> QED BY <2>1, NoneOutside DEF RunTypes
<1>4. NextLayer \in SUBSET Names /\ Layers \in Seq(SUBSET Names)
  BY <1>2, NodesTypes DEF RunTypes
<1>5. /\ DOMAIN Layers = 1..Len(Layers) /\ Len(Layers) \in Nat
      /\ DOMAIN Layers' = 1..(Len(Layers) + 1)
      /\ Layers'[Len(Layers) + 1] = NextLayer
      /\ \A i \in DOMAIN Layers : Layers'[i] = Layers[i]
  BY <1>1, <1>4, AppendProperties, LenProperties
<1> QED BY <1>2, <1>3, <1>5

(***************************************************************************)
(* Before and Placed, once there is a new layer.                           *)
(***************************************************************************)
LEMMA PeeledSets ==
  ASSUME RunTypes, SortInv, PeelLayer, NextLayer # {}
  PROVE  /\ Nodes' = Nodes
         /\ Placed' = Placed \cup NextLayer
         /\ \A k : k = Len(Layers) + 1 => Before(k)' = Placed
         /\ \A i \in DOMAIN Layers : Before(i)' = Before(i)
<1>1. agents' = agents
  BY DEF PeelLayer
<1>2. Nodes' = Nodes
  BY <1>1 DEF Nodes
<1> USE Peeled
<1>3. Placed' = Placed \cup NextLayer
  BY <1>2 DEF Placed
<1>4. ASSUME NEW k, k = Len(Layers) + 1 PROVE Before(k)' = Placed
  <2>1. \A j \in DOMAIN Layers' : j < k <=> j \in DOMAIN Layers
    BY <1>4
  <2>2. DOMAIN Layers \subseteq DOMAIN Layers'
    OBVIOUS
  <2> QED BY <1>2, <2>1, <2>2 DEF Before, Placed
<1>5. ASSUME NEW i \in DOMAIN Layers PROVE Before(i)' = Before(i)
  <2>1. \A j \in DOMAIN Layers' : j < i => j \in DOMAIN Layers
    OBVIOUS
  <2> QED BY <1>2, <2>1 DEF Before
<1> QED BY <1>2, <1>3, <1>4, <1>5

(***************************************************************************)
(* Every step keeps what is known of the layers and the counters.          *)
(***************************************************************************)
LEMMA SortStep == RunTypes /\ SortInv /\ [Next]_vars => SortInv'
<1> SUFFICES ASSUME RunTypes, SortInv, [Next]_vars PROVE SortInv'
  OBVIOUS
<1>1. CASE IndexNodes
  <2>1. phase = "index" /\ Layers = << >> /\ Layers' = << >> /\ agents' = agents
    BY <1>1 DEF IndexNodes, SortInv
  <2>2. Placed = {} /\ Placed' = {} /\ Nodes' = Nodes
    BY <2>1, GraphUnchanged DEF Placed
  <2>3. CASE ~(Unique /\ Known)
    <3>1. phase' = "invalid" /\ inDegree' = inDegree
      BY <1>1, <2>3 DEF IndexNodes
    <3> QED BY <2>1, <3>1, GraphUnchanged DEF SortInv, AfterSort
  <2>4. CASE Unique /\ Known
    <3>1. \A n \in Nodes : Deps(n)' \subseteq Nodes'
      BY <2>1, <2>2, <2>4, GraphUnchanged DEF Known
    <3>2. phase' = "sort" /\ inDegree' = [n \in Nodes |-> Len(DependsOn(n))]
      BY <1>1, <2>4 DEF IndexNodes, InDegree
    <3>3. ASSUME NEW n \in Nodes
          PROVE  inDegree'[n] = Cardinality(Outside(n, Placed)')
      <4>1. Outside(n, {}) = DOMAIN DependsOn(n)
        BY DEF Outside
      <4>2. Cardinality(Outside(n, {})) = Len(DependsOn(n))
        BY <4>1, PlacesFinite DEF RunTypes
      <4>3. Outside(n, Placed)' = Outside(n, {})
        BY <2>1, <2>2, GraphUnchanged DEF Outside
      <4> QED BY <3>2, <4>2, <4>3
    <3> QED BY <2>1, <2>2, <3>1, <3>2, <3>3 DEF SortInv, AfterSort
  <2> QED BY <2>3, <2>4
<1>2. CASE PeelLayer
  <2>1. phase = "sort" /\ agents' = agents
    BY <1>2 DEF PeelLayer
  <2>2. CASE NextLayer = {}
    <3>1. phase' = "cycle" /\ Layers' = Layers /\ inDegree' = inDegree /\ DOMAIN inDegree # {}
      BY <1>2, <2>2 DEF PeelLayer
    <3>2. NextLayer' = {}
      BY <2>2, <3>1 DEF NextLayer
    <3> QED BY <2>1, <3>1, <3>2, GraphUnchanged DEF SortInv, AfterSort
  <2>3. CASE NextLayer # {}
    <3>1. /\ phase' = "sort"
          /\ inDegree' = [n \in DOMAIN inDegree \ NextLayer |-> Decrement(n, NextLayer)]
      BY <1>2, <2>1, <2>3 DEF PeelLayer
    <3>2. ASSUME NEW i \in DOMAIN Layers' PROVE Layers'[i] \subseteq Nodes'
      BY <1>2, <2>3, Peeled, PeeledSets DEF SortInv
    <3>3. ASSUME NEW i \in DOMAIN Layers', NEW n \in Layers'[i]
          PROVE  Deps(n)' \subseteq Before(i)'
      <4>1. CASE i \in DOMAIN Layers
        BY <1>2, <2>1, <2>3, <4>1, Peeled, PeeledSets, GraphUnchanged DEF SortInv
      <4>2. CASE i = Len(Layers) + 1
        BY <1>2, <2>1, <2>3, <4>2, Peeled, PeeledSets, GraphUnchanged
      <4> QED BY <1>2, <2>3, <4>1, <4>2, Peeled
    <3>4. \A n \in Nodes' : Deps(n)' \subseteq Nodes'
      BY <2>1, GraphUnchanged DEF SortInv
    <3>5. DOMAIN inDegree' = Nodes' \ Placed'
      BY <1>2, <2>1, <2>3, <3>1, PeeledSets DEF SortInv
    <3>6. ASSUME NEW n \in DOMAIN inDegree'
          PROVE  inDegree'[n] = Cardinality(Outside(n, Placed)')
      <4>1. n \in DOMAIN inDegree /\ n \in Nodes /\ n \notin NextLayer
        BY <2>1, <3>1 DEF SortInv
      <4>2. inDegree'[n] = Cardinality(Outside(n, Placed)) - Occurrences(n, NextLayer)
        BY <2>1, <3>1, <4>1 DEF SortInv, Decrement
      <4>3. Placed \cap NextLayer = {}
        BY <1>2, <2>3, Peeled
      <4>4. Cardinality(Outside(n, Placed \cup NextLayer)) = inDegree'[n]
        BY <4>1, <4>2, <4>3, CountedDown DEF RunTypes
      <4>5. Outside(n, Placed)' = Outside(n, Placed \cup NextLayer)
        BY <1>2, <2>1, <2>3, PeeledSets, GraphUnchanged DEF Outside
      <4> QED BY <4>4, <4>5
    <3>7. ASSUME NEW i \in DOMAIN Layers', NEW j \in DOMAIN Layers', i # j
          PROVE  Layers'[i] \cap Layers'[j] = {}
      <4>1. \A k \in DOMAIN Layers : Layers[k] \cap NextLayer = {}
        BY <1>2, <2>3, Peeled DEF Placed
      <4> QED BY <1>2, <2>3, <3>7, <4>1, Peeled DEF SortInv
    <3> QED BY <3>1, <3>2, <3>3, <3>4, <3>5, <3>6, <3>7 DEF SortInv, AfterSort
  <2> QED BY <2>2, <2>3
<1>3. CASE UNCHANGED dagVars /\ (phase' = phase \/ {phase, phase'} \subseteq AfterSort)
  <2>1. UNCHANGED <<agents, inDegree, Layers>>
    BY <1>3 DEF dagVars
  <2>2. /\ Nodes' = Nodes /\ Placed' = Placed /\ NextLayer' = NextLayer
        /\ \A n : Deps(n)' = Deps(n) /\ Outside(n, Placed)' = Outside(n, Placed)
        /\ \A k : Before(k)' = Before(k)
    BY <2>1, GraphUnchanged DEF NextLayer
  <2> QED BY <1>3, <2>1, <2>2 DEF SortInv, AfterSort
<1>5. CASE Sorted
  <2>1. /\ phase = "sort" /\ phase' = "idle" /\ DOMAIN inDegree = {}
        /\ UNCHANGED <<agents, inDegree, Layers>>
    BY <1>5 DEF Sorted, dagVars
  <2>2. Placed = Nodes
    BY <2>1 DEF SortInv, Placed
  <2> QED BY <2>1, <2>2, GraphUnchanged DEF SortInv, AfterSort
<1>6. CASE Execute
  BY <1>3, <1>6 DEF Execute, AfterSort
<1>7. CASE EndLayer
  BY <1>3, <1>7 DEF EndLayer, AfterSort
<1>8. ASSUME NEW n \in Names, StartAgent(n) PROVE SortInv'
  BY <1>3, <1>8 DEF StartAgent
<1>9. ASSUME NEW n \in Names, NEW ok \in BOOLEAN, NEW c \in 0..MaxCost,
             NEW t \in 0..MaxCost, FinishAgent(n, ok, c, t)
      PROVE  SortInv'
  BY <1>3, <1>9 DEF FinishAgent
<1>10. ASSUME NEW ok \in BOOLEAN, NEW c \in 0..MaxCost, Synthesize(ok, c)
       PROVE  SortInv'
  BY <1>3, <1>10 DEF Synthesize, AfterSort
<1>11. CASE UNCHANGED vars
  BY <1>3, <1>11 DEF vars
<1> QED BY <1>1, <1>2, <1>5, <1>6, <1>7, <1>8, <1>9, <1>10, <1>11, Cases

-----------------------------------------------------------------------------
(* Execution.                                                              *)

(***************************************************************************)
(* Only a running layer has running agents, and they are its own: one that *)
(* ends is nobody's finished dependency.                                   *)
(***************************************************************************)
LEMMA Running ==
  ASSUME IInv, NEW n \in Names, agent[n] = "running"
  PROVE  /\ phase = "layer" /\ n \in Layers[layerIdx] /\ n \in Nodes
         /\ n \notin Before(layerIdx)
<1>1. phase = "layer" /\ n \in Layers[layerIdx] /\ layerIdx \in DOMAIN Layers
  BY DEF IInv, RunInv
<1>2. n \notin Before(layerIdx)
  BY <1>1 DEF IInv, RunInv
<1> QED BY <1>1, <1>2 DEF IInv, SortInv

(***************************************************************************)
(* An agent that starts is a node whose dependencies all have ended, in    *)
(* layers before its own.                                                  *)
(***************************************************************************)
LEMMA Starting ==
  ASSUME IInv, NEW n \in Names, StartAgent(n)
  PROVE  /\ phase = "layer" /\ layerIdx \in DOMAIN Layers
         /\ n \in Nodes /\ Deps(n) \subseteq Before(layerIdx)
         /\ \A d \in Deps(n) : agent[d] = "ended" /\ d # n
<1>1. phase = "layer" /\ layerIdx \in DOMAIN Layers /\ n \in Layers[layerIdx]
  BY DEF IInv, RunInv, StartAgent
<1>2. n \in Nodes /\ Deps(n) \subseteq Before(layerIdx)
  BY <1>1 DEF IInv, SortInv
<1>3. \A d \in Deps(n) : agent[d] = "ended"
  BY <1>1, <1>2 DEF IInv, RunInv
<1> QED BY <1>1, <1>2, <1>3 DEF StartAgent

(***************************************************************************)
(* The agents before the next layer: this one's, and those before it.      *)
(***************************************************************************)
LEMMA NextBefore ==
  ASSUME IInv, phase = "layer", layerIdx' = layerIdx + 1, UNCHANGED <<agents, Layers>>
  PROVE  Before(layerIdx)' = Before(layerIdx) \cup Layers[layerIdx]
<1>1. layerIdx \in DOMAIN Layers /\ DOMAIN Layers \subseteq Nat
  BY LenProperties DEF IInv, RunTypes, RunInv
<1>2. \A j \in DOMAIN Layers : j < layerIdx + 1 <=> j < layerIdx \/ j = layerIdx
  BY <1>1
<1>3. Layers[layerIdx] \subseteq Nodes
  BY <1>1 DEF IInv, SortInv
<1> QED BY <1>1, <1>2, <1>3, GraphUnchanged DEF Before

(***************************************************************************)
(* Every step keeps the order of the layers.                               *)
(***************************************************************************)
LEMMA RunStep == IInv /\ [Next]_vars => RunInv'
<1> SUFFICES ASSUME IInv, [Next]_vars PROVE RunInv'
  OBVIOUS
<1> USE DEF IInv
<1>1. CASE IndexNodes
  BY <1>1 DEF IndexNodes, RunInv, runVars
<1>2. CASE PeelLayer
  <2>1. phase = "sort" /\ phase' \in {"sort", "cycle"} /\ agent' = agent
    BY <1>2 DEF PeelLayer, runVars
  <2> QED BY <2>1 DEF RunInv
<1>3. CASE Sorted
  BY <1>3 DEF Sorted, RunInv, runVars
<1>4. CASE Execute
  <2>1. agent' = [n \in Names |-> "todo"] /\ layerIdx' = 1 /\ Layers' = Layers
    BY <1>4 DEF Execute, FreshRun, dagVars
  <2>2. phase' = "layer" => 1 \in DOMAIN Layers
    <3>1. phase' = "layer" => Layers # << >>
      BY <1>4 DEF Execute
    <3> QED BY <3>1, LenProperties, EmptySeq DEF RunTypes
  <2>3. Before(layerIdx)' = {}
    BY <2>1, LenProperties DEF RunTypes, Before
  <2> QED BY <2>1, <2>2, <2>3 DEF RunInv
<1>5. CASE EndLayer
  <2>1. /\ phase = "layer" /\ layerIdx' = layerIdx + 1
        /\ UNCHANGED <<agents, Layers, agent>>
        /\ \A n \in Layers[layerIdx] : agent[n] = "ended"
    BY <1>5 DEF EndLayer, LayerEnded, dagVars
  <2>2. \A n \in Names : agent[n] # "running"
    BY <2>1 DEF RunInv
  <2>3. layerIdx \in 1..Len(Layers) /\ Len(Layers) \in Nat
    BY <2>1, LenProperties DEF RunTypes, RunInv
  <2>4. phase' = "layer" => layerIdx' \in DOMAIN Layers'
    <3>1. phase' = "layer" => layerIdx # Len(Layers)
      BY <1>5 DEF EndLayer
    <3> QED BY <2>1, <2>3, <3>1, LenProperties DEF RunTypes
  <2>5. Before(layerIdx)' \subseteq Before(layerIdx) \cup Layers[layerIdx]
    BY <2>1, <2>3, NextBefore
  <2> QED BY <2>1, <2>2, <2>4, <2>5 DEF RunInv
<1>6. ASSUME NEW n \in Names, StartAgent(n) PROVE RunInv'
  <2>1. Before(layerIdx)' = Before(layerIdx)
    BY <1>6, GraphUnchanged DEF StartAgent, dagVars, Before
  <2> QED BY <1>6, <2>1 DEF StartAgent, RunInv, RunTypes, dagVars
<1>7. ASSUME NEW n \in Names, NEW ok \in BOOLEAN, NEW c \in 0..MaxCost,
             NEW t \in 0..MaxCost, FinishAgent(n, ok, c, t)
      PROVE  RunInv'
  <2>1. Before(layerIdx)' = Before(layerIdx)
    BY <1>7, GraphUnchanged DEF FinishAgent, dagVars, Before
  <2> QED BY <1>7, <2>1 DEF FinishAgent, RunInv, RunTypes, dagVars
<1>8. ASSUME NEW ok \in BOOLEAN, NEW c \in 0..MaxCost, Synthesize(ok, c)
      PROVE  RunInv'
  BY <1>8 DEF Synthesize, RunInv
<1>9. CASE UNCHANGED vars
  <2>1. Before(layerIdx)' = Before(layerIdx)
    BY <1>9, GraphUnchanged DEF vars, dagVars, Before
  <2> QED BY <1>9, <2>1 DEF vars, dagVars, runVars, RunInv
<1> QED BY <1>1, <1>2, <1>3, <1>4, <1>5, <1>6, <1>7, <1>8, <1>9, Cases

(***************************************************************************)
(* Every step keeps what is known of the outputs that are passed on.       *)
(***************************************************************************)
LEMMA OutStep == IInv /\ [Next]_vars => OutInv'
<1> SUFFICES ASSUME IInv, [Next]_vars PROVE OutInv'
  OBVIOUS
<1>1. CASE IndexNodes
  <2>1. phase = "index" /\ phase' \in {"sort", "invalid"}
    BY <1>1 DEF IndexNodes
  <2> QED BY <2>1 DEF OutInv
<1>2. CASE PeelLayer
  <2>1. phase' \in {"sort", "cycle"}
    BY <1>2 DEF PeelLayer
  <2> QED BY <2>1 DEF OutInv
<1>3. CASE Sorted
  BY <1>3 DEF Sorted, OutInv
<1>4. CASE Execute
  <2>1. /\ agent' = [n \in Names |-> "todo"] /\ outputs' = {}
        /\ layerIdx' = 1 /\ UNCHANGED <<agents, Layers>>
    BY <1>4 DEF Execute, FreshRun, dagVars
  <2>2. Before(layerIdx)' = {}
    BY <2>1, LenProperties DEF IInv, RunTypes, Before
  <2>3. Nodes' \subseteq Names
    BY <2>1, NodesTypes, GraphUnchanged DEF IInv, RunTypes
  <2> QED BY <2>1, <2>2, <2>3 DEF OutInv
<1>5. CASE EndLayer
  <2>1. /\ phase = "layer" /\ layerIdx' = layerIdx + 1
        /\ UNCHANGED <<agents, Layers, agent, failed, given>>
        /\ outputs' = outputs \cup (Layers[layerIdx] \ failed)
    BY <1>5 DEF EndLayer, PassedOn, dagVars
  <2>2. Before(layerIdx)' = Before(layerIdx) \cup Layers[layerIdx]
    BY <2>1, NextBefore
  <2>3. outputs' = Before(layerIdx)' \ failed'
    BY <2>1, <2>2 DEF IInv, OutInv
  <2> QED BY <2>1, <2>3, GraphUnchanged DEF IInv, OutInv
<1>6. ASSUME NEW n \in Names, StartAgent(n) PROVE OutInv'
  <2>1. /\ phase' = "layer" /\ UNCHANGED <<agents, Layers, layerIdx, outputs, failed>>
        /\ agent' = [agent EXCEPT ![n] = "running"]
        /\ given' = [given EXCEPT ![n] = Deps(n) \cap outputs]
    BY <1>6 DEF StartAgent, dagVars
  <2>2. outputs' = Before(layerIdx)' \ failed'
    BY <1>6, <2>1, Starting, GraphUnchanged DEF IInv, OutInv, Before
  <2>3. ASSUME NEW m \in Nodes, agent'[m] # "todo"
        PROVE  /\ given'[m] = Deps(m) \ failed
               /\ \A d \in Deps(m) : agent'[d] = "ended"
    <3>1. m \in Names /\ Deps(m) \subseteq Names
      BY NodesTypes DEF IInv, RunTypes
    <3>2. CASE m = n
      <4>1. given'[m] = Deps(n) \cap outputs
        BY <2>1, <3>2 DEF IInv, RunTypes
      <4>2. Deps(n) \cap outputs = Deps(n) \ failed
        BY <1>6, Starting DEF IInv, OutInv
      <4>3. \A d \in Deps(n) : agent'[d] = "ended"
        BY <1>6, <2>1, <3>1, <3>2, Starting DEF IInv, RunTypes
      <4> QED BY <3>2, <4>1, <4>2, <4>3
    <3>3. CASE m # n
      <4>1. agent[m] # "todo" /\ given'[m] = given[m]
        BY <2>1, <2>3, <3>1, <3>3 DEF IInv, RunTypes
      <4>2. phase = "layer" /\ agent[n] = "todo"
        BY <1>6 DEF StartAgent
      <4>3. \A d \in Deps(m) : agent[d] = "ended" /\ d # n
        BY <4>1, <4>2 DEF IInv, OutInv
      <4>4. given[m] = Deps(m) \ failed
        BY <4>1, <4>2 DEF IInv, OutInv
      <4>5. \A d \in Deps(m) : agent'[d] = agent[d]
        BY <2>1, <3>1, <4>3 DEF IInv, RunTypes
      <4> QED BY <4>1, <4>3, <4>4, <4>5
    <3> QED BY <3>2, <3>3
  <2> QED BY <2>1, <2>2, <2>3, GraphUnchanged DEF OutInv
<1>7. ASSUME NEW n \in Names, NEW ok \in BOOLEAN, NEW c \in 0..MaxCost,
             NEW t \in 0..MaxCost, FinishAgent(n, ok, c, t)
      PROVE  OutInv'
  <2>1. /\ UNCHANGED <<phase, agents, Layers, layerIdx, outputs, given>>
        /\ agent[n] = "running" /\ agent' = [agent EXCEPT ![n] = "ended"]
        /\ failed' \in {failed, failed \cup {n}}
    BY <1>7 DEF FinishAgent, dagVars
  <2>2. phase = "layer" /\ n \notin Before(layerIdx)
    BY <2>1, Running
  <2>3. Before(layerIdx)' = Before(layerIdx)
    BY <2>1, GraphUnchanged DEF Before
  <2>4. outputs' = Before(layerIdx)' \ failed'
    BY <2>1, <2>2, <2>3 DEF IInv, OutInv
  <2>5. ASSUME NEW m \in Nodes, agent'[m] # "todo"
        PROVE  /\ given'[m] = Deps(m) \ failed'
               /\ \A d \in Deps(m) : agent'[d] = "ended"
    <3>1. m \in Names /\ Deps(m) \subseteq Names
      BY NodesTypes DEF IInv, RunTypes
    <3>2. agent[m] # "todo"
      BY <2>1, <2>5, <3>1 DEF IInv, RunTypes
    <3>3. given[m] = Deps(m) \ failed /\ \A d \in Deps(m) : agent[d] = "ended"
      BY <2>2, <3>2 DEF IInv, OutInv
    <3>4. n \notin Deps(m)
      BY <2>1, <3>3
    <3>5. \A d \in Deps(m) : agent'[d] = "ended"
      BY <2>1, <3>1, <3>3, <3>4 DEF IInv, RunTypes
    <3> QED BY <2>1, <3>3, <3>4, <3>5
  <2> QED BY <2>1, <2>2, <2>4, <2>5, GraphUnchanged DEF OutInv
<1>8. ASSUME NEW ok \in BOOLEAN, NEW c \in 0..MaxCost, Synthesize(ok, c)
      PROVE  OutInv'
  BY <1>8 DEF Synthesize, OutInv
<1>9. CASE UNCHANGED vars
  <2>1. UNCHANGED <<phase, agents, Layers, layerIdx, agent, outputs, failed, given>>
    BY <1>9 DEF vars, dagVars, runVars
  <2>2. Before(layerIdx)' = Before(layerIdx)
    BY <2>1, GraphUnchanged DEF Before
  <2> QED BY <2>1, <2>2, GraphUnchanged DEF IInv, OutInv
<1> QED BY <1>1, <1>2, <1>3, <1>4, <1>5, <1>6, <1>7, <1>8, <1>9, Cases

-----------------------------------------------------------------------------
(* Costs.                                                                  *)

(***************************************************************************)
(* Every step keeps the costs: what an agent that succeeds reports is what *)
(* its own session has spent, one that fails spends and reports nothing.   *)
(***************************************************************************)
LEMMA CostStep == IInv /\ [Next]_vars => CostInv'
<1> SUFFICES ASSUME RunTypes, SortInv, RunInv, CostInv, IInv, [Next]_vars PROVE CostInv'
  BY DEF IInv
<1>0. IsFiniteSet(Nodes) /\ (\A n \in Nodes : cost[n] \in Nat) /\ Reported \in Nat /\ MaxCost \in Nat
  BY ReportedNat, OrchestratorAssumption
<1>1. CASE UNCHANGED <<agents, agent, cost, spent, unreported, TotalCost>>
           /\ (phase' = phase \/ {phase, phase'} \subseteq {"layer", "synthesis"}
                 \/ phase' \notin {"layer", "synthesis"})
  <2>1. Reported' = Reported
    BY <1>1, GraphUnchanged DEF Reported
  <2> QED BY <1>1, <2>1 DEF CostInv, TotalsReported
<1>2. CASE IndexNodes \/ PeelLayer \/ Sorted
  BY <1>1, <1>2 DEF IndexNodes, PeelLayer, Sorted, dagVars, runVars
<1>3. CASE Execute
  <2>1. /\ agents' = agents /\ TotalCost' = -1 /\ spent' = 0 /\ unreported' = 0
        /\ cost' = [n \in Names |-> 0]
    BY <1>3 DEF Execute, FreshRun, dagVars
  <2>2. Nodes' = Nodes /\ \A n \in Nodes : cost'[n] = 0
    BY <2>1, NodesTypes, GraphUnchanged DEF RunTypes
  <2>3. Reported' = 0
    BY <1>0, <2>2, SumZero DEF Reported
  <2> QED BY <2>1, <2>3 DEF CostInv, TotalsReported
<1>4. CASE EndLayer
  BY <1>1, <1>4 DEF EndLayer, dagVars
<1>5. ASSUME NEW n \in Names, StartAgent(n) PROVE CostInv'
  <2>1. /\ UNCHANGED <<phase, agents, cost, spent, unreported, TotalCost>>
        /\ agent' = [agent EXCEPT ![n] = "running"] /\ agent[n] = "todo"
    BY <1>5 DEF StartAgent, dagVars
  <2>2. Reported' = Reported
    BY <2>1, GraphUnchanged DEF Reported
  <2> QED BY <2>1, <2>2 DEF CostInv, TotalsReported, RunTypes
<1>6. ASSUME NEW n \in Names, NEW ok \in BOOLEAN, NEW c \in 0..MaxCost,
             NEW t \in 0..MaxCost, FinishAgent(n, ok, c, t)
      PROVE  CostInv'
  <2>1. /\ UNCHANGED <<phase, agents, TotalCost>> /\ agent[n] = "running"
        /\ agent' = [agent EXCEPT ![n] = "ended"] /\ spent' = spent + c + t
        /\ IF ok THEN cost' = [cost EXCEPT ![n] = c] /\ unreported' = unreported + t
                 ELSE cost' = cost /\ unreported' = unreported + c + t
    BY <1>6 DEF FinishAgent, dagVars
  <2>2. phase = "layer" /\ n \in Nodes /\ cost[n] = 0 /\ Nodes' = Nodes
        /\ c \in Nat /\ t \in Nat /\ spent \in Nat /\ unreported \in Nat
    BY <1>0, <2>1, Running, GraphUnchanged DEF CostInv, RunTypes
  <2>3. \A m \in Names : agent'[m] # "ended" => cost'[m] = 0
    BY <2>1 DEF CostInv, RunTypes
  <2>4. CASE ok
    <3>1. /\ \A m \in Nodes : cost[m] \in Nat /\ cost'[m] \in Nat
          /\ \A m \in Nodes \ {n} : cost'[m] = cost[m]
          /\ cost'[n] = c
      BY <1>0, <2>1, <2>2, <2>4, NodesTypes DEF RunTypes
    <3>2. Reported' = Reported + cost'[n] - cost[n]
      <4> DEFINE f == cost'
      <4>1. Reported' = SumFunctionOnSet(f, Nodes)
        BY <2>2 DEF Reported
      <4>2. n \in Nodes /\ \A m \in Nodes : cost[m] \in Nat /\ f[m] \in Nat
        BY <2>2, <3>1
      <4>3. \A m \in Nodes \ {n} : f[m] = cost[m]
        BY <3>1
      <4> DEFINE g == cost
      <4>4. IsFiniteSet(Nodes) /\ n \in Nodes
            /\ (\A m \in Nodes : g[m] \in Nat /\ f[m] \in Nat) /\ \A m \in Nodes \ {n} : f[m] = g[m]
        BY <1>0, <4>2, <4>3
      <4> HIDE DEF f, g
      <4>5. SumFunctionOnSet(f, Nodes) = SumFunctionOnSet(g, Nodes) + f[n] - g[n]
        <5> DEFINE N == Nodes
        <5>1. /\ IsFiniteSet(N) /\ n \in N /\ \A m \in N : f[m] \in Nat /\ g[m] \in Nat
              /\ \A m \in N \ {n} : f[m] = g[m]
          BY <4>4
        <5> HIDE DEF N
        <5>2. SumFunctionOnSet(f, N) = SumFunctionOnSet(g, N) + f[n] - g[n]
          BY ONLY <5>1, SumUpdate
        <5> QED BY <5>2 DEF N
      <4> QED BY <4>1, <4>5 DEF f, g, Reported
    <3> QED BY <1>0, <2>1, <2>2, <2>3, <2>4, <3>1, <3>2 DEF CostInv, TotalsReported
  <2>5. CASE ~ok
    <3>1. Reported' = Reported
      BY <2>1, <2>2, <2>5 DEF Reported
    <3> QED BY <1>0, <2>1, <2>2, <2>3, <2>5, <3>1 DEF CostInv, TotalsReported
  <2> QED BY <2>4, <2>5
<1>7. ASSUME NEW ok \in BOOLEAN, NEW c \in 0..MaxCost, Synthesize(ok, c)
      PROVE  CostInv'
  <2>1. /\ phase = "synthesis" /\ phase' = "idle" /\ UNCHANGED <<agent, cost>>
        /\ spent' = spent + c /\ TotalCost' = IF ok THEN c + Reported ELSE -1
        /\ ok => unreported' = unreported
    BY <1>7 DEF Synthesize, Reported
  <2>2. c \in Nat /\ spent \in Nat /\ unreported \in Nat
    BY <1>0 DEF RunTypes
  <2> QED BY <1>0, <2>1, <2>2 DEF CostInv, TotalsReported
<1>8. CASE UNCHANGED vars
  BY <1>1, <1>8 DEF vars, dagVars, runVars
<1> QED BY <1>2, <1>3, <1>4, <1>5, <1>6, <1>7, <1>8, Cases

-----------------------------------------------------------------------------
(* What an agent depends on over any number of steps.                      *)

\* The recursive function inside Reach, up to N steps.
IsGrowth(g, n, N) ==
  g = [k \in 0..N |-> IF k = 0 THEN Deps(n)
                               ELSE g[k - 1] \cup UNION { Deps(d) : d \in g[k - 1] }]

(***************************************************************************)
(* There is such a function: one for fewer steps can be extended.          *)
(***************************************************************************)
LEMMA GrowthExists ==
  ASSUME NEW n, NEW N \in Nat
  PROVE  \E g : IsGrowth(g, n, N)
<1> DEFINE C == { m \in 0..N : ~ \E g : IsGrowth(g, n, m) }
<1> SUFFICES ASSUME C # {} PROVE FALSE
  OBVIOUS
<1>1. PICK m \in C : \A k \in C : m <= k
  <2> C \subseteq 0..N
    OBVIOUS
  <2> HIDE DEF C
  <2> QED BY LeastNumber
<1>2. m # 0
  <2> DEFINE g == [k \in 0..0 |-> Deps(n)]
  <2>1. IsGrowth(g, n, 0)
    <3>1. \A k \in 0..0 : k = 0
      OBVIOUS
    <3> QED BY <3>1 DEF IsGrowth
  <2> QED BY <1>1, <2>1
<1>3. m \in Nat /\ m - 1 \in 0..N /\ m - 1 \notin C
  BY <1>1, <1>2
<1>4. PICK g : IsGrowth(g, n, m - 1)
  BY <1>3
<1> DEFINE h == [k \in 0..m |-> IF k = m THEN g[m - 1] \cup UNION { Deps(d) : d \in g[m - 1] }
                                         ELSE g[k]]
           f == [k \in 0..m |-> IF k = 0 THEN Deps(n)
                                         ELSE h[k - 1] \cup UNION { Deps(d) : d \in h[k - 1] }]
<1>5. \A k \in 0..(m - 1) : h[k] = g[k]
  BY <1>3
<1>6. ASSUME NEW k \in 0..m PROVE h[k] = f[k]
  <2>1. CASE k = m
    <3>1. h[m - 1] = g[m - 1]
      BY <1>2, <1>3, <1>5
    <3>2. h[m] = g[m - 1] \cup UNION { Deps(d) : d \in g[m - 1] }
      BY <1>3
    <3>3. f[m] = h[m - 1] \cup UNION { Deps(d) : d \in h[m - 1] }
      <4> HIDE DEF h
      <4> QED BY <1>2, <1>3
    <3> HIDE DEF h, f
    <3> QED BY <2>1, <3>1, <3>2, <3>3
  <2>2. CASE k = 0
    <3>1. h[0] = g[0] /\ g[0] = Deps(n)
      BY <1>2, <1>3, <1>4, <1>5 DEF IsGrowth
    <3> QED BY <2>2, <3>1
  <2>3. CASE k # m /\ k # 0
    <3>1. k \in 0..(m - 1) /\ k - 1 \in 0..(m - 1)
      BY <1>3, <2>3
    <3>2. h[k] = g[k] /\ h[k - 1] = g[k - 1]
      BY <1>5, <3>1
    <3>3. g[k] = g[k - 1] \cup UNION { Deps(d) : d \in g[k - 1] }
      BY <1>4, <2>3, <3>1 DEF IsGrowth
    <3>4. f[k] = h[k - 1] \cup UNION { Deps(d) : d \in h[k - 1] }
      <4> HIDE DEF h
      <4> QED BY <2>3
    <3> HIDE DEF h, f
    <3> QED BY <3>2, <3>3, <3>4
  <2> QED BY <2>1, <2>2, <2>3
<1>7. h = [k \in 0..m |-> h[k]] /\ f = [k \in 0..m |-> f[k]]
  <2>1. h = [k \in 0..m |-> h[k]]
    OBVIOUS
  <2>2. f = [k \in 0..m |-> f[k]]
    <3> HIDE DEF h
    <3> QED OBVIOUS
  <2> QED BY <2>1, <2>2
<1>8. h = f
  <2> HIDE DEF h, f
  <2> QED BY <1>6, <1>7
<1>9. IsGrowth(h, n, m)
  <2> HIDE DEF h
  <2> QED BY <1>8 DEF IsGrowth
<1> QED BY <1>1, <1>9

(***************************************************************************)
(* Reach is its value after as many steps as there are agents.             *)
(***************************************************************************)
LEMMA ReachIs ==
  ASSUME NEW n, Cardinality(Nodes) \in Nat
  PROVE  \E g : IsGrowth(g, n, Cardinality(Nodes)) /\ Reach(n) = g[Cardinality(Nodes)]
<1> DEFINE g == CHOOSE g : IsGrowth(g, n, Cardinality(Nodes))
<1>1. Reach(n) = g[Cardinality(Nodes)]
  BY DEF Reach, IsGrowth
<1>2. IsGrowth(g, n, Cardinality(Nodes))
  BY GrowthExists
<1> QED BY <1>1, <1>2

(***************************************************************************)
(* Nothing outside a set is reached when no dependency leads out of it.    *)
(***************************************************************************)
LEMMA ReachInside ==
  ASSUME NEW n, Cardinality(Nodes) \in Nat, NEW S, Deps(n) \subseteq S,
         \A d \in S : Deps(d) \subseteq S
  PROVE  Reach(n) \subseteq S
<1> DEFINE N == Cardinality(Nodes)
<1>1. PICK g : IsGrowth(g, n, N) /\ Reach(n) = g[N]
  BY ReachIs
<1> DEFINE C == { k \in 0..N : ~ (g[k] \subseteq S) }
<1>2. C = {}
  <2> SUFFICES ASSUME C # {} PROVE FALSE
    OBVIOUS
  <2>1. PICK m \in C : \A k \in C : m <= k
    <3> C \subseteq 0..N
      OBVIOUS
    <3> HIDE DEF C
    <3> QED BY LeastNumber
  <2>2. m # 0
    BY <1>1, <2>1 DEF IsGrowth
  <2>3. m - 1 \in 0..N /\ m - 1 \notin C
    BY <2>1, <2>2
  <2>4. g[m] = g[m - 1] \cup UNION { Deps(d) : d \in g[m - 1] }
    BY <1>1, <2>1, <2>2 DEF IsGrowth
  <2> QED BY <2>1, <2>3, <2>4
<1>3. N \in 0..N
  OBVIOUS
<1> QED BY <1>1, <1>2, <1>3

(***************************************************************************)
(* As many steps as there are agents are enough: each adds an agent, or    *)
(* none is left to be added.                                               *)
(***************************************************************************)
LEMMA ReachClosed ==
  ASSUME IsFiniteSet(Nodes), \A d \in Nodes : Deps(d) \subseteq Nodes, NEW n \in Nodes
  PROVE  /\ Deps(n) \subseteq Reach(n) /\ Reach(n) \subseteq Nodes
         /\ \A d \in Reach(n) : Deps(d) \subseteq Reach(n)
<1> DEFINE N == Cardinality(Nodes)
<1>0. N \in Nat
  BY FS_CardinalityType
<1>1. PICK g : IsGrowth(g, n, N) /\ Reach(n) = g[N]
  BY <1>0, ReachIs
<1> DEFINE Closed(k) == \A d \in g[k] : Deps(d) \subseteq g[k]
           Grown(k) == /\ Deps(n) \subseteq g[k] /\ g[k] \subseteq Nodes
                       /\ Closed(k) \/ Cardinality(g[k]) >= k + 1
           C == { k \in 0..N : ~ Grown(k) }
<1>2. C = {}
  <2> SUFFICES ASSUME C # {} PROVE FALSE
    OBVIOUS
  <2>1. PICK m \in C : \A k \in C : m <= k
    <3> C \subseteq 0..N
      OBVIOUS
    <3> HIDE DEF C, N
    <3> QED BY <1>0, LeastNumber
  <2>2. Grown(0)
    <3>1. g[0] = Deps(n)
      BY <1>0, <1>1 DEF IsGrowth
    <3>2. IsFiniteSet(g[0])
      BY <3>1, FS_Subset
    <3>3. g[0] = {} \/ Cardinality(g[0]) >= 1
      BY <3>2, FS_EmptySet, FS_CardinalityType
    <3>4. Closed(0) \/ Cardinality(g[0]) >= 0 + 1
      BY <3>3
    <3> QED BY <3>1, <3>4
  <2>3. m \in 0..N /\ m # 0
    BY <2>1, <2>2
  <2>4. m - 1 \in 0..N /\ Grown(m - 1)
    BY <1>0, <2>1, <2>3
  <2>5. g[m] = g[m - 1] \cup UNION { Deps(d) : d \in g[m - 1] }
    BY <1>1, <2>3 DEF IsGrowth
  <2>6. Deps(n) \subseteq g[m] /\ g[m] \subseteq Nodes /\ IsFiniteSet(g[m]) /\ IsFiniteSet(g[m - 1])
    <3>1. g[m] \subseteq Nodes
      BY <2>4, <2>5
    <3> QED BY <2>4, <2>5, <3>1, FS_Subset
  <2>7. CASE Closed(m - 1)
    <3>1. g[m] = g[m - 1]
      BY <2>5, <2>7
    <3>2. Closed(m)
      BY <2>7, <3>1
    <3> QED BY <2>1, <2>6, <3>2
  <2>8. CASE ~ Closed(m - 1)
    <3>1. g[m - 1] \subseteq g[m] /\ g[m - 1] # g[m]
      BY <2>5, <2>8
    <3>2. Cardinality(g[m - 1]) < Cardinality(g[m])
      <4>1. g[m - 1] \in SUBSET g[m]
        BY <3>1
      <4>2. Cardinality(g[m - 1]) <= Cardinality(g[m]) /\ Cardinality(g[m - 1]) # Cardinality(g[m])
        BY <2>6, <3>1, <4>1, FS_Subset
      <4>3. Cardinality(g[m - 1]) \in Nat /\ Cardinality(g[m]) \in Nat
        BY <2>6, FS_CardinalityType
      <4> QED BY <4>2, <4>3
    <3>3. Cardinality(g[m - 1]) >= m /\ Cardinality(g[m - 1]) \in Nat /\ Cardinality(g[m]) \in Nat
      BY <2>3, <2>4, <2>6, <2>8, FS_CardinalityType
    <3>4. Cardinality(g[m]) >= m + 1
      BY <2>3, <3>2, <3>3
    <3> QED BY <2>1, <2>6, <3>4
  <2> QED BY <2>7, <2>8
<1>3. Grown(N)
  BY <1>0, <1>2
<1>4. Closed(N)
  <2>1. Cardinality(g[N]) <= N /\ Cardinality(g[N]) \in Nat
    BY <1>3, FS_Subset, FS_CardinalityType
  <2> HIDE DEF Closed
  <2> QED BY <1>0, <1>3, <2>1
<1> QED BY <1>1, <1>3, <1>4

(***************************************************************************)
(* Agents each of which depends on another of them: one depends on itself. *)
(***************************************************************************)
LEMMA SelfReach ==
  ASSUME IsFiniteSet(Nodes), \A d \in Nodes : Deps(d) \subseteq Nodes,
         NEW R \in SUBSET Nodes, R # {}, \A n \in R : Deps(n) \cap R # {}
  PROVE  \E n \in Nodes : n \in Reach(n)
<1> DEFINE D == { Reach(n) \cap R : n \in R }
<1>1. PICK T \in D : \A U \in D : U \subseteq T => U = T
  <2> D \subseteq SUBSET Nodes /\ D # {}
    OBVIOUS
  <2> HIDE DEF D
  <2> QED BY MinimalSubset
<1>2. PICK n \in R : T = Reach(n) \cap R
  OBVIOUS
<1>3. PICK d \in Deps(n) \cap R : TRUE
  OBVIOUS
<1>4. d \in Reach(n) /\ Reach(d) \subseteq Reach(n)
  <2>1. d \in Reach(n) /\ \A e \in Reach(n) : Deps(e) \subseteq Reach(n)
    BY <1>3, ReachClosed
  <2>2. Deps(d) \subseteq Reach(n) /\ Cardinality(Nodes) \in Nat
    BY <2>1, FS_CardinalityType
  <2> QED BY <2>1, <2>2, ReachInside
<1>5. Reach(d) \cap R = T
  BY <1>1, <1>2, <1>3, <1>4
<1>6. d \in Reach(d)
  BY <1>2, <1>3, <1>4, <1>5
<1> QED BY <1>3, <1>6

-----------------------------------------------------------------------------
(* Theorems.                                                               *)

(***************************************************************************)
(* Every step keeps the invariant.                                         *)
(***************************************************************************)
LEMMA InvStep == IInv /\ [Next]_vars => IInv'
BY TypesStep, SortStep, RunStep, OutStep, CostStep DEF IInv

(***************************************************************************)
(* The invariant holds of every orchestrator: types, counters and layers   *)
(* (dag.go topoSort), and the run of the layers (engine.go Execute).       *)
(***************************************************************************)
THEOREM LayersSound == Spec => []IInv
<1>1. Init => IInv
  BY InitInv
<1>2. IInv /\ [Next]_vars => IInv'
  BY InvStep
<1> QED BY <1>1, <1>2, PTL DEF Spec

(***************************************************************************)
(* The layers, the counters and the costs are always well formed           *)
(* (dag.go, engine.go).                                                    *)
(***************************************************************************)
THEOREM TypeCorrect == Spec => []TypeOK
<1>1. IInv => TypeOK
  <2> SUFFICES ASSUME RunTypes, SortInv PROVE TypeOK
    BY DEF IInv
  <2>1. DOMAIN inDegree \subseteq Names
    BY NodesTypes DEF SortInv, RunTypes
  <2>2. ASSUME NEW n \in DOMAIN inDegree PROVE inDegree[n] \in Nat
    <3>1. n \in Nodes /\ inDegree[n] = Cardinality(Outside(n, Placed))
      BY DEF SortInv
    <3>2. IsFiniteSet(Outside(n, Placed))
      BY <3>1, PlacesFinite, FS_Subset DEF Outside, RunTypes
    <3> QED BY <3>1, <3>2, FS_CardinalityType
  <2> QED BY <2>1, <2>2 DEF RunTypes, TypeOK
<1> QED BY <1>1, LayersSound, PTL

(***************************************************************************)
(* BuildDAG rejects as cyclic only graphs in which an agent depends on     *)
(* itself over some steps, accepts only those in which none does, and then *)
(* gives every agent one layer (dag.go BuildDAG, topoSort).                *)
(***************************************************************************)
THEOREM OnlyCyclesRejected == Spec => []CyclesRejected
<1>1. IInv => CyclesRejected
  <2> SUFFICES ASSUME RunTypes, SortInv PROVE CyclesRejected
    BY DEF IInv
  <2>0. IsFiniteSet(Nodes) /\ Cardinality(Nodes) \in Nat
    BY ReportedNat, FS_CardinalityType
  <2>1. ASSUME phase = "cycle" PROVE \E n \in Nodes : n \in Reach(n)
    <3> DEFINE R == Nodes \ Placed
    <3>1. /\ R # {} /\ DOMAIN inDegree = R /\ NextLayer = {}
          /\ \A n \in Nodes : Deps(n) \subseteq Nodes
          /\ \A n \in R : inDegree[n] = Cardinality(Outside(n, Placed))
      BY <2>1 DEF SortInv
    <3>2. ASSUME NEW n \in R PROVE Deps(n) \cap R # {}
      <4>1. Cardinality(Outside(n, Placed)) # 0
        BY <3>1 DEF NextLayer
      <4>2. PICK i \in DOMAIN DependsOn(n) : DependsOn(n)[i] \notin Placed
        BY <4>1, FS_EmptySet DEF Outside
      <4> QED BY <3>1, <4>2 DEF Deps
    <3> HIDE DEF R
    <3>3. R \in SUBSET Nodes
      BY DEF R
    <3> QED BY <2>0, <3>1, <3>2, <3>3, SelfReach
  <2>2. ASSUME phase \in AfterSort, NEW n \in Nodes PROVE n \notin Reach(n)
    <3>1. PICK i \in DOMAIN Layers : n \in Layers[i]
      BY <2>2 DEF SortInv, Placed
    <3>2. DOMAIN Layers \subseteq Nat
      BY LenProperties DEF RunTypes
    <3>3. ASSUME NEW d \in Before(i) PROVE Deps(d) \subseteq Before(i)
      <4>1. PICK j \in DOMAIN Layers : j < i /\ d \in Layers[j]
        BY DEF Before
      <4>2. Deps(d) \subseteq Before(j)
        BY <4>1 DEF SortInv
      <4>3. Before(j) \subseteq Before(i)
        BY <3>2, <4>1 DEF Before
      <4> QED BY <4>2, <4>3
    <3>4. Reach(n) \subseteq Before(i)
      <4> DEFINE S == Before(i)
      <4>1. Deps(n) \subseteq S /\ \A d \in S : Deps(d) \subseteq S
        BY <3>1, <3>3 DEF SortInv
      <4> HIDE DEF S
      <4>2. Reach(n) \subseteq S
        BY <2>0, <4>1, ReachInside
      <4> QED BY <4>2 DEF S
    <3>5. n \notin Before(i)
      BY <3>1, <3>2 DEF SortInv, Before
    <3> QED BY <3>4, <3>5
  <2>3. ASSUME phase \in AfterSort PROVE UNION Range(Layers) = Nodes
    BY <2>3 DEF SortInv, Placed, Range
  <2> QED BY <2>1, <2>2, <2>3 DEF CyclesRejected, SortInv, AfterSort
<1> QED BY <1>1, LayersSound, PTL

(***************************************************************************)
(* The total that is reported is exactly what was spent but for what       *)
(* agents that failed and agents used as tools have spent (engine.go       *)
(* Execute, executeChildAgent).                                            *)
(***************************************************************************)
THEOREM TotalsAddUp == Spec => []TotalsReported
<1>1. IInv => TotalsReported
  BY DEF IInv, CostInv
<1> QED BY <1>1, LayersSound, PTL

(***************************************************************************)
(* A started agent was given the outputs of exactly those dependencies     *)
(* that succeeded (engine.go buildAgentInput).                             *)
(***************************************************************************)
THEOREM PassedOnExactly == Spec => []OutputsPassedOn
<1>1. IInv => OutputsPassedOn
  BY DEF IInv, OutInv, OutputsPassedOn
<1> QED BY <1>1, LayersSound, PTL

(***************************************************************************)
(* The orchestrator implements the workflow: no agent starts before all    *)
(* its dependencies have ended, whatever the graph.                        *)
(***************************************************************************)
THEOREM EngineImplements == Spec => ImplementsWorkflow
<1> DEFINE graph == [n \in Names |-> IF n \in Nodes THEN Deps(n) ELSE {}]
<1>1. Init => WF!Init
  <2> SUFFICES ASSUME Init PROVE WF!Init
    OBVIOUS
  <2>1. agents \in Seq(Agent)
    BY OrchestratorAssumption DEF Init
  <2>2. graph \in [Names -> SUBSET Names]
    BY <2>1, NodesTypes
  <2> QED BY <2>2 DEF Init, WF!Init
<1>2. IInv /\ [Next]_vars => [WF!Next]_WF!vars
  <2> SUFFICES ASSUME IInv, [Next]_vars PROVE [WF!Next]_WF!vars
    OBVIOUS
  <2>1. agents' = agents
    BY Cases DEF IndexNodes, PeelLayer, Sorted, Execute, EndLayer, StartAgent,
                 FinishAgent, Synthesize, vars, dagVars
  <2>2. graph' = graph
    BY <2>1, GraphUnchanged
  <2>3. CASE agent' = agent
    BY <2>2, <2>3 DEF WF!vars
  <2>4. CASE Execute
    <3>1. agent' = [n \in Names |-> "todo"] /\ \A n \in Names : agent[n] # "running"
      BY <2>4 DEF Execute, FreshRun, IInv, RunInv
    <3> QED BY <2>2, <3>1 DEF WF!Next, WF!Reset
  <2>5. ASSUME NEW n \in Names, StartAgent(n) PROVE WF!Next
    <3>1. agent[n] = "todo" /\ agent' = [agent EXCEPT ![n] = "running"]
      BY <2>5 DEF StartAgent
    <3>2. \A d \in graph[n] : agent[d] = "ended"
      BY <2>5, Starting
    <3>3. WF!Start(n)
      BY <3>1, <3>2 DEF WF!Start
    <3> QED BY <2>2, <3>3 DEF WF!Next
  <2>6. ASSUME NEW n \in Names, NEW ok \in BOOLEAN, NEW c \in 0..MaxCost,
               NEW t \in 0..MaxCost, FinishAgent(n, ok, c, t)
        PROVE  WF!Next
    <3>1. WF!End(n)
      BY <2>6 DEF FinishAgent, WF!End
    <3> QED BY <2>2, <3>1 DEF WF!Next
  <2>7. IndexNodes \/ PeelLayer \/ Sorted \/ EndLayer \/ UNCHANGED vars
          => agent' = agent
    BY DEF IndexNodes, PeelLayer, Sorted, EndLayer, vars, runVars
  <2>8. \A ok \in BOOLEAN, c \in 0..MaxCost : Synthesize(ok, c) => agent' = agent
    BY DEF Synthesize
  <2> QED BY <2>3, <2>4, <2>5, <2>6, <2>7, <2>8, Cases
<1> QED BY <1>1, <1>2, LayersSound, PTL DEF Spec, ImplementsWorkflow, WF!Spec

-----------------------------------------------------------------------------
(* The providers.                                                          *)

ToolCall == [id : Nat \X Nat, parts : Nat]
Messages ==
  [role : {"user", "assistant", "results", "tool"}, ids : Seq(Nat \X Nat), cut : BOOLEAN]

SentRecord ==
  [begun : BOOLEAN, open : {"no", "text", "call"}, text : Nat, calls : Seq(Nat), usage : BOOLEAN]
AccRecord == [open : Nat, parts : Seq(Nat), calls : Seq(ToolCall), usage : 0..Whole]

ProviderTypes ==
  /\ kind \in {"anthropic", "openai", "ollama"} /\ streaming \in BOOLEAN
  /\ pc \in {"idle", "post", "body", "stream", "done", "over", "error"}
  /\ turn \in Nat
  /\ httpTry \in 0..maxRetries /\ streamTry \in 0..maxRetries
  /\ answer \in [text : Nat, calls : Seq(Nat \ {0})]
  /\ ended \in BOOLEAN
  /\ sent \in SentRecord /\ acc \in AccRecord
  /\ response \in [calls : Seq(ToolCall), usage : 0..Whole]
  /\ heard \in Seq(Nat \X Nat)
  /\ history \in Seq(Messages) /\ history # << >>
  /\ request \in Seq(Messages)

\* Each call that was not left open is answered by a message of its own at its place
\* after the asking one, and no other message is a tool's.
Answered(messages) ==
  /\ \A p \in DOMAIN messages : messages[p].role = "assistant" /\ ~messages[p].cut =>
       \A i \in DOMAIN messages[p].ids :
         p + i \in DOMAIN messages /\ messages[p + i] = ToolMessage(messages[p].ids[i])
  /\ \A q \in DOMAIN messages : messages[q].role = "tool" =>
       \E p \in 1..(q - 1) :
         /\ messages[p].role = "assistant" /\ ~messages[p].cut
         /\ q - p \in DOMAIN messages[p].ids

\* The history as this provider takes it answers all its calls, now and when it is sent.
MessagesInv ==
  /\ convertMessages(history) \in Seq(Messages)
  /\ kind # "anthropic" => Answered(convertMessages(history)) /\ Answered(request)

\* What the server keeps to in a stream.
Sending ==
  /\ sent.text \leq answer.text
  /\ Len(sent.calls) \leq Len(answer.calls)
  /\ \A i \in 1..Len(sent.calls) : sent.calls[i] \leq answer.calls[i]
  /\ sent.open = "call" => Len(sent.calls) > 0
  /\ kind # "anthropic" => sent.open = "no"
  /\ sent.usage => AllSent
  /\ ended => sent.usage

\* What the parser has, of what was sent.
Assembling ==
  /\ sent.usage => acc.usage = Whole
  /\ \A i \in 1..Len(acc.calls) : acc.calls[i] = [id |-> CallId(i), parts |-> answer.calls[i]]
  /\ kind = "anthropic" =>
       IF sent.open = "call"
         THEN /\ acc.open = Len(sent.calls) /\ Len(acc.calls) = Len(sent.calls) - 1
              /\ Len(acc.parts) = 1 /\ acc.parts[1] = sent.calls[Len(sent.calls)]
         ELSE acc.open = 0 /\ Len(acc.calls) = Len(sent.calls)
  /\ kind = "openai" => acc.parts = sent.calls
  /\ kind = "ollama" =>
       /\ acc.open \in {0, 1} /\ Len(acc.calls) \leq Len(sent.calls)
       /\ acc.open = 0 => sent.calls = << >> /\ acc.calls = << >>
       /\ acc.open = 1 => Len(acc.calls) > 0

StreamInv == pc = "stream" => Sending /\ Assembling

\* The first half of HeardByAttempt; that all pieces are of earlier attempts; that
\* the last k are of this one.
Pieces ==
  \A n \in DOMAIN heard :
    /\ heard[n][1] \leq streamTry /\ heard[n][2] \leq answer.text
    /\ \/ heard[n][2] = 1 /\ (n > 1 => heard[n - 1][1] < heard[n][1])
       \/ n > 1 /\ heard[n] = <<heard[n - 1][1], heard[n - 1][2] + 1>>

Earlier(h) == \A n \in DOMAIN h : h[n][1] < streamTry

EndsWith(h, k) ==
  Len(h) \geq k /\ \A j \in 1..k : h[Len(h) - k + j] = <<streamTry, j>>

HeardInv ==
  /\ Pieces
  /\ pc = "post" => Earlier(heard)
  /\ pc = "body" => ~streaming
  /\ pc = "stream" => EndsWith(heard, sent.text) /\ (sent.text = 0 => Earlier(heard))
  /\ pc = "done" /\ ended /\ streaming => EndsWith(heard, answer.text)

\* The inductive invariant of the providers.
ProviderInv == ProviderTypes /\ MessagesInv /\ StreamInv /\ CallsWhole /\ HeardInv

-----------------------------------------------------------------------------
(* Flattening.                                                             *)

\* The recursive function inside FlattenSeq, up to n sequences.
IsFlattening(f, s, n) == f = [i \in 1..n |-> IF i = 1 THEN s[i] ELSE f[i - 1] \o s[i]]

(***************************************************************************)
(* There is such a function: one for fewer sequences can be extended.      *)
(***************************************************************************)
LEMMA FlatteningExists ==
  ASSUME NEW s, NEW N \in Nat
  PROVE  \E f : IsFlattening(f, s, N)
<1> DEFINE C == { m \in 0..N : ~ \E f : IsFlattening(f, s, m) }
<1> SUFFICES ASSUME C # {} PROVE FALSE
  OBVIOUS
<1>1. PICK m \in C : \A k \in C : m <= k
  <2> C \subseteq 0..N
    OBVIOUS
  <2> HIDE DEF C
  <2> QED BY LeastNumber
<1>2. m # 0
  <2> DEFINE f == [k \in 1..0 |-> s[k]]
  <2>1. IsFlattening(f, s, 0)
    <3>1. 1..0 = {}
      OBVIOUS
    <3> QED BY <3>1 DEF IsFlattening
  <2> QED BY <1>1, <2>1
<1>3. m \in Nat /\ m - 1 \in 0..N /\ m - 1 \notin C
  BY <1>1, <1>2
<1>4. PICK g : IsFlattening(g, s, m - 1)
  BY <1>3
<1> DEFINE last == IF m = 1 THEN s[m] ELSE g[m - 1] \o s[m]
           h == [k \in 1..m |-> IF k = m THEN last ELSE g[k]]
           f == [k \in 1..m |-> IF k = 1 THEN s[k] ELSE h[k - 1] \o s[k]]
<1>5. \A k \in 1..(m - 1) : h[k] = g[k]
  <2> HIDE DEF last
  <2> QED BY <1>3
<1>6. ASSUME NEW k \in 1..m PROVE h[k] = f[k]
  <2>1. f[k] = IF k = 1 THEN s[k] ELSE h[k - 1] \o s[k]
    <3> HIDE DEF h
    <3> QED OBVIOUS
  <2>2. CASE k = m
    <3>1. h[k] = last
      <4> HIDE DEF last
      <4> QED BY <2>2
    <3>2. m # 1 => h[m - 1] = g[m - 1]
      <4> HIDE DEF h
      <4> QED BY <1>2, <1>3, <1>5
    <3> HIDE DEF h, f
    <3> QED BY <2>1, <2>2, <3>1, <3>2
  <2>3. CASE k # m
    <3>1. k \in 1..(m - 1) /\ (k # 1 => k - 1 \in 1..(m - 1))
      BY <1>3, <2>3
    <3>2. h[k] = g[k] /\ (k # 1 => h[k - 1] = g[k - 1])
      <4> HIDE DEF h
      <4> QED BY <1>5, <3>1
    <3>3. g[k] = IF k = 1 THEN s[k] ELSE g[k - 1] \o s[k]
      BY <1>4, <3>1 DEF IsFlattening
    <3> HIDE DEF h, f
    <3> QED BY <2>1, <3>2, <3>3
  <2> QED BY <2>2, <2>3
<1>7. h = f
  <2>1. h = [k \in 1..m |-> h[k]]
    <3> HIDE DEF last
    <3> QED OBVIOUS
  <2>2. f = [k \in 1..m |-> f[k]]
    <3> HIDE DEF h
    <3> QED OBVIOUS
  <2> HIDE DEF h, f
  <2> QED BY <1>6, <2>1, <2>2
<1>8. IsFlattening(h, s, m)
  <2>1. h = [k \in 1..m |-> IF k = 1 THEN s[k] ELSE h[k - 1] \o s[k]]
    <3> HIDE DEF h
    <3> QED BY <1>7
  <2> HIDE DEF h, f
  <2> QED BY <2>1 DEF IsFlattening
<1> QED BY <1>1, <1>8

(***************************************************************************)
(* It is the same for sequences that begin the same way.                   *)
(***************************************************************************)
LEMMA FlatteningsAgree ==
  ASSUME NEW s, NEW t, NEW n \in Nat, NEW m \in Nat, n <= m,
         NEW g, NEW f, IsFlattening(g, s, n), IsFlattening(f, t, m),
         \A i \in 1..n : t[i] = s[i]
  PROVE  \A i \in 1..n : f[i] = g[i]
<1> DEFINE C == { i \in 1..n : f[i] # g[i] }
<1> SUFFICES ASSUME C # {} PROVE FALSE
  OBVIOUS
<1>1. PICK i \in C : \A k \in C : i <= k
  <2> C \subseteq 0..n
    OBVIOUS
  <2> HIDE DEF C
  <2> QED BY LeastNumber
<1>2. i \in 1..n /\ i \in 1..m /\ f[i] # g[i]
  BY <1>1
<1>3. f[i] = (IF i = 1 THEN t[i] ELSE f[i - 1] \o t[i]) /\ g[i] = (IF i = 1 THEN s[i] ELSE g[i - 1] \o s[i])
  BY <1>2 DEF IsFlattening
<1>4. i # 1 => i - 1 \in 1..n /\ i - 1 \notin C
  BY <1>1, <1>2
<1> QED BY <1>2, <1>3, <1>4

(***************************************************************************)
(* So FlattenSeq is the last value of one.                                 *)
(***************************************************************************)
LEMMA FlattenIs ==
  ASSUME NEW s, Len(s) \in Nat \ {0}
  PROVE  \E f : IsFlattening(f, s, Len(s)) /\ FlattenSeq(s) = f[Len(s)]
<1>1. \E f : IsFlattening(f, s, Len(s))
  BY FlatteningExists
<1>2. FlattenSeq(s) = (CHOOSE f : IsFlattening(f, s, Len(s)))[Len(s)]
  BY DEF FlattenSeq, IsFlattening
<1> QED BY <1>1, <1>2

(***************************************************************************)
(* One sequence alone is itself.                                           *)
(***************************************************************************)
LEMMA FlattenOne ==
  ASSUME NEW x
  PROVE  FlattenSeq(<<x>>) = x
<1> DEFINE s == <<x>>
<1>1. Len(s) = 1 /\ s[1] = x /\ Len(s) \in Nat \ {0}
  OBVIOUS
<1> HIDE DEF s
<1>2. PICK f : IsFlattening(f, s, Len(s)) /\ FlattenSeq(s) = f[Len(s)]
  BY <1>1, FlattenIs
<1>3. f[1] = s[1]
  BY <1>1, <1>2 DEF IsFlattening
<1> QED BY <1>1, <1>2, <1>3 DEF s

(***************************************************************************)
(* A further sequence is appended to those before it.                      *)
(***************************************************************************)
LEMMA FlattenAppend ==
  ASSUME NEW S, NEW s \in Seq(S), s # << >>, NEW x \in S
  PROVE  FlattenSeq(Append(s, x)) = FlattenSeq(s) \o x
<1> DEFINE t == Append(s, x)
           n == Len(s)
<1>1. n \in Nat \ {0} /\ Len(t) = n + 1 /\ t[n + 1] = x /\ \A i \in 1..n : t[i] = s[i]
  OBVIOUS
<1> HIDE DEF t
<1>2. PICK g : IsFlattening(g, s, n) /\ FlattenSeq(s) = g[n]
  BY <1>1, FlattenIs
<1>3. PICK f : IsFlattening(f, t, n + 1) /\ FlattenSeq(t) = f[n + 1]
  BY <1>1, FlattenIs
<1>4. f[n] = g[n]
  <2> HIDE DEF n
  <2>1. n <= n + 1 /\ n \in 1..n /\ n + 1 \in Nat
    BY <1>1
  <2> QED BY <1>1, <1>2, <1>3, <2>1, FlatteningsAgree
<1>5. f[n + 1] = f[n] \o t[n + 1]
  <2> HIDE DEF n
  <2>1. n + 1 \in 1..(n + 1) /\ n + 1 # 1 /\ (n + 1) - 1 = n
    BY <1>1
  <2> QED BY <1>3, <2>1 DEF IsFlattening
<1> QED BY <1>1, <1>2, <1>3, <1>4, <1>5 DEF t

-----------------------------------------------------------------------------
(* The messages.                                                           *)

(***************************************************************************)
(* A message becomes a sequence of messages.                               *)
(***************************************************************************)
LEMMA ConvertedMessages ==
  ASSUME NEW m \in Messages
  PROVE  ConvertMessage(m) \in Seq(Messages)
<1>1. \A id \in Nat \X Nat : ToolMessage(id) \in Messages
  <2>1. << >> \in Seq(Nat \X Nat) /\ \A id \in Nat \X Nat : <<id>> \in Seq(Nat \X Nat)
    OBVIOUS
  <2>2. ASSUME NEW id \in Nat \X Nat, NEW s \in Seq(Nat \X Nat)
        PROVE  Message("tool", s, FALSE) \in Messages
    BY DEF Message, Messages
  <2> QED BY <2>1, <2>2 DEF ToolMessage
<1>2. m.ids \in Seq(Nat \X Nat)
  BY DEF Messages
<1>3. [i \in DOMAIN m.ids |-> ToolMessage(m.ids[i])] \in Seq(Messages)
  <2>1. \A i \in 1..Len(m.ids) : ToolMessage(m.ids[i]) \in Messages
    BY <1>1, <1>2
  <2>2. DOMAIN m.ids = 1..Len(m.ids) /\ Len(m.ids) \in Nat
    BY <1>2
  <2> HIDE DEF Messages
  <2> QED BY <2>1, <2>2, IsASeq
<1>4. <<m>> \in Seq(Messages)
  OBVIOUS
<1> QED BY <1>3, <1>4 DEF ConvertMessage

(***************************************************************************)
(* What Append gives.                                                      *)
(***************************************************************************)
LEMMA AppendTyped ==
  ASSUME NEW S, NEW s \in Seq(S), NEW x \in S
  PROVE  Append(s, x) \in Seq(S) /\ Append(s, x) # << >>
<1>1. Append(s, x) \in Seq(S)
  OBVIOUS
<1>2. Len(Append(s, x)) = Len(s) + 1 /\ Len(s) \in Nat /\ Len(<< >>) = 0
  OBVIOUS
<1> QED BY <1>1, <1>2

(***************************************************************************)
(* One more message in the history is converted behind the others.         *)
(***************************************************************************)
LEMMA ConvertMore ==
  ASSUME NEW h \in Seq(Messages), h # << >>, NEW a \in Messages
  PROVE  convertMessages(Append(h, a)) = convertMessages(h) \o ConvertMessage(a)
<1> DEFINE each(ms) == [i \in DOMAIN ms |-> ConvertMessage(ms[i])]
           n == Len(h)
<1>1. each(h) \in Seq(Seq(Messages)) /\ each(h) # << >> /\ Len(each(h)) = n
  <2>1. \A i \in 1..n : ConvertMessage(h[i]) \in Seq(Messages)
    BY ConvertedMessages
  <2>2. DOMAIN h = 1..n /\ n \in Nat \ {0}
    OBVIOUS
  <2>3. each(h) \in Seq(Seq(Messages)) /\ Len(each(h)) = n
    BY <2>1, <2>2, IsASeq
  <2> QED BY <2>2, <2>3
<1>2. ConvertMessage(a) \in Seq(Messages)
  BY ConvertedMessages
<1> DEFINE one == Append(each(h), ConvertMessage(a))
           t == Append(h, a)
<1>3. each(t) = one
  <2>1. n \in Nat /\ DOMAIN t = 1..(n + 1) /\ t[n + 1] = a /\ \A i \in 1..n : t[i] = h[i]
    OBVIOUS
  <2>2. \A i \in 1..n : each(h)[i] = ConvertMessage(h[i])
    OBVIOUS
  <2>3. /\ one = [i \in 1..(n + 1) |-> one[i]]
        /\ one[n + 1] = ConvertMessage(a) /\ \A i \in 1..n : one[i] = each(h)[i]
    <3> DEFINE e == each(h)
    <3>1. e \in Seq(Seq(Messages)) /\ Len(e) = n
      BY <1>1
    <3> HIDE DEF e, Messages
    <3>2. one = Append(e, ConvertMessage(a))
      BY DEF e
    <3> HIDE DEF one
    <3>3. /\ one \in Seq(Seq(Messages)) /\ Len(one) = n + 1 /\ one[n + 1] = ConvertMessage(a)
          /\ \A i \in 1..n : one[i] = e[i]
      <4> DEFINE c == ConvertMessage(a)
                 C == Seq(Messages)
      <4>1. c \in C /\ e \in Seq(C) /\ one = Append(e, c) /\ n \in Nat
        BY <1>2, <2>1, <3>1, <3>2
      <4> HIDE DEF c, C, n
      <4> QED BY <3>1, <4>1 DEF c, C
    <3>4. one = [i \in 1..(n + 1) |-> one[i]]
      <4> HIDE DEF n
      <4> QED BY <2>1, <3>3
    <3> QED BY <3>3, <3>4 DEF e
  <2>4. each(t) = [i \in 1..(n + 1) |-> ConvertMessage(t[i])]
    BY <2>1
  <2>5. \A i \in 1..(n + 1) : one[i] = ConvertMessage(t[i])
    <3>1. \A i \in 1..n : one[i] = ConvertMessage(t[i])
      <4> HIDE DEF one, each, t, n
      <4> QED BY <2>1, <2>2, <2>3
    <3> HIDE DEF one, each, t, n
    <3>2. one[n + 1] = ConvertMessage(t[n + 1])
      BY <2>1, <2>3
    <3>3. \A i \in 1..(n + 1) : i \in 1..n \/ i = n + 1
      BY <2>1
    <3> QED BY <3>1, <3>2, <3>3, Zenon
  <2> HIDE DEF one, each, t
  <2> QED BY <2>3, <2>4, <2>5
<1>4. FlattenSeq(one) = FlattenSeq(each(h)) \o ConvertMessage(a)
  <2> HIDE DEF each
  <2> QED BY <1>1, <1>2, FlattenAppend
<1> HIDE DEF one
<1> QED BY <1>3, <1>4 DEF convertMessages

(***************************************************************************)
(* The first message is taken as it is.                                    *)
(***************************************************************************)
LEMMA ConvertFirst ==
  ASSUME NEW m \in Messages, m.role = "user"
  PROVE  convertMessages(<<m>>) = <<m>>
<1> DEFINE h == <<m>>
<1>1. DOMAIN h = {1} /\ h[1] = m
  OBVIOUS
<1>2. ConvertMessage(m) = <<m>>
  BY DEF ConvertMessage
<1>3. [i \in DOMAIN h |-> ConvertMessage(h[i])] = <<ConvertMessage(m)>>
  <2>1. \A x : <<x>> = [i \in {1} |-> x]
    OBVIOUS
  <2>2. [i \in DOMAIN h |-> ConvertMessage(h[i])] = [i \in {1} |-> ConvertMessage(m)]
    <3> HIDE DEF h
    <3> QED BY <1>1
  <2> QED BY <2>1, <2>2
<1> HIDE DEF h
<1> QED BY <1>2, <1>3, FlattenOne DEF convertMessages, h

(***************************************************************************)
(* A message that asks for nothing, or whose calls are left open, may      *)
(* follow messages that are answered.                                      *)
(***************************************************************************)
LEMMA PlainFollows ==
  ASSUME NEW r \in Seq(Messages), Answered(r), NEW m \in Messages,
         m.role = "user" \/ (m.role = "assistant" /\ (m.cut \/ m.ids = << >>))
  PROVE  Answered(r \o ConvertMessage(m))
<1> DEFINE n == Len(r)
           t == r \o <<m>>
<1>1. ConvertMessage(m) = <<m>>
  BY DEF ConvertMessage
<1>2. /\ n \in Nat /\ DOMAIN r = 1..n /\ DOMAIN t = 1..(n + 1)
      /\ t[n + 1] = m /\ \A i \in 1..n : t[i] = r[i]
  <2> HIDE DEF Messages
  <2> QED OBVIOUS
<1> HIDE DEF t, n
<1>3. ASSUME NEW p \in DOMAIN t, t[p].role = "assistant", ~t[p].cut, NEW i \in DOMAIN t[p].ids
      PROVE  p + i \in DOMAIN t /\ t[p + i] = ToolMessage(t[p].ids[i])
  <2>1. p # n + 1
    BY <1>2, <1>3
  <2>2. p \in DOMAIN r /\ t[p] = r[p]
    BY <1>2, <2>1
  <2>3. p + i \in DOMAIN r /\ r[p + i] = ToolMessage(r[p].ids[i])
    BY <1>3, <2>2 DEF Answered
  <2> QED BY <1>2, <2>2, <2>3
<1>4. ASSUME NEW q \in DOMAIN t, t[q].role = "tool"
      PROVE  \E p \in 1..(q - 1) :
               t[p].role = "assistant" /\ ~t[p].cut /\ q - p \in DOMAIN t[p].ids
  <2>1. q # n + 1
    BY <1>2, <1>4
  <2>2. q \in DOMAIN r /\ t[q] = r[q]
    BY <1>2, <2>1
  <2>3. PICK p \in 1..(q - 1) :
          r[p].role = "assistant" /\ ~r[p].cut /\ q - p \in DOMAIN r[p].ids
    BY <1>4, <2>2 DEF Answered
  <2>4. t[p] = r[p]
    BY <1>2, <2>2
  <2> QED BY <2>3, <2>4
<1> QED BY <1>1, <1>3, <1>4 DEF Answered, t

(***************************************************************************)
(* A message that asks and the results of its calls, converted behind      *)
(* messages that are answered, are answered too.                           *)
(***************************************************************************)
LEMMA AnswersFollow ==
  ASSUME NEW r \in Seq(Messages), Answered(r), kind # "anthropic",
         NEW said \in Messages, NEW next \in Messages,
         said.role = "assistant", ~said.cut, next.role = "results", next.ids = said.ids
  PROVE  Answered((r \o ConvertMessage(said)) \o ConvertMessage(next))
<1> DEFINE n == Len(r)
           ids == said.ids
           k == Len(ids)
           tail == ConvertMessage(next)
           t == (r \o <<said>>) \o tail
<1>1. ConvertMessage(said) = <<said>>
  BY DEF ConvertMessage
<1>2. tail \in Seq(Messages)
  BY ConvertedMessages
<1>3. n \in Nat /\ k \in Nat /\ DOMAIN ids = 1..k
  BY DEF Messages
<1>4. Len(tail) = k /\ \A j \in 1..k : tail[j] = ToolMessage(ids[j])
  <2>1. tail = [i \in 1..k |-> ToolMessage(ids[i])]
    BY <1>3 DEF ConvertMessage
  <2> HIDE DEF tail, k, ids
  <2> QED BY <1>2, <1>3, <2>1
<1>5. /\ Len(t) = n + 1 + k /\ DOMAIN t = 1..Len(t) /\ DOMAIN r = 1..n
      /\ \A i \in 1..n : t[i] = r[i]
      /\ t[n + 1] = said
      /\ \A j \in 1..k : t[n + 1 + j] = ToolMessage(ids[j])
  <2>1. Len(tail) = k /\ \A j \in 1..k : tail[j] = ToolMessage(ids[j])
    BY <1>4
  <2>2. /\ Len(t) = n + 1 + Len(tail) /\ DOMAIN t = 1..Len(t) /\ DOMAIN r = 1..n
        /\ \A i \in 1..n : t[i] = r[i]
        /\ t[n + 1] = said
        /\ \A j \in 1..Len(tail) : t[n + 1 + j] = tail[j]
    <3> HIDE DEF tail, Messages, ids
    <3> QED BY <1>2
  <2> HIDE DEF tail, Messages, ids, t, n, k
  <2> QED BY <2>1, <2>2
<1>6. \A id : ToolMessage(id).role = "tool"
  BY DEF ToolMessage, Message
<1> HIDE DEF t, tail, n, k
<1>7. ASSUME NEW p \in DOMAIN t, t[p].role = "assistant", ~t[p].cut, NEW i \in DOMAIN t[p].ids
      PROVE  p + i \in DOMAIN t /\ t[p + i] = ToolMessage(t[p].ids[i])
  <2>1. CASE p \in 1..n
    <3>1. t[p] = r[p] /\ p \in DOMAIN r
      BY <1>5, <2>1
    <3>2. p + i \in DOMAIN r /\ r[p + i] = ToolMessage(r[p].ids[i])
      BY <1>7, <3>1 DEF Answered
    <3> QED BY <1>3, <1>5, <3>1, <3>2
  <2>2. CASE p = n + 1
    BY <1>3, <1>5, <1>7, <2>2
  <2>3. CASE p \notin 1..(n + 1)
    <3>1. p - (n + 1) \in 1..k /\ t[p] = ToolMessage(ids[p - (n + 1)])
      BY <1>3, <1>5, <2>3
    <3> QED BY <1>6, <1>7, <3>1
  <2> QED BY <1>3, <2>1, <2>2, <2>3
<1>8. ASSUME NEW q \in DOMAIN t, t[q].role = "tool"
      PROVE  \E p \in 1..(q - 1) :
               t[p].role = "assistant" /\ ~t[p].cut /\ q - p \in DOMAIN t[p].ids
  <2>1. CASE q \in 1..n
    <3>1. t[q] = r[q] /\ q \in DOMAIN r
      BY <1>5, <2>1
    <3>2. PICK p \in 1..(q - 1) :
            r[p].role = "assistant" /\ ~r[p].cut /\ q - p \in DOMAIN r[p].ids
      BY <1>8, <3>1 DEF Answered
    <3>3. t[p] = r[p]
      BY <1>3, <1>5, <2>1, <3>2
    <3> QED BY <3>2, <3>3
  <2>2. CASE q = n + 1
    BY <1>5, <1>8, <2>2
  <2>3. CASE q \notin 1..(n + 1)
    <3>1. n + 1 \in 1..(q - 1) /\ q - (n + 1) \in 1..k
      BY <1>3, <1>5, <2>3
    <3> QED BY <1>3, <1>5, <3>1
  <2> QED BY <1>3, <2>1, <2>2, <2>3
<1> QED BY <1>1, <1>7, <1>8 DEF Answered, t, tail

-----------------------------------------------------------------------------
(* Types.                                                                  *)

(***************************************************************************)
(* The fields of what the model says.                                      *)
(***************************************************************************)
LEMMA AnswerFields ==
  ASSUME ProviderTypes
  PROVE  /\ answer.text \in Nat /\ answer.calls \in Seq(Nat)
         /\ Len(answer.calls) \in Nat /\ DOMAIN answer.calls = 1..Len(answer.calls)
         /\ \A i \in 1..Len(answer.calls) : answer.calls[i] \in Nat \ {0}
<1>1. answer.text \in Nat /\ answer.calls \in Seq(Nat \ {0})
  BY DEF ProviderTypes
<1>2. ASSUME NEW s \in Seq(Nat \ {0})
      PROVE  /\ s \in Seq(Nat) /\ Len(s) \in Nat /\ DOMAIN s = 1..Len(s)
             /\ \A i \in 1..Len(s) : s[i] \in Nat \ {0}
  OBVIOUS
<1> QED BY <1>1, <1>2

(***************************************************************************)
(* The fields of what the server sent.                                     *)
(***************************************************************************)
LEMMA SentFields ==
  ASSUME NEW s \in SentRecord
  PROVE  /\ s.begun \in BOOLEAN /\ s.open \in {"no", "text", "call"} /\ s.text \in Nat
         /\ s.calls \in Seq(Nat) /\ s.usage \in BOOLEAN
         /\ \A i \in 1..Len(s.calls) : s.calls[i] \in Nat
         /\ Len(s.calls) \in Nat /\ DOMAIN s.calls = 1..Len(s.calls)
<1>1. /\ s.begun \in BOOLEAN /\ s.open \in {"no", "text", "call"} /\ s.text \in Nat
      /\ s.calls \in Seq(Nat) /\ s.usage \in BOOLEAN
  BY DEF SentRecord
<1> QED BY <1>1

(***************************************************************************)
(* What the server sends changes one or two of them.                       *)
(***************************************************************************)
LEMMA SentUpdates ==
  ASSUME NEW s \in SentRecord
  PROVE  /\ [s EXCEPT !.begun = TRUE] \in SentRecord
         /\ [s EXCEPT !.usage = TRUE] \in SentRecord
         /\ [s EXCEPT !.open = "no"] \in SentRecord
         /\ [s EXCEPT !.open = "text"] \in SentRecord
         /\ \A n \in Nat : [s EXCEPT !.text = n] \in SentRecord
         /\ \A c \in Seq(Nat) : [s EXCEPT !.calls = c] \in SentRecord
         /\ \A c \in Seq(Nat) : [s EXCEPT !.open = "call", !.calls = c] \in SentRecord
BY DEF SentRecord

(***************************************************************************)
(* The fields of what the parser has.                                      *)
(***************************************************************************)
LEMMA AccFields ==
  ASSUME NEW a \in AccRecord
  PROVE  /\ a.open \in Nat /\ a.parts \in Seq(Nat) /\ a.calls \in Seq(ToolCall)
         /\ a.usage \in 0..Whole
         /\ \A i \in 1..Len(a.parts) : a.parts[i] \in Nat
         /\ Len(a.parts) \in Nat /\ DOMAIN a.parts = 1..Len(a.parts)
         /\ Len(a.calls) \in Nat /\ DOMAIN a.calls = 1..Len(a.calls)
<1>1. /\ a.open \in Nat /\ a.parts \in Seq(Nat) /\ a.calls \in Seq(ToolCall)
      /\ a.usage \in 0..Whole
  BY DEF AccRecord
<1> QED BY <1>1

(***************************************************************************)
(* What the parser reads changes one or two of them.                       *)
(***************************************************************************)
LEMMA AccUpdates ==
  ASSUME NEW a \in AccRecord
  PROVE  /\ \A u \in 0..Whole : [a EXCEPT !.usage = u] \in AccRecord
         /\ \A q \in Seq(Nat) : [a EXCEPT !.parts = q] \in AccRecord
         /\ \A o \in Nat : \A q \in Seq(Nat) : [a EXCEPT !.open = o, !.parts = q] \in AccRecord
         /\ \A o \in Nat : \A c \in Seq(ToolCall) : [a EXCEPT !.open = o, !.calls = c] \in AccRecord
BY DEF AccRecord

(***************************************************************************)
(* Ids of calls.                                                           *)
(***************************************************************************)
LEMMA CallIds ==
  ASSUME ProviderTypes, NEW i \in Nat
  PROVE  CallId(i) \in Nat \X Nat
BY DEF CallId, ProviderTypes

(***************************************************************************)
(* A call is its id and the pieces of its arguments.                       *)
(***************************************************************************)
LEMMA ToolCallOf ==
  ASSUME NEW id \in Nat \X Nat, NEW parts \in Nat
  PROVE  [id |-> id, parts |-> parts] \in ToolCall
BY DEF ToolCall

(***************************************************************************)
(* The calls of the answer, as a response should have them.                *)
(***************************************************************************)
LEMMA AnswerCallsTyped ==
  ASSUME ProviderTypes
  PROVE  /\ AnswerCalls \in Seq(ToolCall) /\ Len(AnswerCalls) = Len(answer.calls)
         /\ \A i \in 1..Len(answer.calls) :
              AnswerCalls[i] = [id |-> CallId(i), parts |-> answer.calls[i]]
<1> DEFINE n == Len(answer.calls)
<1>1. n \in Nat /\ DOMAIN answer.calls = 1..n /\ \A i \in 1..n : answer.calls[i] \in Nat
  BY AnswerFields
<1>2. ASSUME NEW i \in 1..n PROVE [id |-> CallId(i), parts |-> answer.calls[i]] \in ToolCall
  <2> HIDE DEF n
  <2>1. i \in Nat /\ answer.calls[i] \in Nat
    BY <1>1
  <2>2. CallId(i) \in Nat \X Nat
    BY <2>1, CallIds
  <2> QED BY <2>1, <2>2, ToolCallOf
<1>3. AnswerCalls = [i \in 1..n |-> [id |-> CallId(i), parts |-> answer.calls[i]]]
  BY <1>1 DEF AnswerCalls
<1> HIDE DEF n
<1>4. AnswerCalls \in Seq(ToolCall) /\ Len(AnswerCalls) = n
  BY <1>1, <1>2, <1>3
<1> QED BY <1>3, <1>4 DEF n

(***************************************************************************)
(* The calls that a parser hands out; OpenAI's are made at the end.        *)
(***************************************************************************)
LEMMA AssembledTyped ==
  ASSUME ProviderTypes
  PROVE  /\ Assembled \in Seq(ToolCall)
         /\ kind = "openai" =>
              /\ Len(Assembled) = Len(acc.parts)
              /\ \A i \in 1..Len(acc.parts) :
                   Assembled[i] = [id |-> CallId(i), parts |-> acc.parts[i]]
<1> DEFINE n == Len(acc.parts)
<1>1. /\ n \in Nat /\ DOMAIN acc.parts = 1..n /\ acc.calls \in Seq(ToolCall)
      /\ \A i \in 1..n : acc.parts[i] \in Nat
  BY AccFields DEF ProviderTypes
<1>2. ASSUME NEW i \in 1..n PROVE [id |-> CallId(i), parts |-> acc.parts[i]] \in ToolCall
  <2> HIDE DEF n
  <2>1. i \in Nat /\ acc.parts[i] \in Nat
    BY <1>1
  <2>2. CallId(i) \in Nat \X Nat
    BY <2>1, CallIds
  <2> QED BY <2>1, <2>2, ToolCallOf
<1>3. CASE kind = "openai"
  <2>1. Assembled = [i \in 1..n |-> [id |-> CallId(i), parts |-> acc.parts[i]]]
    BY <1>1, <1>3 DEF Assembled
  <2> HIDE DEF n
  <2>2. Assembled \in Seq(ToolCall) /\ Len(Assembled) = n
    BY <1>1, <1>2, <2>1
  <2> QED BY <2>1, <2>2 DEF n
<1>4. CASE kind # "openai"
  BY <1>1, <1>4 DEF Assembled
<1> QED BY <1>3, <1>4

(***************************************************************************)
(* The ids of a sequence of calls.                                         *)
(***************************************************************************)
LEMMA IdsTyped ==
  ASSUME NEW calls \in Seq(ToolCall)
  PROVE  /\ Ids(calls) \in Seq(Nat \X Nat) /\ Len(Ids(calls)) = Len(calls)
         /\ \A i \in 1..Len(calls) : Ids(calls)[i] = calls[i].id
         /\ Ids(calls) = << >> <=> calls = << >>
<1>1. \A i \in 1..Len(calls) : calls[i].id \in Nat \X Nat
  <2>1. \A c \in ToolCall : c.id \in Nat \X Nat
    BY DEF ToolCall
  <2> QED BY <2>1
<1>2. Ids(calls) = [i \in 1..Len(calls) |-> calls[i].id] /\ Len(calls) \in Nat
  BY DEF Ids
<1>3. Ids(calls) \in Seq(Nat \X Nat) /\ Len(Ids(calls)) = Len(calls)
  BY <1>1, <1>2
<1>4. \A i \in 1..Len(calls) : Ids(calls)[i] = calls[i].id
  BY <1>2
<1>5. Ids(calls) = << >> <=> calls = << >>
  BY <1>3
<1> QED BY <1>3, <1>4, <1>5

(***************************************************************************)
(* Types after an event is read. An Anthropic block that ends has          *)
(* arguments, since it was started.                                        *)
(***************************************************************************)
LEMMA ReadTypes ==
  ASSUME ProviderAssumption, ProviderTypes, StreamInv, ReadEvent
  PROVE  ProviderTypes'
<1>1. sent \in SentRecord /\ acc \in AccRecord /\ heard \in Seq(Nat \X Nat)
      /\ streamTry \in Nat /\ ended \in BOOLEAN
  BY DEF ProviderTypes, ProviderAssumption
<1>2. SUFFICES sent' \in SentRecord /\ acc' \in AccRecord /\ heard' \in Seq(Nat \X Nat)
               /\ ended' \in BOOLEAN
  <2>1. UNCHANGED <<kind, streaming, pc, turn, history, request, answer, httpTry, streamTry, response>>
    BY DEF ReadEvent, ReadMessageStart, ReadText, ReadBlockStart, ReadBlockStop, ReadIndex,
           ReadPart, ReadCalls, ReadUsage, ReadEnd, Reads, exchange
  <2> QED BY <2>1 DEF ProviderTypes
<1>a. 1 \in 0..Whole /\ Whole \in 0..Whole
  BY DEF Whole
<1>3. CASE ReadMessageStart
  BY <1>1, <1>a, <1>3, SentUpdates, AccUpdates DEF ReadMessageStart
<1>4. CASE ReadText
  <2>1. sent.text \in Nat
    BY <1>1, SentFields
  <2>2. <<streamTry, sent.text + 1>> \in Nat \X Nat /\ sent.text + 1 \in Nat
    BY <1>1, <2>1
  <2>3. Append(heard, <<streamTry, sent.text + 1>>) \in Seq(Nat \X Nat)
    BY <1>1, <2>2
  <2>4. sent' \in SentRecord
    BY <1>1, <1>4, <2>2, SentUpdates DEF ReadText
  <2> QED BY <1>1, <1>4, <2>3, <2>4 DEF ReadText
<1>5. CASE ReadBlockStart
  <2>1. UNCHANGED <<ended, heard>>
    BY <1>5 DEF ReadBlockStart
  <2>2. CASE sent' = [sent EXCEPT !.open = "text"] /\ UNCHANGED acc
    BY <1>1, <2>1, <2>2, SentUpdates
  <2>3. CASE /\ sent' = [sent EXCEPT !.open = "call", !.calls = Append(sent.calls, 0)]
             /\ acc' = StartBlock(Len(sent.calls) + 1)
    <3>1. Append(sent.calls, 0) \in Seq(Nat) /\ Len(sent.calls) + 1 \in Nat /\ <<0>> \in Seq(Nat)
      BY <1>1, SentFields
    <3>2. sent' \in SentRecord
      BY <1>1, <2>3, <3>1, SentUpdates
    <3>3. acc' \in AccRecord
      BY <1>1, <2>3, <3>1, AccUpdates DEF StartBlock
    <3> QED BY <1>1, <2>1, <3>2, <3>3
  <2> QED BY <1>5, <2>2, <2>3 DEF ReadBlockStart
<1>6. CASE ReadBlockStop
  <2>1. sent' = [sent EXCEPT !.open = "no"] /\ UNCHANGED <<ended, heard>> /\ acc' = StopBlock
    BY <1>6 DEF ReadBlockStop
  <2>2. sent' \in SentRecord
    BY <1>1, <2>1, SentUpdates
  <2>3. CASE acc.open = 0
    BY <1>1, <2>1, <2>2, <2>3 DEF StopBlock
  <2>4. CASE acc.open # 0
    <3>1. acc.parts[1] \in Nat /\ acc.open \in Nat /\ acc.calls \in Seq(ToolCall)
      <4>1. pc = "stream" /\ kind = "anthropic"
        BY <1>6 DEF ReadBlockStop, Reads, StreamInv, Sending
      <4>2. Len(acc.parts) = 1
        BY <2>4, <4>1 DEF StreamInv, Assembling
      <4> QED BY <1>1, <4>2, AccFields
    <3>2. CallId(acc.open) \in Nat \X Nat
      BY <3>1, CallIds
    <3>3. [id |-> CallId(acc.open), parts |-> acc.parts[1]] \in ToolCall
      BY <3>1, <3>2, ToolCallOf
    <3>4. Append(acc.calls, [id |-> CallId(acc.open), parts |-> acc.parts[1]]) \in Seq(ToolCall)
      BY <3>1, <3>3
    <3>5. acc' \in AccRecord
      BY <1>1, <2>1, <2>4, <3>4, AccUpdates DEF StopBlock
    <3> QED BY <1>1, <2>1, <2>2, <3>5
  <2> QED BY <2>3, <2>4
<1>7. CASE ReadIndex
  <2>1. Append(sent.calls, 0) \in Seq(Nat) /\ Append(acc.parts, 0) \in Seq(Nat)
    BY <1>1, SentFields, AccFields
  <2>2. sent' \in SentRecord
    BY <1>1, <1>7, <2>1, SentUpdates DEF ReadIndex
  <2>3. acc' \in AccRecord
    BY <1>1, <1>7, <2>1, AccUpdates DEF ReadIndex, StartIndex
  <2> QED BY <1>1, <1>7, <2>2, <2>3 DEF ReadIndex
<1>8. ASSUME NEW i \in DOMAIN sent.calls, ReadPart(i)
      PROVE  <1>2!1
  <2> DEFINE j == IF kind = "anthropic" THEN 1 ELSE i
             c == [sent.calls EXCEPT ![i] = sent.calls[i] + 1]
             q == [acc.parts EXCEPT ![j] = acc.parts[j] + 1]
  <2>1. UNCHANGED <<ended, heard>> /\ sent' = [sent EXCEPT !.calls = c]
        /\ acc' = [acc EXCEPT !.parts = q]
    <3>1. sent' = [sent EXCEPT !.calls[i] = sent.calls[i] + 1] /\ UNCHANGED <<ended, heard>>
          /\ acc' = [acc EXCEPT !.parts[j] = acc.parts[j] + 1]
      BY <1>8 DEF ReadPart, AddPart
    <3> HIDE DEF j
    <3> QED BY <3>1
  <2> HIDE DEF j
  <2>2. c \in Seq(Nat)
    BY <1>1, SentFields
  <2>3. q \in Seq(Nat)
    <3>1. acc.parts \in Seq(Nat) /\ \A k \in DOMAIN acc.parts : acc.parts[k] + 1 \in Nat
      BY <1>1, AccFields
    <3>2. ASSUME NEW s \in Seq(Nat), NEW v, \A k \in DOMAIN s : k = j => v \in Nat
          PROVE  [s EXCEPT ![j] = v] \in Seq(Nat)
      <4>1. DOMAIN s = 1..Len(s) /\ Len(s) \in Nat /\ \A k \in 1..Len(s) : s[k] \in Nat
        OBVIOUS
      <4>2. \A k \in 1..Len(s) : (IF k = j THEN v ELSE s[k]) \in Nat
        BY <3>2, <4>1
      <4> DEFINE n == Len(s)
                 f == [k \in 1..n |-> IF k = j THEN v ELSE s[k]]
      <4>3. [s EXCEPT ![j] = v] = f
        BY <4>1
      <4>4. \A k \in 1..n : f[k] \in Nat
        BY <4>2
      <4>5. f = [k \in 1..n |-> f[k]] /\ n \in Nat
        BY <4>1
      <4> HIDE DEF f, n
      <4>6. f \in [1..n -> Nat]
        BY <4>4, <4>5
      <4>7. f \in Seq(Nat)
        BY <4>5, <4>6
      <4> QED BY <4>3, <4>7
    <3> QED BY <3>1, <3>2
  <2> HIDE DEF c, q
  <2> QED BY <1>1, <2>1, <2>2, <2>3, SentUpdates, AccUpdates
<1>9. ASSUME NEW n \in 1..(Len(answer.calls) - Len(sent.calls)), ReadCalls(n)
      PROVE  <1>2!1
  <2> DEFINE first == Len(sent.calls) + 1
             c == SubSeq(answer.calls, 1, Len(sent.calls) + n)
             more == [i \in 1..n |-> [id |-> CallId(i), parts |-> answer.calls[first + i - 1]]]
  <2>1. UNCHANGED <<ended, heard>> /\ sent' = [sent EXCEPT !.calls = c] /\ acc' = AddCalls(first, n)
    BY <1>9 DEF ReadCalls
  <2>2. n \in Nat /\ Len(sent.calls) \in Nat /\ Len(answer.calls) \in Nat
        /\ Len(sent.calls) + n <= Len(answer.calls)
    BY <1>1, AnswerFields, SentFields
  <2>3. c \in Seq(Nat)
    BY <2>2, AnswerFields
  <2>4. more \in Seq(ToolCall)
    <3>1. ASSUME NEW i \in 1..n
          PROVE  [id |-> CallId(i), parts |-> answer.calls[first + i - 1]] \in ToolCall
      <4>1. i \in Nat /\ first + i - 1 \in 1..Len(answer.calls)
        BY <2>2
      <4> HIDE DEF first
      <4>2. CallId(i) \in Nat \X Nat
        BY <4>1, CallIds
      <4>3. answer.calls[first + i - 1] \in Nat
        BY <4>1, AnswerFields
      <4> QED BY <4>2, <4>3, ToolCallOf
    <3> HIDE DEF first
    <3> QED BY <2>2, <3>1
  <2>5. acc' \in AccRecord
    <3>1. AddCalls(first, n) = IF acc.open = 1 THEN acc ELSE [acc EXCEPT !.open = 1, !.calls = more]
      BY DEF AddCalls
    <3> HIDE DEF more, first
    <3>2. [acc EXCEPT !.open = 1, !.calls = more] \in AccRecord
      BY <1>1, <2>4, AccUpdates
    <3> QED BY <1>1, <2>1, <3>1, <3>2
  <2>6. sent' \in SentRecord
    <3> HIDE DEF c
    <3> QED BY <1>1, <2>1, <2>3, SentUpdates
  <2> QED BY <1>1, <2>1, <2>5, <2>6
<1>10. CASE ReadUsage
  BY <1>1, <1>a, <1>10, SentUpdates, AccUpdates DEF ReadUsage
<1>11. CASE ReadEnd
  BY <1>1, <1>11 DEF ReadEnd
<1> QED BY <1>3, <1>4, <1>5, <1>6, <1>7, <1>8, <1>9, <1>10, <1>11 DEF ReadEvent

(***************************************************************************)
(* Types at the beginning.                                                 *)
(***************************************************************************)
LEMMA InitTypes ==
  ASSUME ProviderAssumption, ProviderInit
  PROVE  ProviderTypes
<1>1. Empty \in AccRecord /\ NothingSent \in SentRecord
      /\ NoResponse \in [calls : Seq(ToolCall), usage : 0..Whole]
  BY DEF Empty, AccRecord, NothingSent, SentRecord, NoResponse, Whole
<1>2. UserText \in Messages
  BY DEF UserText, Message, Messages
<1>3. history \in Seq(Messages) /\ history # << >> /\ request \in Seq(Messages) /\ heard \in Seq(Nat \X Nat)
  BY <1>2 DEF ProviderInit
<1>4. answer \in [text : Nat, calls : Seq(Nat \ {0})] /\ kind \in {"anthropic", "openai", "ollama"}
  BY DEF ProviderInit, ProviderAssumption
<1>5. 0 \in 0..maxRetries
  BY DEF ProviderAssumption
<1> QED BY <1>1, <1>3, <1>4, <1>5 DEF ProviderInit, ProviderTypes

(***************************************************************************)
(* What KeepAnswer adds to the history are messages.                       *)
(***************************************************************************)
LEMMA KeptMessages ==
  ASSUME ProviderTypes
  PROVE  \A role \in {"assistant", "user", "results"}, cut \in BOOLEAN :
           Message(role, Ids(response.calls), cut) \in Messages
<1>1. response.calls \in Seq(ToolCall)
  BY DEF ProviderTypes
<1>2. Ids(response.calls) \in Seq(Nat \X Nat)
  BY <1>1, IdsTyped
<1> QED BY <1>2 DEF Message, Messages

(***************************************************************************)
(* KeepAnswer adds one message that may stand alone, or two that belong    *)
(* together.                                                               *)
(***************************************************************************)
LEMMA KeepsOneOrTwo ==
  ASSUME ProviderTypes, KeepAnswer
  PROVE  \E said \in Messages :
           /\ said.role = "assistant"
           /\ \/ /\ said.cut \/ said.ids = << >>
                 /\ history' = Append(history, said)
              \/ /\ ~said.cut
                 /\ \E next \in Messages :
                      /\ next.role = "results" /\ next.ids = said.ids
                      /\ history' = Append(Append(history, said), next)
<1> DEFINE ids == Ids(response.calls)
<1>1. PICK cut \in BOOLEAN :
        IF ids = << >> \/ cut
          THEN history' = Append(history, Message("assistant", ids, cut))
          ELSE history' = Append(Append(history, Message("assistant", ids, cut)),
                                 Message("results", ids, FALSE))
  BY DEF KeepAnswer
<1> DEFINE said == Message("assistant", ids, cut)
           next == Message("results", ids, FALSE)
<1>2. said \in Messages /\ next \in Messages
  BY KeptMessages
<1>3. /\ said.role = "assistant" /\ said.ids = ids /\ (said.cut <=> cut)
      /\ next.role = "results" /\ next.ids = ids
  BY DEF Message
<1> HIDE DEF said, next, ids
<1>4. CASE ids = << >> \/ cut
  BY <1>1, <1>2, <1>3, <1>4 DEF said
<1>5. CASE ~(ids = << >> \/ cut)
  <2>1. history' = Append(Append(history, said), next)
    BY <1>1, <1>5 DEF said, next
  <2> QED BY <1>2, <1>3, <1>5, <2>1
<1> QED BY <1>4, <1>5

(***************************************************************************)
(* Types after any step.                                                   *)
(***************************************************************************)
LEMMA TypesKept ==
  ASSUME ProviderAssumption, ProviderTypes, StreamInv, MessagesInv, [ProviderNext]_providerVars
  PROVE  ProviderTypes'
<1>1. CASE UNCHANGED providerVars
  BY <1>1 DEF ProviderTypes, providerVars
<1>2. CASE CreateMessage
  <2>1. Empty \in AccRecord /\ NothingSent \in SentRecord
        /\ NoResponse \in [calls : Seq(ToolCall), usage : 0..Whole] /\ << >> \in Seq(Nat \X Nat)
    BY DEF Empty, AccRecord, NothingSent, SentRecord, NoResponse, Whole
  <2>2. answer' \in [text : Nat, calls : Seq(Nat \ {0})]
    BY <1>2 DEF CreateMessage, ProviderAssumption
  <2>3. 0 \in 0..maxRetries /\ turn + 1 \in Nat
    BY DEF ProviderAssumption, ProviderTypes
  <2> QED BY <1>2, <2>1, <2>2, <2>3 DEF CreateMessage, ProviderTypes, MessagesInv
<1>3. CASE Busy
  <2>1. CASE httpTry < Retried
    <3>1. httpTry + 1 \in 0..maxRetries
      BY <2>1 DEF Retried, ProviderTypes, ProviderAssumption
    <3> QED BY <1>3, <2>1, <3>1 DEF Busy, ProviderTypes, exchange
  <2>2. CASE ~(httpTry < Retried)
    BY <1>3, <2>2 DEF Busy, Fails, ProviderTypes, exchange
  <2> QED BY <2>1, <2>2
<1>4. CASE Refused
  BY <1>4 DEF Refused, Fails, ProviderTypes, exchange
<1>5. CASE Accepted
  <2>1. Empty \in AccRecord /\ NothingSent \in SentRecord
    BY DEF Empty, AccRecord, NothingSent, SentRecord, Whole
  <2> QED BY <1>5, <2>1 DEF Accepted, ProviderTypes, exchange
<1>6. CASE Body
  <2>1. [calls |-> AnswerCalls, usage |-> Whole] \in [calls : Seq(ToolCall), usage : 0..Whole]
    BY AnswerCallsTyped DEF Whole
  <2> QED BY <1>6, <2>1 DEF Body, ProviderTypes, exchange
<1>7. CASE ReadEvent
  BY <1>7, ReadTypes
<1>8. CASE EndOfStream \/ BrokenStream
  <2>1. [calls |-> Assembled, usage |-> acc.usage] \in [calls : Seq(ToolCall), usage : 0..Whole]
    BY AssembledTyped, AccFields DEF ProviderTypes
  <2> QED BY <1>8, <2>1 DEF EndOfStream, BrokenStream, ProviderTypes, exchange
<1>9. CASE Overloaded
  <2>1. CASE streamTry < maxRetries
    <3>1. streamTry + 1 \in 0..maxRetries /\ 0 \in 0..maxRetries
      BY <2>1 DEF ProviderTypes, ProviderAssumption
    <3> QED BY <1>9, <2>1, <3>1 DEF Overloaded, ProviderTypes, exchange
  <2>2. CASE ~(streamTry < maxRetries)
    BY <1>9, <2>2 DEF Overloaded, ProviderTypes, exchange
  <2> QED BY <2>1, <2>2
<1>10. CASE StreamError
  BY <1>10 DEF StreamError, ProviderTypes, exchange
<1>11. CASE KeepAnswer
  <2>1. history' \in Seq(Messages) /\ history' # << >>
    <3>1. history \in Seq(Messages)
      BY DEF ProviderTypes
    <3>2. \A m \in Messages : Append(history, m) \in Seq(Messages) /\ Append(history, m) # << >>
      BY <3>1, AppendTyped
    <3>3. \A m, k \in Messages : /\ Append(Append(history, m), k) \in Seq(Messages)
                                  /\ Append(Append(history, m), k) # << >>
      BY <3>2, AppendTyped
    <3> QED BY <1>11, <3>2, <3>3, KeepsOneOrTwo
  <2>2. pc' \in {"idle", "over"}
    BY <1>11 DEF KeepAnswer
  <2> QED BY <1>11, <2>1, <2>2 DEF KeepAnswer, ProviderTypes
<1>12. CASE SendMessage
  <2>1. UserText \in Messages
    BY DEF UserText, Message, Messages
  <2>2. history' \in Seq(Messages) /\ history' # << >>
    <3>1. history \in Seq(Messages) /\ history' = Append(history, UserText)
      BY <1>12 DEF SendMessage, ProviderTypes
    <3> HIDE DEF Messages
    <3> QED BY <2>1, <3>1, AppendTyped
  <2> QED BY <1>12, <2>2 DEF SendMessage, ProviderTypes
<1> QED
  BY <1>1, <1>2, <1>3, <1>4, <1>5, <1>6, <1>7, <1>8, <1>9, <1>10, <1>11, <1>12
  DEF ProviderNext, Call

-----------------------------------------------------------------------------
(* The inductive invariant, part by part.                                  *)

(***************************************************************************)
(* Messages that are answered stay so when one or two are added in the     *)
(* ways SendMessage does.                                                  *)
(***************************************************************************)
LEMMA HistoryGrows ==
  ASSUME ProviderTypes, MessagesInv, UNCHANGED <<kind, request>>,
         NEW more, more \in Seq(Messages), history' \in Seq(Messages),
         convertMessages(history') = more, kind # "anthropic" => Answered(more)
  PROVE  MessagesInv'
<1>1. convertMessages(history)' = more
  BY DEF convertMessages, ConvertMessage, ToolMessage, Message
<1>2. kind # "anthropic" => Answered(convertMessages(history))'
  <2>1. Answered(convertMessages(history))' <=> Answered(more)
    BY <1>1 DEF Answered, ToolMessage, Message
  <2> QED BY <2>1
<1>3. kind # "anthropic" => Answered(request)'
  BY DEF MessagesInv, Answered, ToolMessage, Message
<1> QED BY <1>1, <1>2, <1>3 DEF MessagesInv

(***************************************************************************)
(* KeepAnswer and SendMessage change the history, by AnswersFollow and     *)
(* PlainFollows; only CreateMessage sends it.                              *)
(***************************************************************************)
LEMMA MessagesKept ==
  ASSUME ProviderAssumption, ProviderTypes, MessagesInv, [ProviderNext]_providerVars
  PROVE  MessagesInv'
<1>0. /\ history \in Seq(Messages) /\ history # << >>
      /\ convertMessages(history) \in Seq(Messages)
      /\ kind # "anthropic" => Answered(convertMessages(history))
  BY DEF ProviderTypes, MessagesInv
<1>1. CASE UNCHANGED <<kind, history, request>>
  <2>1. convertMessages(history)' = convertMessages(history)
    BY <1>1 DEF convertMessages, ConvertMessage, ToolMessage, Message
  <2> QED BY <1>1, <2>1 DEF MessagesInv, Answered, ToolMessage, Message
<1>2. CASE CreateMessage
  <2>1. UNCHANGED <<kind, history>> /\ request' = convertMessages(history)
    BY <1>2 DEF CreateMessage
  <2>2. convertMessages(history)' = convertMessages(history)
    BY <2>1 DEF convertMessages, ConvertMessage, ToolMessage, Message
  <2>3. kind # "anthropic" => Answered(convertMessages(history))'
    BY <2>1, <2>2 DEF MessagesInv, Answered, ToolMessage, Message
  <2>4. Answered(request)' <=> Answered(convertMessages(history))'
    BY <2>1, <2>2 DEF Answered
  <2> QED BY <2>1, <2>2, <2>3, <2>4 DEF MessagesInv
<1>3. ASSUME NEW m \in Messages, history' = Append(history, m), UNCHANGED <<kind, request>>,
             m.role = "user" \/ (m.role = "assistant" /\ (m.cut \/ m.ids = << >>))
      PROVE  MessagesInv'
  <2> DEFINE r == convertMessages(history) \o ConvertMessage(m)
  <2>1. convertMessages(history') = r
    BY <1>0, <1>3, ConvertMore
  <2>2. r \in Seq(Messages) /\ history' \in Seq(Messages)
    <3>1. ConvertMessage(m) \in Seq(Messages)
      BY ConvertedMessages
    <3> HIDE DEF Messages
    <3> QED BY <1>0, <1>3, <3>1
  <2>3. kind # "anthropic" => Answered(r)
    BY <1>0, <1>3, PlainFollows
  <2> HIDE DEF r, Messages
  <2> QED BY <1>3, <2>1, <2>2, <2>3, HistoryGrows
<1>4. ASSUME NEW said \in Messages, NEW next \in Messages, UNCHANGED <<kind, request>>,
             history' = Append(Append(history, said), next), said.role = "assistant", ~said.cut,
             next.role = "results", next.ids = said.ids
      PROVE  MessagesInv'
  <2> DEFINE r == (convertMessages(history) \o ConvertMessage(said)) \o ConvertMessage(next)
  <2>1. /\ Append(history, said) \in Seq(Messages) /\ Append(history, said) # << >>
        /\ history' \in Seq(Messages)
    <3> HIDE DEF Messages
    <3> QED BY <1>0, <1>4
  <2>2. convertMessages(history') = r
    BY <1>0, <1>4, <2>1, ConvertMore
  <2>3. r \in Seq(Messages)
    <3>1. ConvertMessage(said) \in Seq(Messages) /\ ConvertMessage(next) \in Seq(Messages)
      BY ConvertedMessages
    <3> HIDE DEF Messages
    <3> QED BY <1>0, <3>1
  <2>4. kind # "anthropic" => Answered(r)
    BY <1>0, <1>4, AnswersFollow
  <2> HIDE DEF r, Messages
  <2> QED BY <1>4, <2>1, <2>2, <2>3, <2>4, HistoryGrows
<1>5. CASE KeepAnswer
  <2>1. UNCHANGED <<kind, request>>
    BY <1>5 DEF KeepAnswer
  <2> QED BY <1>3, <1>4, <1>5, <2>1, KeepsOneOrTwo
<1>6. CASE SendMessage
  <2>1. UserText \in Messages /\ UserText.role = "user"
    BY DEF UserText, Message, Messages
  <2> QED BY <1>3, <1>6, <2>1 DEF SendMessage
<1>7. ASSUME Call \/ UNCHANGED providerVars PROVE UNCHANGED <<kind, history, request>>
  BY <1>7 DEF Call, Busy, Fails, Refused, Accepted, Body, ReadEvent, ReadMessageStart, ReadText,
      ReadBlockStart, ReadBlockStop, ReadIndex, ReadPart, ReadCalls, ReadUsage, ReadEnd, Reads,
      EndOfStream, BrokenStream, Overloaded, StreamError, exchange, providerVars
<1> QED BY <1>1, <1>2, <1>5, <1>6, <1>7 DEF ProviderNext

\* What CallsWhole says of a response: its calls, its usage, whether the stream was read to its end.
Told(calls, usage, end) ==
  /\ IsPrefix(Ids(calls), Ids(AnswerCalls))
  /\ (kind = "openai" /\ ~end) \/ IsPrefix(calls, AnswerCalls)
  /\ end =>
       /\ usage = Whole
       /\ kind # "ollama" => calls = AnswerCalls
       /\ calls = << >> => answer.calls = << >>

(***************************************************************************)
(* A prefix, place by place.                                               *)
(***************************************************************************)
LEMMA PrefixByPlaces ==
  ASSUME NEW S, NEW s \in Seq(S), NEW t \in Seq(S), Len(s) <= Len(t),
         \A i \in 1..Len(s) : s[i] = t[i]
  PROVE  IsPrefix(s, t)
BY DEF IsPrefix

(***************************************************************************)
(* A whole body tells what the model said.                                 *)
(***************************************************************************)
LEMMA BodyTold ==
  ASSUME ProviderTypes
  PROVE  Told(AnswerCalls, Whole, TRUE)
<1>1. AnswerCalls \in Seq(ToolCall) /\ Len(AnswerCalls) = Len(answer.calls)
  BY AnswerCallsTyped
<1>2. Ids(AnswerCalls) \in Seq(Nat \X Nat)
  BY <1>1, IdsTyped
<1>3. AnswerCalls = << >> => answer.calls = << >>
  BY <1>1, AnswerFields
<1> QED BY <1>1, <1>2, <1>3, PrefixByPlaces DEF Told

(***************************************************************************)
(* And so does what a parser has assembled from what the server sent, as   *)
(* far as it got.                                                          *)
(***************************************************************************)
LEMMA AssembledTold ==
  ASSUME ProviderTypes, Sending, Assembling
  PROVE  Told(Assembled, acc.usage, ended)
<1> DEFINE A == Assembled
           W == AnswerCalls
<1>1. /\ W \in Seq(ToolCall) /\ Len(W) = Len(answer.calls) /\ A \in Seq(ToolCall)
      /\ \A i \in 1..Len(W) : W[i] = [id |-> CallId(i), parts |-> answer.calls[i]]
  BY AnswerCallsTyped, AssembledTyped
<1>2. Len(A) \in Nat /\ Len(W) \in Nat
  BY <1>1
<1>3. /\ Len(sent.calls) \in Nat /\ Len(sent.calls) <= Len(answer.calls)
      /\ ended => sent.calls = answer.calls /\ acc.usage = Whole /\ sent.open = "no"
  BY SentFields DEF ProviderTypes, Sending, Assembling, AllSent
<1>4. CASE kind = "openai"
  <2>1. /\ acc.parts = sent.calls /\ Len(A) = Len(sent.calls)
        /\ \A i \in 1..Len(A) : A[i] = [id |-> CallId(i), parts |-> sent.calls[i]]
    BY <1>4, AssembledTyped DEF Assembling
  <2> HIDE DEF A, W
  <2>2. ASSUME NEW i \in 1..Len(A) PROVE A[i].id = W[i].id
    <3>1. i \in 1..Len(W)
      BY <1>1, <1>2, <1>3, <2>1
    <3>2. A[i] = [id |-> CallId(i), parts |-> sent.calls[i]]
      BY <2>1
    <3>3. W[i] = [id |-> CallId(i), parts |-> answer.calls[i]]
      BY <1>1, <3>1
    <3> QED BY <3>2, <3>3
  <2>3. ended => Len(A) = Len(W) /\ \A i \in 1..Len(A) : A[i] = W[i]
    BY <1>1, <1>2, <1>3, <2>1
  <2>4. IsPrefix(Ids(A), Ids(W))
    <3>1. /\ Ids(A) \in Seq(Nat \X Nat) /\ Len(Ids(A)) = Len(A)
          /\ \A i \in 1..Len(A) : Ids(A)[i] = A[i].id
      BY <1>1, IdsTyped
    <3>2. /\ Ids(W) \in Seq(Nat \X Nat) /\ Len(Ids(W)) = Len(W)
          /\ \A i \in 1..Len(W) : Ids(W)[i] = W[i].id
      BY <1>1, IdsTyped
    <3>3. Len(A) <= Len(W)
      BY <1>1, <1>3, <2>1
    <3>4. ASSUME NEW i \in 1..Len(A) PROVE Ids(A)[i] = Ids(W)[i]
      <4>1. i \in 1..Len(W)
        BY <1>2, <3>3
      <4> QED BY <2>2, <3>1, <3>2, <4>1
    <3> QED BY <3>1, <3>2, <3>3, <3>4, PrefixByPlaces
  <2>5. ended => A = W
    BY <1>1, <2>3
  <2>6. ended => IsPrefix(A, W)
    BY <1>1, <1>2, <2>5, PrefixByPlaces
  <2>7. ended /\ A = << >> => answer.calls = << >>
    BY <1>1, <2>5, AnswerFields
  <2> QED BY <1>3, <1>4, <2>4, <2>5, <2>6, <2>7 DEF Told, A, W
<1>5. CASE kind # "openai"
  <2>1. A = acc.calls /\ \A i \in 1..Len(A) : A[i] = [id |-> CallId(i), parts |-> answer.calls[i]]
    BY <1>5 DEF Assembled, Assembling
  <2>2. Len(A) <= Len(sent.calls)
    BY <1>5, <1>3, <2>1 DEF Assembling, ProviderTypes
  <2>3. ended /\ kind = "anthropic" => Len(A) = Len(W)
    BY <1>1, <1>3, <2>1 DEF Assembling
  <2>4. ended /\ kind = "ollama" /\ A = << >> => answer.calls = << >>
    BY <1>1, <1>3, <2>1 DEF Assembling
  <2> HIDE DEF A, W
  <2>5. Len(A) <= Len(W)
    BY <1>1, <1>2, <1>3, <2>2
  <2>6. ASSUME NEW i \in 1..Len(A) PROVE A[i] = W[i]
    <3>1. i \in 1..Len(W)
      BY <1>2, <2>5
    <3> QED BY <1>1, <2>1, <3>1
  <2>7. IsPrefix(A, W)
    BY <1>1, <2>5, <2>6, PrefixByPlaces
  <2>8. IsPrefix(Ids(A), Ids(W))
    <3>1. /\ Ids(A) \in Seq(Nat \X Nat) /\ Len(Ids(A)) = Len(A)
          /\ \A i \in 1..Len(A) : Ids(A)[i] = A[i].id
      BY <1>1, IdsTyped
    <3>2. /\ Ids(W) \in Seq(Nat \X Nat) /\ Len(Ids(W)) = Len(W)
          /\ \A i \in 1..Len(W) : Ids(W)[i] = W[i].id
      BY <1>1, IdsTyped
    <3>3. ASSUME NEW i \in 1..Len(A) PROVE Ids(A)[i] = Ids(W)[i]
      <4>1. i \in 1..Len(W)
        BY <1>2, <2>5
      <4> QED BY <2>6, <3>1, <3>2, <4>1
    <3> QED BY <2>5, <3>1, <3>2, <3>3, PrefixByPlaces
  <2>9. ended /\ kind = "anthropic" => A = W
    BY <1>1, <2>3, <2>6
  <2>10. ended /\ A = << >> => answer.calls = << >>
    BY <1>1, <1>5, <2>4, <2>9, AnswerFields DEF ProviderTypes
  <2> QED BY <1>3, <1>5, <2>7, <2>8, <2>9, <2>10 DEF Told, A, W, ProviderTypes
<1> QED BY <1>4, <1>5

(***************************************************************************)
(* A response is made in three ways: of a body, at the end of a stream,    *)
(* where it broke off.                                                     *)
(***************************************************************************)
LEMMA WholeKept ==
  ASSUME ProviderAssumption, ProviderTypes, StreamInv, CallsWhole, [ProviderNext]_providerVars
  PROVE  CallsWhole'
<1>1. ASSUME NEW calls, NEW usage, NEW end, Told(calls, usage, end),
             UNCHANGED <<kind, turn, answer>>,
             response' = [calls |-> calls, usage |-> usage], ended' = end
      PROVE  CallsWhole'
  <2>1. AnswerCalls' = AnswerCalls
    BY <1>1 DEF AnswerCalls, CallId
  <2>2. response'.calls = calls /\ response'.usage = usage
    BY <1>1
  <2>3. Ids(AnswerCalls)' = Ids(AnswerCalls) /\ Ids(response.calls)' = Ids(calls)
    BY <2>1, <2>2 DEF Ids
  <2> QED BY <1>1, <2>1, <2>2, <2>3 DEF CallsWhole, Told
<1>2. CASE pc' # "done"
  BY <1>2 DEF CallsWhole
<1>3. CASE pc' = "done" /\ UNCHANGED <<kind, turn, answer, pc, response, ended>>
  <2>1. AnswerCalls' = AnswerCalls
    BY <1>3 DEF AnswerCalls, CallId
  <2>2. Ids(AnswerCalls)' = Ids(AnswerCalls) /\ Ids(response.calls)' = Ids(response.calls)
    BY <1>3, <2>1 DEF Ids
  <2> QED BY <1>3, <2>1, <2>2 DEF CallsWhole
<1>4. CASE Body /\ pc' = "done"
  <2>1. /\ response' = [calls |-> AnswerCalls, usage |-> Whole] /\ ended' = TRUE
        /\ UNCHANGED <<kind, turn, answer>>
    BY <1>4 DEF Body, exchange
  <2> QED BY <1>1, <2>1, BodyTold
<1>5. CASE (EndOfStream \/ BrokenStream) /\ pc' = "done"
  <2>1. /\ response' = [calls |-> Assembled, usage |-> acc.usage] /\ ended' = ended
        /\ UNCHANGED <<kind, turn, answer>> /\ pc = "stream"
    BY <1>5 DEF EndOfStream, BrokenStream, exchange
  <2>2. Told(Assembled, acc.usage, ended)
    BY <2>1, AssembledTold DEF StreamInv
  <2> QED BY <1>1, <2>1, <2>2
<1>6. ASSUME pc' = "done"
      PROVE  \/ UNCHANGED <<kind, turn, answer, pc, response, ended>>
             \/ Body \/ EndOfStream \/ BrokenStream
  <2>1. CASE UNCHANGED providerVars
    BY <2>1 DEF providerVars
  <2>2. CASE CreateMessage \/ KeepAnswer \/ SendMessage
    BY <1>6, <2>2 DEF CreateMessage, KeepAnswer, SendMessage
  <2>3. CASE Busy \/ Refused \/ Accepted \/ Overloaded \/ StreamError
    BY <1>6, <2>3 DEF Busy, Refused, Fails, Accepted, Overloaded, StreamError
  <2>4. CASE ReadEvent
    <3>1. pc = "stream" /\ pc' = pc
      BY <2>4 DEF ReadEvent, ReadMessageStart, ReadText, ReadBlockStart, ReadBlockStop,
         ReadIndex, ReadPart, ReadCalls, ReadUsage, ReadEnd, Reads
    <3> QED BY <1>6, <3>1
  <2> QED BY <2>1, <2>2, <2>3, <2>4 DEF ProviderNext, Call
<1> QED BY <1>2, <1>3, <1>4, <1>5, <1>6

(***************************************************************************)
(* Text is heard in order, and a new attempt begins after all that was     *)
(* heard.                                                                  *)
(***************************************************************************)
LEMMA HeardKept ==
  ASSUME ProviderAssumption, ProviderTypes, StreamInv, HeardInv, [ProviderNext]_providerVars
  PROVE  HeardInv'
<1>1. heard \in Seq(Nat \X Nat) /\ streamTry \in Nat /\ Len(heard) \in Nat
  BY DEF ProviderTypes, ProviderAssumption
<1>2. CASE UNCHANGED providerVars
  BY <1>2 DEF HeardInv, Pieces, Earlier, EndsWith, providerVars
<1>3. CASE CreateMessage
  BY <1>3 DEF CreateMessage, HeardInv, Pieces, Earlier, EndsWith
<1>4. CASE Busy
  <2>1. CASE httpTry < Retried
    BY <1>4, <2>1 DEF Busy, exchange, HeardInv, Pieces, Earlier, EndsWith
  <2>2. CASE ~(httpTry < Retried)
    BY <1>4, <2>2 DEF Busy, Fails, exchange, HeardInv, Pieces, Earlier, EndsWith
  <2> QED BY <2>1, <2>2
<1>5. CASE Refused
  BY <1>5 DEF Refused, Fails, exchange, HeardInv, Pieces, Earlier, EndsWith
<1>6. CASE Accepted
  <2>1. /\ UNCHANGED <<heard, streamTry, answer, streaming>> /\ sent' = NothingSent /\ pc = "post"
        /\ pc' = IF streaming THEN "stream" ELSE "body"
    BY <1>6 DEF Accepted, exchange
  <2>2. sent'.text = 0 /\ EndsWith(heard, 0)'
    BY <1>1, <2>1 DEF NothingSent, EndsWith
  <2>3. Earlier(heard)' /\ Pieces'
    BY <2>1 DEF HeardInv, Earlier, Pieces
  <2> QED BY <2>1, <2>2, <2>3 DEF HeardInv, EndsWith
<1>7. CASE Body
  <2>1. UNCHANGED <<heard, streamTry, answer, streaming>> /\ pc = "body" /\ pc' \in {"done", "error"}
    BY <1>7 DEF Body, exchange
  <2> QED BY <2>1 DEF HeardInv, Earlier, Pieces
<1>8. CASE ReadText
  <2> DEFINE k == sent.text + 1
             x == <<streamTry, k>>
             n == Len(heard)
  <2>1. /\ UNCHANGED <<pc, streamTry, answer, streaming>> /\ pc = "stream" /\ heard' = Append(heard, x)
        /\ sent' = [sent EXCEPT !.text = k] /\ sent.text < answer.text
    BY <1>8 DEF ReadText, Reads, exchange
  <2>2. sent.text \in Nat /\ sent'.text = k /\ answer.text \in Nat
    BY <2>1, SentFields, AnswerFields DEF ProviderTypes, SentRecord
  <2>3. /\ Len(heard') = n + 1 /\ heard'[n + 1] = x /\ \A i \in 1..n : heard'[i] = heard[i]
        /\ DOMAIN heard = 1..n /\ DOMAIN heard' = 1..(n + 1)
    BY <1>1, <2>1
  <2>4. EndsWith(heard, sent.text) /\ (sent.text = 0 => Earlier(heard)) /\ Pieces
    BY <2>1 DEF HeardInv
  <2>5. x[1] = streamTry /\ x[2] = k
    OBVIOUS
  <2> HIDE DEF x
  <2>6. EndsWith(heard, sent.text)'
    <3>1. ASSUME NEW j \in 1..k PROVE heard'[(n + 1) - k + j] = <<streamTry, j>>
      <4>1. CASE j = k
        BY <1>1, <2>2, <2>3, <4>1 DEF x
      <4>2. CASE j # k
        <5>0. n >= sent.text /\ n \in Nat
          BY <1>1, <2>4 DEF EndsWith
        <5>1. j \in 1..sent.text /\ n - sent.text + j = (n + 1) - k + j /\ n - sent.text + j \in 1..n
          <6> HIDE DEF n
          <6> QED BY <2>2, <4>2, <5>0
        <5>2. heard[n - sent.text + j] = <<streamTry, j>>
          BY <2>4, <5>1 DEF EndsWith
        <5> HIDE DEF k, n
        <5> QED BY <2>3, <5>1, <5>2
      <4> QED BY <4>1, <4>2
    <3>2. n + 1 >= k
      BY <1>1, <2>2, <2>4 DEF EndsWith
    <3> HIDE DEF n, k
    <3> QED BY <2>1, <2>2, <2>3, <3>1, <3>2 DEF EndsWith
  <2>7. Pieces'
    <3>1. ASSUME NEW i \in 1..n
          PROVE  /\ heard'[i][1] \leq streamTry' /\ heard'[i][2] \leq answer'.text
                 /\ \/ heard'[i][2] = 1 /\ (i > 1 => heard'[i - 1][1] < heard'[i][1])
                    \/ i > 1 /\ heard'[i] = <<heard'[i - 1][1], heard'[i - 1][2] + 1>>
      <4>0. heard'[i] = heard[i] /\ (i > 1 => i - 1 \in 1..n)
        BY <1>1, <2>3
      <4>1. heard'[i] = heard[i] /\ (i > 1 => heard'[i - 1] = heard[i - 1])
        <5> HIDE DEF n
        <5> QED BY <2>3, <4>0
      <4> HIDE DEF n
      <4> QED BY <2>1, <2>3, <2>4, <4>1 DEF Pieces
    <3>2. x[1] \leq streamTry' /\ x[2] \leq answer'.text
      BY <1>1, <2>1, <2>2, <2>5
    <3>3. \/ x[2] = 1 /\ (n + 1 > 1 => heard'[(n + 1) - 1][1] < x[1])
          \/ n + 1 > 1 /\ x = <<heard'[(n + 1) - 1][1], heard'[(n + 1) - 1][2] + 1>>
      <4>1. CASE sent.text = 0
        <5>1. n + 1 > 1 => heard'[(n + 1) - 1] = heard[n] /\ n \in DOMAIN heard
          BY <1>1, <2>3
        <5> HIDE DEF n
        <5> QED BY <2>4, <2>5, <4>1, <5>1 DEF Earlier
      <4>2. CASE sent.text # 0
        <5>1. n \in 1..n /\ n - sent.text + sent.text = n /\ sent.text \in 1..sent.text /\ (n + 1) - 1 = n
          BY <1>1, <2>2, <2>4, <4>2 DEF EndsWith
        <5>2. heard[n] = <<streamTry, sent.text>>
          BY <2>4, <5>1 DEF EndsWith
        <5>3. heard'[n] = heard[n] /\ n + 1 > 1
          BY <2>3, <5>1
        <5>4. heard'[n][1] = streamTry /\ heard'[n][2] = sent.text
          BY <5>2, <5>3
        <5> HIDE DEF n
        <5> QED BY <5>1, <5>3, <5>4 DEF x
      <4> QED BY <4>1, <4>2
    <3>4. \A i \in DOMAIN heard' : i \in 1..n \/ i = n + 1
      BY <1>1, <2>3
    <3> HIDE DEF n, k
    <3> QED BY <2>3, <3>1, <3>2, <3>3, <3>4 DEF Pieces
  <2>8. sent'.text # 0
    BY <2>2
  <2> HIDE DEF k, n
  <2> QED BY <2>1, <2>6, <2>7, <2>8 DEF HeardInv
<1>9. CASE ReadEvent /\ ~ReadText
  <2>1. UNCHANGED <<pc, streamTry, answer, streaming, heard>> /\ pc = "stream"
    BY <1>9 DEF ReadEvent, ReadMessageStart, ReadBlockStart, ReadBlockStop, ReadIndex,
       ReadPart, ReadCalls, ReadUsage, ReadEnd, Reads, exchange
  <2>2. sent'.text = sent.text
    BY <1>9 DEF ReadEvent, ReadMessageStart, ReadBlockStart, ReadBlockStop, ReadIndex,
       ReadPart, ReadCalls, ReadUsage, ReadEnd, ProviderTypes, SentRecord
  <2> QED BY <2>1, <2>2 DEF HeardInv, Earlier, Pieces, EndsWith
<1>10. CASE EndOfStream \/ BrokenStream
  <2>1. /\ UNCHANGED <<streamTry, answer, streaming, heard, ended>> /\ pc = "stream"
        /\ pc' \in {"done", "error"}
    BY <1>10 DEF EndOfStream, BrokenStream, exchange
  <2>2. ended => sent.text = answer.text
    BY <2>1 DEF StreamInv, Sending, AllSent
  <2> QED BY <2>1, <2>2 DEF HeardInv, Earlier, Pieces, EndsWith
<1>11. CASE Overloaded
  <2>1. CASE streamTry < maxRetries
    <3>1. UNCHANGED <<answer, streaming, heard>> /\ pc' = "post" /\ streamTry' = streamTry + 1
      BY <1>11, <2>1 DEF Overloaded, exchange
    <3>2. \A i \in DOMAIN heard : heard[i][1] \in Nat /\ heard[i][1] <= streamTry
      BY <1>1 DEF HeardInv, Pieces
    <3>3. \A i \in DOMAIN heard : heard[i][1] < streamTry + 1 /\ heard[i][1] <= streamTry + 1
      BY <1>1, <3>2
    <3>4. Earlier(heard)'
      BY <3>1, <3>3 DEF Earlier
    <3>5. Pieces'
      BY <3>1, <3>3 DEF Pieces, HeardInv
    <3> QED BY <3>1, <3>4, <3>5 DEF HeardInv
  <2>2. CASE ~(streamTry < maxRetries)
    BY <1>11, <2>2 DEF Overloaded, exchange, HeardInv, Pieces
  <2> QED BY <2>1, <2>2
<1>12. CASE StreamError
  BY <1>12 DEF StreamError, exchange, HeardInv, Pieces
<1>13. CASE KeepAnswer \/ SendMessage
  BY <1>13 DEF KeepAnswer, SendMessage, HeardInv, Pieces
<1> QED
  BY <1>2, <1>3, <1>4, <1>5, <1>6, <1>7, <1>8, <1>9, <1>10, <1>11, <1>12, <1>13 DEF ProviderNext, Call

(***************************************************************************)
(* The parser follows the server, event by event.                          *)
(***************************************************************************)
LEMMA StreamKept ==
  ASSUME ProviderAssumption, ProviderTypes, StreamInv, [ProviderNext]_providerVars
  PROVE  StreamInv'
<1>1. /\ sent \in SentRecord /\ acc \in AccRecord
      /\ kind \in {"anthropic", "openai", "ollama"}
  BY DEF ProviderTypes
<1>2. SUFFICES ASSUME pc' = "stream" PROVE Sending' /\ Assembling'
  BY DEF StreamInv
<1>3. CASE UNCHANGED providerVars
  <2>1. pc = "stream" /\ UNCHANGED <<kind, turn, answer, sent, acc, ended>>
    BY <1>2, <1>3 DEF providerVars
  <2> QED BY <2>1 DEF StreamInv, Sending, AllSent, Begun, Assembling, CallId
<1>4. CASE CreateMessage \/ KeepAnswer \/ SendMessage \/ Busy \/ Refused \/ Body \/ EndOfStream
           \/ BrokenStream \/ Overloaded \/ StreamError
  BY <1>2, <1>4 DEF CreateMessage, KeepAnswer, SendMessage, Busy, Fails, Refused, Body, EndOfStream,
     BrokenStream, Overloaded, StreamError
<1>5. CASE Accepted
  <2>1. sent' = NothingSent /\ acc' = Empty /\ ended' = FALSE /\ UNCHANGED <<kind, turn, answer>>
    BY <1>5 DEF Accepted, exchange
  <2>2. /\ sent'.begun = FALSE /\ sent'.open = "no" /\ sent'.text = 0 /\ sent'.calls = << >>
        /\ sent'.usage = FALSE
    BY <2>1 DEF NothingSent
  <2>3. acc'.open = 0 /\ acc'.parts = << >> /\ acc'.calls = << >>
    BY <2>1 DEF Empty
  <2>4. Len(sent'.calls) = 0 /\ Len(acc'.calls) = 0 /\ 0 <= Len(answer.calls) /\ 0 <= answer.text
        /\ 1..0 = {}
    BY <2>2, <2>3, AnswerFields
  <2>5. Sending'
    <3>1. sent'.text <= answer'.text /\ Len(sent'.calls) <= Len(answer'.calls)
      BY <2>1, <2>2, <2>4
    <3> QED BY <2>1, <2>2, <2>4, <3>1 DEF Sending
  <2>6. Assembling'
    BY <2>2, <2>3, <2>4 DEF Assembling
  <2> QED BY <2>5, <2>6
<1> SUFFICES ASSUME ReadEvent PROVE Sending' /\ Assembling'
  BY <1>3, <1>4, <1>5 DEF ProviderNext, Call
<1>6. pc = "stream" /\ ~ended /\ UNCHANGED <<kind, turn, answer>>
  BY DEF ReadEvent, ReadMessageStart, ReadText, ReadBlockStart, ReadBlockStop, ReadIndex,
     ReadPart, ReadCalls, ReadUsage, ReadEnd, Reads, exchange
<1>7. Sending /\ Assembling
  BY <1>6 DEF StreamInv
<1>8. /\ sent.text \in Nat /\ sent.calls \in Seq(Nat) /\ Len(sent.calls) \in Nat
      /\ \A i \in 1..Len(sent.calls) : sent.calls[i] \in Nat
      /\ sent.begun \in BOOLEAN /\ sent.usage \in BOOLEAN /\ DOMAIN sent.calls = 1..Len(sent.calls)
  BY <1>1, SentFields
<1>9. /\ acc.open \in Nat /\ acc.parts \in Seq(Nat) /\ acc.calls \in Seq(ToolCall)
      /\ Len(acc.calls) \in Nat /\ DOMAIN acc.parts = 1..Len(acc.parts)
  BY <1>1, AccFields
<1>10. /\ answer.text \in Nat /\ Len(answer.calls) \in Nat
       /\ \A i \in 1..Len(answer.calls) : answer.calls[i] \in Nat \ {0}
  BY AnswerFields
<1>11. \A i : CallId(i)' = CallId(i)
  BY <1>6 DEF CallId
<1>12. CASE ReadMessageStart
  <2>1. /\ UNCHANGED ended /\ kind = "anthropic" /\ ~sent.begun
        /\ sent' = [sent EXCEPT !.begun = TRUE] /\ acc' = [acc EXCEPT !.usage = 1]
    BY <1>12 DEF ReadMessageStart
  <2>2. /\ sent'.begun = TRUE /\ sent'.open = sent.open /\ sent'.text = sent.text
        /\ sent'.calls = sent.calls /\ sent'.usage = sent.usage
    BY <1>1, <2>1 DEF SentRecord
  <2>3. acc'.open = acc.open /\ acc'.parts = acc.parts /\ acc'.calls = acc.calls
    BY <1>1, <2>1 DEF AccRecord
  <2>4. ~sent.usage
    BY <1>7, <2>1 DEF Sending, AllSent, Begun
  <2>5. Sending'
    BY <1>6, <1>7, <2>1, <2>2, <2>4 DEF Sending
  <2>6. Assembling'
    BY <1>6, <1>7, <1>11, <2>2, <2>3, <2>4 DEF Assembling
  <2> QED BY <2>5, <2>6
<1>13. CASE ReadText
  <2>1. /\ UNCHANGED <<ended, acc>> /\ sent' = [sent EXCEPT !.text = sent.text + 1]
        /\ sent.text < answer.text
    BY <1>13 DEF ReadText
  <2>2. /\ sent'.begun = sent.begun /\ sent'.open = sent.open /\ sent'.text = sent.text + 1
        /\ sent'.calls = sent.calls /\ sent'.usage = sent.usage
    BY <1>1, <2>1 DEF SentRecord
  <2>3. ~sent.usage
    BY <1>7, <1>8, <1>10, <2>1 DEF Sending, AllSent
  <2>4. sent'.text <= answer'.text
    BY <1>6, <1>8, <1>10, <2>1, <2>2
  <2>5. Sending'
    BY <1>6, <1>7, <2>1, <2>2, <2>3, <2>4 DEF Sending
  <2>6. Assembling'
    BY <1>6, <1>7, <1>11, <2>1, <2>2 DEF Assembling
  <2> QED BY <2>5, <2>6
<1>14. CASE ReadBlockStart
  <2>1. /\ UNCHANGED ended /\ kind = "anthropic" /\ ~sent.usage /\ sent.open = "no"
    BY <1>14 DEF ReadBlockStart
  <2>2. acc.open = 0 /\ Len(acc.calls) = Len(sent.calls)
    BY <1>7, <2>1 DEF Assembling
  <2>3. CASE sent' = [sent EXCEPT !.open = "text"] /\ UNCHANGED acc
    <3>1. /\ sent'.open = "text" /\ sent'.text = sent.text
          /\ sent'.calls = sent.calls /\ sent'.usage = sent.usage
      BY <1>1, <2>3 DEF SentRecord
    <3>2. Sending'
      BY <1>6, <1>7, <2>1, <3>1 DEF Sending
    <3>3. Assembling'
      BY <1>6, <1>7, <1>11, <2>1, <2>2, <2>3, <3>1 DEF Assembling
    <3> QED BY <3>2, <3>3
  <2>4. CASE /\ Len(sent.calls) < Len(answer.calls)
             /\ sent' = [sent EXCEPT !.open = "call", !.calls = Append(sent.calls, 0)]
             /\ acc' = StartBlock(Len(sent.calls) + 1)
    <3> DEFINE n == Len(sent.calls)
    <3>1. /\ sent'.open = "call" /\ sent'.text = sent.text
          /\ sent'.calls = Append(sent.calls, 0) /\ sent'.usage = sent.usage
      BY <1>1, <2>4 DEF SentRecord
    <3>2. acc'.open = n + 1 /\ acc'.parts = <<0>> /\ acc'.calls = acc.calls
      BY <1>1, <2>4 DEF StartBlock, AccRecord
    <3>3. /\ Len(sent'.calls) = n + 1 /\ sent'.calls[n + 1] = 0
          /\ \A i \in 1..n : sent'.calls[i] = sent.calls[i]
      BY <1>8, <3>1
    <3>4. Len(acc'.parts) = 1 /\ acc'.parts[1] = 0
      BY <3>2
    <3>5. Sending'
      <4>1. \A i \in 1..(n + 1) : sent'.calls[i] <= answer.calls[i]
        <5>1. \A i \in 1..n : sent'.calls[i] <= answer.calls[i]
          BY <1>7, <3>3 DEF Sending
        <5>2. sent'.calls[n + 1] <= answer.calls[n + 1]
          <6>1. n + 1 \in 1..Len(answer.calls)
            BY <1>8, <1>10, <2>4
          <6>2. answer.calls[n + 1] \in Nat
            <7> HIDE DEF n
            <7> QED BY <1>10, <6>1
          <6> HIDE DEF n
          <6> QED BY <3>3, <6>2
        <5> QED BY <1>8, <5>1, <5>2
      <4>2. n + 1 <= Len(answer.calls) /\ n + 1 > 0
        BY <1>8, <1>10, <2>4
      <4> HIDE DEF n
      <4> QED BY <1>6, <1>7, <2>1, <3>1, <3>3, <4>1, <4>2 DEF Sending
    <3>6. Assembling'
      <4>1. Len(acc'.calls) = (n + 1) - 1
        BY <1>8, <2>2, <3>2
      <4> HIDE DEF n
      <4> QED BY <1>6, <1>7, <1>11, <2>1, <3>1, <3>2, <3>3, <3>4, <4>1 DEF Assembling
    <3> QED BY <3>5, <3>6
  <2> QED BY <1>14, <2>3, <2>4 DEF ReadBlockStart
<1>15. CASE ReadBlockStop
  <2> DEFINE n == Len(sent.calls)
  <2>1. /\ UNCHANGED ended /\ sent.open # "no" /\ sent' = [sent EXCEPT !.open = "no"]
        /\ acc' = StopBlock /\ (sent.open = "call" => Last(sent.calls) = answer.calls[n])
    BY <1>15 DEF ReadBlockStop
  <2>2. kind = "anthropic" /\ ~sent.usage
    BY <1>1, <1>7, <2>1 DEF Sending, AllSent
  <2>3. /\ sent'.open = "no" /\ sent'.text = sent.text
        /\ sent'.calls = sent.calls /\ sent'.usage = sent.usage
    BY <1>1, <2>1 DEF SentRecord
  <2>4. Sending'
    BY <1>6, <1>7, <2>1, <2>2, <2>3 DEF Sending
  <2>5. Assembling'
    <3>1. CASE sent.open # "call"
      <4>1. acc.open = 0 /\ Len(acc.calls) = n
        BY <1>7, <2>2, <3>1 DEF Assembling
      <4>2. acc' = acc
        BY <2>1, <4>1 DEF StopBlock
      <4> QED BY <1>6, <1>7, <1>11, <2>2, <2>3, <4>1, <4>2 DEF Assembling
    <3>2. CASE sent.open = "call"
      <4>1. /\ acc.open = n /\ Len(acc.calls) = n - 1 /\ acc.parts[1] = sent.calls[n] /\ n > 0
        BY <1>7, <2>2, <3>2 DEF Assembling, Sending
      <4> DEFINE done == [id |-> CallId(n), parts |-> answer.calls[n]]
      <4>2. sent.calls[n] = answer.calls[n]
        BY <2>1, <3>2 DEF Last
      <4>3. acc' = [acc EXCEPT !.open = 0, !.calls = Append(acc.calls, done)]
        BY <1>8, <2>1, <4>1, <4>2 DEF StopBlock
      <4>4. acc'.open = 0 /\ acc'.calls = Append(acc.calls, done)
        BY <1>1, <4>3 DEF AccRecord
      <4> HIDE DEF done
      <4>5. /\ Len(acc'.calls) = n /\ acc'.calls[n] = done
            /\ \A i \in 1..(n - 1) : acc'.calls[i] = acc.calls[i]
        BY <1>8, <1>9, <4>1, <4>4
      <4>6. \A i \in 1..n : acc'.calls[i] = [id |-> CallId(i), parts |-> answer.calls[i]]
        <5>1. \A i \in 1..(n - 1) : acc'.calls[i] = [id |-> CallId(i), parts |-> answer.calls[i]]
          BY <1>7, <4>1, <4>5 DEF Assembling
        <5>2. \A i \in 1..n : i \in 1..(n - 1) \/ i = n
          BY <1>8
        <5> HIDE DEF n
        <5> QED BY <4>5, <5>1, <5>2 DEF done
      <4> HIDE DEF n
      <4> QED BY <1>6, <1>11, <2>2, <2>3, <4>4, <4>5, <4>6 DEF Assembling, n
    <3> QED BY <3>1, <3>2
  <2> QED BY <2>4, <2>5
<1>16. CASE ReadIndex
  <2> DEFINE n == Len(sent.calls)
  <2>1. /\ UNCHANGED ended /\ kind = "openai" /\ n < Len(answer.calls)
        /\ sent' = [sent EXCEPT !.calls = Append(sent.calls, 0)]
        /\ acc' = [acc EXCEPT !.parts = Append(acc.parts, 0)]
    BY <1>16 DEF ReadIndex, StartIndex
  <2>2. /\ sent'.open = sent.open /\ sent'.text = sent.text
        /\ sent'.calls = Append(sent.calls, 0) /\ sent'.usage = sent.usage
    BY <1>1, <2>1 DEF SentRecord
  <2>3. acc'.open = acc.open /\ acc'.parts = Append(acc.parts, 0) /\ acc'.calls = acc.calls
    BY <1>1, <2>1 DEF AccRecord
  <2>4. ~sent.usage
    BY <1>7, <1>8, <1>10, <2>1 DEF Sending, AllSent
  <2>5. /\ Len(sent'.calls) = n + 1 /\ sent'.calls[n + 1] = 0
        /\ \A i \in 1..n : sent'.calls[i] = sent.calls[i]
    BY <1>8, <2>2
  <2>6. \A i \in 1..(n + 1) : sent'.calls[i] <= answer.calls[i]
    <3>1. \A i \in 1..n : sent'.calls[i] <= answer.calls[i]
      BY <1>7, <2>5 DEF Sending
    <3>2. n + 1 \in 1..Len(answer.calls) /\ n \in Nat
      BY <1>8, <1>10, <2>1
    <3> HIDE DEF n
    <3>3. answer.calls[n + 1] \in Nat
      BY <1>10, <3>2
    <3>4. \A i \in 1..(n + 1) : i \in 1..n \/ i = n + 1
      BY <3>2
    <3> QED BY <2>5, <3>1, <3>3, <3>4
  <2>7. n + 1 <= Len(answer.calls)
    BY <1>8, <1>10, <2>1
  <2>8. Sending'
    <3> HIDE DEF n
    <3> QED BY <1>6, <1>7, <2>1, <2>2, <2>4, <2>5, <2>6, <2>7 DEF Sending
  <2>9. Assembling'
    BY <1>6, <1>7, <1>11, <2>1, <2>2, <2>3, <2>4 DEF Assembling
  <2> QED BY <2>8, <2>9
<1>17. ASSUME NEW i \in DOMAIN sent.calls, ReadPart(i)
       PROVE  Sending' /\ Assembling'
  <2> DEFINE j == IF kind = "anthropic" THEN 1 ELSE i
             c == [sent.calls EXCEPT ![i] = sent.calls[i] + 1]
             q == [acc.parts EXCEPT ![j] = acc.parts[j] + 1]
  <2>1. UNCHANGED ended /\ sent' = [sent EXCEPT !.calls = c] /\ acc' = [acc EXCEPT !.parts = q]
    <3>1. sent' = [sent EXCEPT !.calls[i] = sent.calls[i] + 1] /\ UNCHANGED ended
          /\ acc' = [acc EXCEPT !.parts[j] = acc.parts[j] + 1]
      BY <1>17 DEF ReadPart, AddPart
    <3> HIDE DEF j
    <3> QED BY <3>1
  <2>2. /\ sent.calls[i] < answer.calls[i] /\ kind # "ollama"
        /\ kind = "anthropic" => sent.open = "call" /\ i = Len(sent.calls)
    BY <1>17 DEF ReadPart
  <2> HIDE DEF c, q
  <2>3. /\ sent'.open = sent.open /\ sent'.text = sent.text
        /\ sent'.calls = c /\ sent'.usage = sent.usage
    BY <1>1, <2>1 DEF SentRecord
  <2>4. acc'.open = acc.open /\ acc'.parts = q /\ acc'.calls = acc.calls
    BY <1>1, <2>1 DEF AccRecord
  <2>5. /\ Len(c) = Len(sent.calls) /\ c[i] = sent.calls[i] + 1
        /\ \A k \in 1..Len(sent.calls) : k # i => c[k] = sent.calls[k]
    BY <1>8 DEF c
  <2>6. ~sent.usage
    <3>1. sent.calls # answer.calls
      BY <1>8, <2>2
    <3> QED BY <1>7, <3>1 DEF Sending, AllSent
  <2>7. \A k \in 1..Len(sent.calls) : c[k] <= answer.calls[k]
    <3>1. i \in 1..Len(answer.calls) /\ i \in 1..Len(sent.calls)
      BY <1>7, <1>8, <1>10 DEF Sending
    <3>2. c[i] <= answer.calls[i]
      BY <1>8, <1>10, <2>2, <2>5, <3>1
    <3> QED BY <1>7, <2>5, <3>2 DEF Sending
  <2>8. Sending'
    BY <1>6, <1>7, <2>1, <2>3, <2>5, <2>6, <2>7 DEF Sending
  <2>9. Assembling'
    <3>1. CASE kind = "anthropic"
      <4>1. /\ acc.open = Len(sent.calls) /\ Len(acc.calls) = Len(sent.calls) - 1
            /\ Len(acc.parts) = 1 /\ acc.parts[1] = sent.calls[Len(sent.calls)]
        BY <1>7, <2>2, <3>1 DEF Assembling
      <4>2. Len(q) = 1 /\ q[1] = acc.parts[1] + 1
        BY <1>9, <3>1, <4>1 DEF q
      <4>3. q[1] = c[Len(c)]
        BY <2>2, <2>5, <3>1, <4>1, <4>2
      <4> QED BY <1>6, <1>7, <1>11, <2>2, <2>3, <2>4, <2>5, <2>6, <3>1, <4>1, <4>2, <4>3 DEF Assembling
    <3>2. CASE kind = "openai"
      <4>1. acc.parts = sent.calls
        BY <1>7, <3>2 DEF Assembling
      <4>2. q = c
        BY <3>2, <4>1 DEF c, q
      <4> QED BY <1>6, <1>7, <1>11, <2>3, <2>4, <2>6, <3>2, <4>2 DEF Assembling
    <3> QED BY <1>1, <2>2, <3>1, <3>2
  <2> QED BY <2>8, <2>9
<1>18. ASSUME NEW n \in 1..(Len(answer.calls) - Len(sent.calls)), ReadCalls(n)
       PROVE  Sending' /\ Assembling'
  <2> DEFINE m == Len(sent.calls)
             c == SubSeq(answer.calls, 1, m + n)
             more == [i \in 1..n |-> [id |-> CallId(i), parts |-> answer.calls[(m + 1) + i - 1]]]
  <2>1. UNCHANGED ended /\ kind = "ollama" /\ sent' = [sent EXCEPT !.calls = c]
        /\ acc' = AddCalls(m + 1, n)
    BY <1>18 DEF ReadCalls
  <2>2. n \in Nat \ {0} /\ m \in Nat /\ m + n <= Len(answer.calls) /\ m + n \in Nat
    BY <1>8, <1>10
  <2>3. Len(c) = m + n /\ \A i \in 1..(m + n) : c[i] = answer.calls[i]
    <3>1. answer.calls \in Seq(Nat)
      BY AnswerFields
    <3> HIDE DEF m
    <3> QED BY <2>2, <3>1
  <2>4. /\ sent'.open = sent.open /\ sent'.text = sent.text
        /\ sent'.calls = c /\ sent'.usage = sent.usage
    <3> HIDE DEF c
    <3> QED BY <1>1, <2>1 DEF SentRecord
  <2>5. ~sent.usage
    <3>1. sent.calls # answer.calls
      BY <1>8, <1>10, <2>2
    <3> QED BY <1>7, <3>1 DEF Sending, AllSent
  <2>6. Sending'
    <3>1. \A i \in 1..(m + n) : c[i] <= answer.calls[i]
      <4>1. \A i \in 1..(m + n) : i \in 1..Len(answer.calls)
        BY <1>10, <2>2
      <4> HIDE DEF c, m
      <4> QED BY <1>10, <2>3, <4>1
    <3> HIDE DEF c, m
    <3> QED BY <1>6, <1>7, <2>1, <2>2, <2>3, <2>4, <2>5, <3>1 DEF Sending
  <2>7. Assembling'
    <3>1. AddCalls(m + 1, n) = IF acc.open = 1 THEN acc ELSE [acc EXCEPT !.open = 1, !.calls = more]
      BY DEF AddCalls
    <3>2. CASE acc.open = 1
      <4>1. acc' = acc /\ Len(acc.calls) <= m + n
        BY <1>7, <1>9, <2>1, <2>2, <3>1, <3>2 DEF Assembling
      <4> HIDE DEF c, m
      <4> QED BY <1>6, <1>7, <1>11, <2>1, <2>3, <2>4, <2>5, <3>2, <4>1 DEF Assembling
    <3>3. CASE acc.open # 1
      <4>1. m = 0 /\ acc.calls = << >>
        BY <1>7, <2>1, <3>3 DEF Assembling
      <4>2. acc'.open = 1 /\ acc'.calls = more
        <5> HIDE DEF more, m
        <5> QED BY <1>1, <2>1, <3>1, <3>3 DEF AccRecord
      <4>3. Len(more) = n /\ \A i \in 1..n : more[i] = [id |-> CallId(i), parts |-> answer.calls[i]]
        <5>1. \A i \in 1..n : (m + 1) + i - 1 = i
          BY <2>2, <4>1
        <5> HIDE DEF m
        <5> QED BY <2>2, <5>1
      <4>4. n <= m + n /\ n > 0
        BY <2>2
      <4> HIDE DEF c, m, more
      <4> QED BY <1>6, <1>11, <2>1, <2>3, <2>4, <2>5, <4>2, <4>3, <4>4 DEF Assembling
    <3> QED BY <3>2, <3>3
  <2> QED BY <2>6, <2>7
<1>19. CASE ReadUsage
  <2>1. /\ AllSent /\ sent' = [sent EXCEPT !.usage = TRUE] /\ acc' = [acc EXCEPT !.usage = Whole]
        /\ ended' \in BOOLEAN
    BY <1>19 DEF ReadUsage
  <2>2. /\ sent'.begun = sent.begun /\ sent'.open = sent.open /\ sent'.text = sent.text
        /\ sent'.calls = sent.calls /\ sent'.usage = TRUE
    BY <1>1, <2>1 DEF SentRecord
  <2>3. acc'.open = acc.open /\ acc'.parts = acc.parts /\ acc'.calls = acc.calls /\ acc'.usage = Whole
    BY <1>1, <2>1 DEF AccRecord
  <2>4. AllSent'
    BY <1>6, <2>1, <2>2 DEF AllSent, Begun
  <2>5. Sending'
    BY <1>6, <1>7, <2>2, <2>4 DEF Sending
  <2>6. Assembling'
    BY <1>6, <1>7, <1>11, <2>2, <2>3 DEF Assembling
  <2> QED BY <2>5, <2>6
<1>20. CASE ReadEnd
  <2>1. sent.usage /\ UNCHANGED <<sent, acc>>
    BY <1>20 DEF ReadEnd
  <2>2. Sending'
    BY <1>6, <1>7, <2>1 DEF Sending, AllSent, Begun
  <2>3. Assembling'
    BY <1>6, <1>7, <1>11, <2>1 DEF Assembling
  <2> QED BY <2>2, <2>3
<1> QED
  BY <1>12, <1>13, <1>14, <1>15, <1>16, <1>17, <1>18, <1>19, <1>20 DEF ReadEvent

-----------------------------------------------------------------------------
(* The theorems.                                                           *)

(***************************************************************************)
(* A conversation begins with one message of the user.                     *)
(***************************************************************************)
LEMMA ProviderInvInit ==
  ASSUME ProviderAssumption, ProviderInit
  PROVE  ProviderInv
<1>1. ProviderTypes
  BY InitTypes
<1>2. MessagesInv
  <2> DEFINE m == UserText
  <2>1. m \in Messages /\ m.role = "user"
    BY DEF UserText, Message, Messages
  <2>2. history = <<m>> /\ request = << >>
    BY DEF ProviderInit
  <2>3. convertMessages(history) = <<m>>
    <3> HIDE DEF m
    <3> QED BY <2>1, <2>2, ConvertFirst
  <2>4. <<m>> \in Seq(Messages) /\ Answered(<<m>>) /\ Answered(<< >>)
    <3>1. DOMAIN <<m>> = {1} /\ <<m>>[1].role = "user" /\ DOMAIN << >> = {}
      BY <2>1
    <3> HIDE DEF m
    <3> QED BY <2>1, <3>1 DEF Answered
  <2> HIDE DEF m
  <2> QED BY <2>2, <2>3, <2>4 DEF MessagesInv
<1>3. StreamInv /\ CallsWhole
  BY DEF ProviderInit, StreamInv, CallsWhole
<1>4. HeardInv
  BY DEF ProviderInit, HeardInv, Pieces
<1> QED BY <1>1, <1>2, <1>3, <1>4 DEF ProviderInv

(***************************************************************************)
(* Each part is kept.                                                      *)
(***************************************************************************)
LEMMA ProviderInvKept ==
  ASSUME ProviderAssumption, ProviderInv, [ProviderNext]_providerVars
  PROVE  ProviderInv'
<1>1. ProviderTypes /\ MessagesInv /\ StreamInv /\ CallsWhole /\ HeardInv
  BY DEF ProviderInv
<1> QED BY <1>1, TypesKept, MessagesKept, StreamKept, WholeKept, HeardKept DEF ProviderInv

(***************************************************************************)
(* The inductive invariant holds, for answers of any length, any number of *)
(* retries and of turns.                                                   *)
(***************************************************************************)
THEOREM ProviderSound == ProviderSpec => []ProviderInv
<1>1. ProviderInit => ProviderInv
  BY ProviderAssumption, ProviderInvInit
<1>2. ProviderInv /\ [ProviderNext]_providerVars => ProviderInv'
  BY ProviderAssumption, ProviderInvKept
<1> QED BY <1>1, <1>2, PTL DEF ProviderSpec

(***************************************************************************)
(* A suffix, place by place.                                               *)
(***************************************************************************)
LEMMA SuffixByPlaces ==
  ASSUME ProviderAssumption, ProviderTypes, NEW k \in Nat, EndsWith(heard, k)
  PROVE  IsSuffix([j \in 1..k |-> <<streamTry, j>>], heard)
<1> DEFINE s == [j \in 1..k |-> <<streamTry, j>>]
           n == Len(heard)
<1>1. heard \in Seq(Nat \X Nat) /\ n \in Nat /\ n >= k
  BY DEF ProviderTypes, EndsWith
<1>2. \A j \in 1..k : heard[n - k + j] = <<streamTry, j>>
  BY DEF EndsWith
<1>3. Len(s) = k /\ DOMAIN s = 1..k /\ \A j \in 1..k : s[j] = <<streamTry, j>>
  OBVIOUS
<1> HIDE DEF s, n
<1> DEFINE r == Reverse(s)
           h == Reverse(heard)
<1>4. r = [i \in 1..k |-> s[(k - i) + 1]] /\ h = [i \in 1..n |-> heard[(n - i) + 1]]
  BY <1>1, <1>3 DEF Reverse, n
<1> HIDE DEF r, h
<1>5. Len(r) = k /\ Len(h) = n
  BY <1>1, <1>4
<1>6. ASSUME NEW i \in 1..k PROVE r[i] = h[i]
  <2>1. (k - i) + 1 \in 1..k /\ n - k + ((k - i) + 1) = (n - i) + 1 /\ i \in 1..n
    BY <1>1
  <2>2. r[i] = s[(k - i) + 1] /\ h[i] = heard[(n - i) + 1]
    BY <1>4, <2>1
  <2> QED BY <1>2, <1>3, <2>1, <2>2
<1>7. SubSeq(r, 1, k) = SubSeq(h, 1, k)
  <2>1. SubSeq(r, 1, k) = [i \in 1..k |-> r[i]] /\ SubSeq(h, 1, k) = [i \in 1..k |-> h[i]]
    OBVIOUS
  <2> QED BY <1>6, <2>1
<1>8. IsPrefix(r, h)
  BY <1>1, <1>5, <1>7 DEF IsPrefix
<1> QED BY <1>8 DEF IsSuffix, r, h, s

(***************************************************************************)
(* A response has the calls of the answer, in their order and not mixed    *)
(* with those of a failed attempt; all of them if the stream was read to   *)
(* its end, but for Ollama's later chunks; and the handler hears the text  *)
(* of the attempt that succeeded once and in order.                        *)
(***************************************************************************)
THEOREM AnswersWhole == ProviderSpec => []AnswerWhole
<1>1. ProviderAssumption /\ ProviderInv => AnswerWhole
  <2> SUFFICES ASSUME ProviderAssumption, ProviderInv PROVE AnswerWhole
    OBVIOUS
  <2>1. ASSUME pc = "done", ended, streaming
        PROVE  IsSuffix([k \in 1..answer.text |-> <<streamTry, k>>], heard)
    <3>1. EndsWith(heard, answer.text) /\ answer.text \in Nat
      BY <2>1, AnswerFields DEF ProviderInv, HeardInv
    <3> QED BY ProviderAssumption, <3>1, SuffixByPlaces DEF ProviderInv
  <2>2. HeardByAttempt
    BY <2>1 DEF ProviderInv, HeardInv, Pieces, HeardByAttempt
  <2> QED BY <2>2 DEF ProviderInv, AnswerWhole
<1> QED BY <1>1, ProviderAssumption, ProviderSound, PTL

(***************************************************************************)
(* In every request to OpenAI or Ollama each tool call is answered directly*)
(* behind the message that asks, unless a budget stop left it open, and    *)
(* nothing else is a tool's message.                                       *)
(***************************************************************************)
THEOREM ToolMessagesAlwaysFollow == ProviderSpec => []ToolMessagesFollow
<1>1. ProviderInv => ToolMessagesFollow
  BY DEF ProviderInv, MessagesInv, Answered, ToolMessagesFollow
<1> QED BY <1>1, ProviderSound, PTL

=============================================================================
