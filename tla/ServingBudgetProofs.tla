------------------------- MODULE ServingBudgetProofs -------------------------
(***************************************************************************)
(* Proofs about ServingBudget, for any finite set of requests, any         *)
(* configurations and every bound: what a request leaves in the ledger and *)
(* in the gauge, how far the monthly cap can be overshot, and that every   *)
(* request is metered.                                                     *)
(***************************************************************************)
EXTENDS ServingBudget, Sums, SequenceTheorems

-----------------------------------------------------------------------------
(* The inductive invariant.                                                *)

\* The handlers that have raised the gauge and not yet lowered it.
Counted == { r \in Requests :
               st[r] \in {"entered", "running", "answering", "recording", "leaving"} }

\* A process that is down has no handlers.
Stopped == proc = "down" => Unfinished = {}

GaugeExact == proc # "down" => ActiveSessions = Cardinality(Counted)

\* What a request has done when it is at its place.
InPlace(r) ==
  /\ st[r] \in {"new", "decoded", "checked", "entered"} => cost[r] = 0 /\ turns[r] = 0
  /\ st[r] = "running" => turns[r] < MaxTurns
  /\ st[r] \in {"recording", "leaving"} => status[r] # "none"

\* A row is written once, last of all, and holds the whole spend.
RowAgrees(r) ==
  /\ st[r] \notin {"leaving", "done", "killed"} => cost_entries[r] = << >>
  /\ \/ cost_entries[r] = << >>
     \/ /\ Len(cost_entries[r]) = 1 /\ cost_entries[r][1].cost = cost[r]
        /\ status[r] # "none"
  /\ st[r] \in {"leaving", "done"} /\ cfg.ledger /\ r \notin unledgered /\ cost[r] > 0 =>
       cost_entries[r] # << >>

Progress == \A r \in Requests : InPlace(r)
Rows == \A r \in Requests : RowAgrees(r)

\* Who may still overshoot the current month's cap was noted at its last check.
Noted ==
  /\ \A m \in 1..Months : m > month => exposed[m] = {}
  /\ exposed[month] # {} => InFlight \subseteq exposed[month]

\* What the others have spent in a month stays below its cap.
CapHeld ==
  \A m \in (1..Months) \ blind :
    cfg.ledger /\ exposed[m] # {} =>
      SumFunctionOnSet(SpendOf(m), Requests \ exposed[m]) < cfg.Monthly

IInv == TypeOK /\ Stopped /\ GaugeExact /\ Progress /\ Rows /\ Noted /\ CapHeld

-----------------------------------------------------------------------------
(* Facts about the operators.                                              *)

(***************************************************************************)
(* The actions, one case of every proof below.                             *)
(***************************************************************************)
LEMMA Cases ==
  ASSUME [Next]_vars
  PROVE  \/ \E r \in Requests, ok \in BOOLEAN :
              \/ Arrive(r, ok) \/ CheckMonthlyBudget(r, ok) \/ Enter(r, ok)
              \/ ApplyOverrides(r, ok) \/ RecordCost(r, ok)
         \/ \E r \in Requests, c \in 0..MaxTurnCost, final \in BOOLEAN : ModelTurn(r, c, final)
         \/ \E r \in Requests : ModelError(r) \/ Respond(r) \/ Leave(r)
         \/ NextMonth \/ Shutdown \/ Exit \/ Restart
         \/ UNCHANGED vars
BY DEF Next, Environment, Handler

(***************************************************************************)
(* A request that moves between two counted places, or two others, leaves  *)
(* the count alone; one that enters or leaves changes it by one.           *)
(***************************************************************************)
LEMMA Counting ==
  ASSUME st \in [Requests -> Place], NEW r \in Requests, NEW place \in Place, Goto(r, place)
  PROVE  LET Holds(p) == p \in {"entered", "running", "answering", "recording", "leaving"}
         IN  /\ Holds(st[r]) <=> Holds(place) =>
                  Cardinality(Counted') = Cardinality(Counted)
             /\ ~ Holds(st[r]) /\ Holds(place) =>
                  Cardinality(Counted') = Cardinality(Counted) + 1
             /\ Holds(st[r]) /\ ~ Holds(place) =>
                  Cardinality(Counted') = Cardinality(Counted) - 1 /\ Cardinality(Counted) > 0
<1> DEFINE Holds(p) == p \in {"entered", "running", "answering", "recording", "leaving"}
<1>1. IsFiniteSet(Counted)
  BY ServingAssumption, FS_Subset DEF Counted
<1>2. \A q \in Requests : q # r => st'[q] = st[q]
  BY DEF Goto
<1>3. st'[r] = place
  BY DEF Goto
<1>4. Cardinality(Counted) \in Nat
  BY <1>1, FS_CardinalityType
<1>5. CASE Holds(st[r]) <=> Holds(place)
  <2>1. Counted' = Counted
    BY <1>2, <1>3, <1>5 DEF Counted
  <2> QED BY <1>5, <2>1
<1>6. CASE ~ Holds(st[r]) /\ Holds(place)
  <2>1. Counted' = Counted \cup {r} /\ r \notin Counted
    BY <1>2, <1>3, <1>6 DEF Counted
  <2>2. Cardinality(Counted') = Cardinality(Counted) + 1
    BY <1>1, <2>1, FS_AddElement
  <2> QED BY <1>6, <2>2
<1>7. CASE Holds(st[r]) /\ ~ Holds(place)
  <2>1. Counted' = Counted \ {r} /\ r \in Counted
    BY <1>2, <1>3, <1>7 DEF Counted
  <2>2. Cardinality(Counted') = Cardinality(Counted) - 1
    BY <1>1, <2>1, FS_RemoveElement
  <2>3. Cardinality(Counted) # 0
    BY <1>1, <2>1, FS_EmptySet
  <2> QED BY <1>4, <1>7, <2>2, <2>3
<1> QED BY <1>5, <1>6, <1>7

(***************************************************************************)
(* What a request adds to a month's spend is a natural number, and nothing *)
(* while it has no row.                                                    *)
(***************************************************************************)
LEMMA SpendTypes ==
  ASSUME TypeOK, NEW m \in 1..Months, NEW r \in Requests
  PROVE  /\ SpendOf(m)[r] \in Nat
         /\ cost_entries[r] = << >> => SpendOf(m)[r] = 0
<1>1. cost_entries[r] \in Seq(Row) /\ SpendOf(m)[r] = SumFunctionOnSet(RowCost(r), RowsOf(r, m))
  BY DEF TypeOK, SpendOf
<1>2. DOMAIN cost_entries[r] = 1..Len(cost_entries[r]) /\ Len(cost_entries[r]) \in Nat
  BY <1>1
<1>3. IsFiniteSet(RowsOf(r, m))
  <2>1. RowsOf(r, m) \subseteq 1..Len(cost_entries[r])
    BY <1>2 DEF RowsOf
  <2>2. IsFiniteSet(1..Len(cost_entries[r]))
    BY <1>2, FS_Interval
  <2> QED BY <2>1, <2>2, FS_Subset
<1>4. \A i \in RowsOf(r, m) : RowCost(r)[i] \in Nat
  <2> SUFFICES ASSUME NEW i \in DOMAIN cost_entries[r] PROVE RowCost(r)[i] \in Nat
    BY DEF RowsOf
  <2>1. cost_entries[r][i] \in Row
    BY <1>1, <1>2, ElementOfSeq
  <2> QED BY <2>1 DEF RowCost, Row
<1>5. SpendOf(m)[r] \in Nat
  BY <1>1, <1>3, <1>4, SumNat
<1>6. ASSUME cost_entries[r] = << >> PROVE SpendOf(m)[r] = 0
  <2>1. RowsOf(r, m) = {}
    BY <1>6 DEF RowsOf
  <2> QED BY <1>1, <2>1, SumEmpty
<1> QED BY <1>5, <1>6

(***************************************************************************)
(* A request adds no more to a month's spend than its session cost.        *)
(***************************************************************************)
LEMMA SpendBelow ==
  ASSUME TypeOK, Rows, NEW m \in 1..Months, NEW r \in Requests
  PROVE  SpendOf(m)[r] <= cost[r]
<1>1. cost[r] \in Nat
  BY DEF TypeOK
<1>2. CASE cost_entries[r] = << >>
  BY <1>1, <1>2, SpendTypes
<1>3. CASE cost_entries[r] # << >>
  <2>1. Len(cost_entries[r]) = 1 /\ cost_entries[r][1].cost = cost[r] /\ cost_entries[r] \in Seq(Row)
    BY <1>3 DEF Rows, RowAgrees, TypeOK
  <2>2. DOMAIN cost_entries[r] = {1}
    BY <2>1
  <2>3. SpendOf(m)[r] = SumFunctionOnSet(RowCost(r), RowsOf(r, m))
    BY DEF SpendOf
  <2>4. RowCost(r)[1] = cost[r]
    BY <2>1, <2>2 DEF RowCost
  <2>5. CASE RowsOf(r, m) = {}
    BY <1>1, <2>3, <2>5, SumEmpty
  <2>6. CASE RowsOf(r, m) # {}
    <3>1. RowsOf(r, m) = {} \cup {1} /\ 1 \notin {}
      BY <2>2, <2>6 DEF RowsOf
    <3>2. \A i \in {} \cup {1} : RowCost(r)[i] \in Nat
      BY <1>1, <2>4
    <3>3. SumFunctionOnSet(RowCost(r), {} \cup {1}) = RowCost(r)[1] + SumFunctionOnSet(RowCost(r), {})
      BY <3>1, <3>2, SumAdd, FS_EmptySet
    <3>4. SumFunctionOnSet(RowCost(r), {}) = 0
      BY SumEmpty
    <3> QED BY <1>1, <2>3, <2>4, <3>1, <3>3, <3>4
  <2> QED BY <2>5, <2>6
<1> QED BY <1>2, <1>3

(***************************************************************************)
(* A step that leaves a request's rows alone leaves its part of every      *)
(* month's spend alone.                                                    *)
(***************************************************************************)
LEMMA SpendUnchanged ==
  ASSUME NEW r \in Requests, cost_entries'[r] = cost_entries[r], NEW m
  PROVE  SpendOf(m)'[r] = SpendOf(m)[r]
<1>1. RowCost(r)' = RowCost(r) /\ RowsOf(r, m)' = RowsOf(r, m)
  BY DEF RowCost, RowsOf
<1> QED BY <1>1 DEF SpendOf

-----------------------------------------------------------------------------
(* The invariant is inductive.                                             *)

(***************************************************************************)
(* It holds when the server starts.                                        *)
(***************************************************************************)
LEMMA InitInv == Init => IInv
<1> SUFFICES ASSUME Init PROVE IInv
  OBVIOUS
<1>1. TypeOK
  <2>1. cfg \in Setting /\ 1 \in 1..Months
    BY ServingAssumption DEF Init
  <2> QED BY <2>1, ServingAssumption DEF Init, TypeOK, Place
<1>2. GaugeExact
  <2>1. Counted = {}
    BY DEF Init, Counted
  <2> QED BY <2>1, FS_EmptySet DEF Init, GaugeExact
<1>3. Stopped /\ Progress /\ Rows
  BY ServingAssumption DEF Init, Stopped, Unfinished, Progress, Rows, InPlace, RowAgrees
<1>4. Noted /\ CapHeld
  BY ServingAssumption DEF Init, Noted, CapHeld
<1> QED BY <1>1, <1>2, <1>3, <1>4 DEF IInv

(***************************************************************************)
(* Every step keeps the types; that the gauge stays a natural number needs *)
(* that it is exact.                                                       *)
(***************************************************************************)
LEMMA TypesStep == IInv /\ [Next]_vars => TypeOK'
<1> SUFFICES ASSUME IInv, [Next]_vars PROVE TypeOK'
  OBVIOUS
<1> USE DEF TypeOK, IInv, server, handler, history, Goto, Answer, Place
<1>1. ASSUME NEW r \in Requests, NEW ok \in BOOLEAN, Arrive(r, ok) PROVE TypeOK'
  BY <1>1 DEF Arrive
<1>2. ASSUME NEW r \in Requests, NEW ok \in BOOLEAN, CheckMonthlyBudget(r, ok) PROVE TypeOK'
  <2>1. InFlight \cup {r} \subseteq Requests
    BY DEF InFlight
  <2>2. exposed' \in [1..Months -> SUBSET Requests]
    <3> HIDE DEF InFlight
    <3> QED BY <1>2, <2>1 DEF CheckMonthlyBudget
  <2>4. blind' \subseteq 1..Months
    BY <1>2 DEF CheckMonthlyBudget
  <2>3. st' \in [Requests -> Place] /\ status' \in [Requests -> {"none", "2xx", "4xx", "5xx"}]
    BY <1>2 DEF CheckMonthlyBudget
  <2> QED BY <1>2, <2>2, <2>3, <2>4 DEF CheckMonthlyBudget
<1>3. ASSUME NEW r \in Requests, NEW ok \in BOOLEAN, ApplyOverrides(r, ok) PROVE TypeOK'
  BY <1>3 DEF ApplyOverrides
<1>4. ASSUME NEW r \in Requests, NEW ok \in BOOLEAN, RecordCost(r, ok) PROVE TypeOK'
  <2>1. [cost |-> cost[r], month |-> month] \in Row
    BY DEF Row
  <2>2. Append(cost_entries[r], [cost |-> cost[r], month |-> month]) \in Seq(Row)
    BY <2>1, AppendProperties
  <2> QED BY <1>4, <2>2 DEF RecordCost
<1>5. ASSUME NEW r \in Requests, NEW c \in 0..MaxTurnCost, NEW final \in BOOLEAN,
             ModelTurn(r, c, final)
      PROVE  TypeOK'
  <2>1. turns[r] + 1 \in 0..MaxTurns /\ cost[r] + c \in Nat
    BY <1>5, ServingAssumption DEF ModelTurn, Progress, InPlace
  <2>2. BudgetStopped' \in [Requests -> BOOLEAN]
    BY <1>5 DEF ModelTurn, CheckRequestBudget
  <2>3. turns' \in [Requests -> 0..MaxTurns] /\ cost' \in [Requests -> Nat]
    BY <1>5, <2>1 DEF ModelTurn
  <2> QED BY <1>5, <2>2, <2>3 DEF ModelTurn
<1>6. ASSUME NEW r \in Requests, ModelError(r) PROVE TypeOK'
  BY <1>6 DEF ModelError
<1>7. ASSUME NEW r \in Requests, NEW ok \in BOOLEAN, Enter(r, ok) PROVE TypeOK'
  <2>1. st' \in [Requests -> Place] /\ status' \in [Requests -> {"none", "2xx", "4xx", "5xx"}]
    BY <1>7 DEF Enter
  <2> QED BY <1>7, <2>1 DEF Enter
<1>8. ASSUME NEW r \in Requests, Respond(r) PROVE TypeOK'
  BY <1>8 DEF Respond
<1>9. ASSUME NEW r \in Requests, Leave(r) PROVE TypeOK'
  <2>1. proc # "down"
    BY <1>9 DEF Leave, Stopped, Unfinished
  <2>2. Cardinality(Counted) \in Nat /\ Cardinality(Counted) > 0
    <3>1. IsFiniteSet(Counted) /\ r \in Counted
      BY <1>9, ServingAssumption, FS_Subset DEF Leave, Counted
    <3> QED BY <3>1, FS_CardinalityType, FS_EmptySet
  <2>3. ActiveSessions - 1 \in Nat
    BY <2>1, <2>2 DEF GaugeExact
  <2> QED BY <1>9, <2>3 DEF Leave
<1>10. CASE NextMonth
  BY <1>10, ServingAssumption DEF NextMonth
<1>11. CASE Shutdown
  BY <1>11 DEF Shutdown
<1>12. CASE Exit
  BY <1>12 DEF Exit
<1>13. CASE Restart
  BY <1>13, ServingAssumption DEF Restart
<1>14. CASE UNCHANGED vars
  BY <1>14 DEF vars
<1> QED BY <1>1, <1>2, <1>3, <1>4, <1>5, <1>6, <1>7, <1>8, <1>9, <1>10, <1>11, <1>12,
           <1>13, <1>14, Cases

(***************************************************************************)
(* Every step of a handler is one of a process that is not down, moves one *)
(* request, and lowers or raises the gauge exactly when that request       *)
(* enters or leaves.                                                       *)
(***************************************************************************)
LEMMA GaugeStep == IInv /\ [Next]_vars => Stopped' /\ GaugeExact'
<1> SUFFICES ASSUME IInv, [Next]_vars PROVE Stopped' /\ GaugeExact'
  OBVIOUS
<1> DEFINE Holds(p) == p \in {"entered", "running", "answering", "recording", "leaving"}
<1>0. st \in [Requests -> Place]
  BY DEF IInv, TypeOK
<1>1. ASSUME NEW r \in Requests, NEW place \in Place, Goto(r, place), UNCHANGED proc,
             proc # "down",
             \/ (Holds(st[r]) <=> Holds(place)) /\ ActiveSessions' = ActiveSessions
             \/ ~ Holds(st[r]) /\ Holds(place) /\ ActiveSessions' = ActiveSessions + 1
             \/ Holds(st[r]) /\ ~ Holds(place) /\ ActiveSessions' = ActiveSessions - 1
      PROVE  Stopped' /\ GaugeExact'
  <2>1. Stopped' /\ ActiveSessions = Cardinality(Counted)
    BY <1>1 DEF IInv, Stopped, GaugeExact
  <2>2. ActiveSessions' = Cardinality(Counted')
    BY <1>0, <1>1, <2>1, Counting
  <2> QED BY <2>1, <2>2 DEF GaugeExact
<1>2. ASSUME UNCHANGED <<proc, st, ActiveSessions>> PROVE Stopped' /\ GaugeExact'
  BY <1>2 DEF IInv, Stopped, GaugeExact, Unfinished, Counted
<1>3. \A r \in Requests : st[r] \notin {"new", "done", "killed"} => proc # "down"
  BY DEF IInv, Stopped, Unfinished
<1> USE DEF server, handler, history, Place
<1>4. ASSUME NEW r \in Requests, NEW ok \in BOOLEAN, Arrive(r, ok)
      PROVE  Stopped' /\ GaugeExact'
  <2>1. PICK place \in {"decoded", "done"} : Goto(r, place)
    BY <1>4 DEF Arrive
  <2> QED BY <1>1, <1>4, <2>1 DEF Arrive
<1>5. ASSUME NEW r \in Requests, NEW ok \in BOOLEAN, CheckMonthlyBudget(r, ok)
      PROVE  Stopped' /\ GaugeExact'
  <2>1. PICK place \in {"done", "checked"} : Goto(r, place)
    BY <1>5 DEF CheckMonthlyBudget
  <2> QED BY <1>1, <1>3, <1>5, <2>1 DEF CheckMonthlyBudget
<1>6. ASSUME NEW r \in Requests, NEW ok \in BOOLEAN, ApplyOverrides(r, ok)
      PROVE  Stopped' /\ GaugeExact'
  <2>1. PICK place \in {"running", "leaving"} : Goto(r, place)
    BY <1>6 DEF ApplyOverrides
  <2> QED BY <1>1, <1>3, <1>6, <2>1 DEF ApplyOverrides
<1>7. ASSUME NEW r \in Requests, NEW ok \in BOOLEAN, RecordCost(r, ok)
      PROVE  Stopped' /\ GaugeExact'
  BY <1>1, <1>3, <1>7 DEF RecordCost
<1>8. ASSUME NEW r \in Requests, NEW c \in 0..MaxTurnCost, NEW final \in BOOLEAN,
             ModelTurn(r, c, final)
      PROVE  Stopped' /\ GaugeExact'
  <2>1. CASE UNCHANGED st
    BY <1>2, <1>8, <2>1 DEF ModelTurn
  <2>2. CASE Goto(r, "answering")
    BY <1>1, <1>3, <1>8, <2>2 DEF ModelTurn
  <2> QED BY <1>8, <2>1, <2>2 DEF ModelTurn
<1>9. ASSUME NEW r \in Requests, ModelError(r) PROVE Stopped' /\ GaugeExact'
  BY <1>1, <1>3, <1>9 DEF ModelError
<1>10. ASSUME NEW r \in Requests, NEW ok \in BOOLEAN, Enter(r, ok) PROVE Stopped' /\ GaugeExact'
  BY <1>1, <1>3, <1>10 DEF Enter
<1>11. ASSUME NEW r \in Requests, Respond(r) PROVE Stopped' /\ GaugeExact'
  BY <1>1, <1>3, <1>11 DEF Respond
<1>12. ASSUME NEW r \in Requests, Leave(r) PROVE Stopped' /\ GaugeExact'
  BY <1>1, <1>3, <1>12 DEF Leave
<1>13. CASE NextMonth
  BY <1>2, <1>13 DEF NextMonth
<1>14. CASE Shutdown
  BY <1>14 DEF Shutdown, IInv, Stopped, GaugeExact, Unfinished, Counted
<1>15. CASE Exit
  BY <1>0, <1>15 DEF Exit, Stopped, GaugeExact, Unfinished
<1>16. CASE Restart
  <2>1. Counted' = {}
    BY <1>16 DEF Restart, IInv, Stopped, Unfinished, Counted
  <2>2. Cardinality(Counted') = 0
    BY <2>1, FS_EmptySet
  <2> QED BY <1>16, <2>2 DEF Restart, Stopped, GaugeExact
<1>17. CASE UNCHANGED vars
  BY <1>2, <1>17 DEF vars
<1> QED BY <1>4, <1>5, <1>6, <1>7, <1>8, <1>9, <1>10, <1>11, <1>12, <1>13, <1>14, <1>15,
           <1>16, <1>17, Cases

(***************************************************************************)
(* Each step of a request leaves what its place promises; the others are   *)
(* not touched.                                                            *)
(***************************************************************************)
LEMMA RowsStep == IInv /\ [Next]_vars => Progress' /\ Rows'
<1> SUFFICES ASSUME IInv, [Next]_vars, NEW q \in Requests
             PROVE  InPlace(q)' /\ RowAgrees(q)'
  BY DEF Progress, Rows
<1>1. InPlace(q) /\ RowAgrees(q) /\ TypeOK
  BY DEF IInv, Progress, Rows
<1> USE DEF server, handler, history
<1>2. ASSUME UNCHANGED <<cfg.ledger, st[q], turns[q], cost[q], status[q], cost_entries[q]>>,
             q \in unledgered' <=> q \in unledgered
      PROVE  InPlace(q)' /\ RowAgrees(q)'
  BY <1>1, <1>2 DEF InPlace, RowAgrees
<1> USE DEF Goto, Answer
<1>3. ASSUME NEW r \in Requests, NEW ok \in BOOLEAN, Arrive(r, ok)
      PROVE  InPlace(q)' /\ RowAgrees(q)'
  <2>1. CASE q = r
    BY <1>1, <1>3, <2>1 DEF Arrive, TypeOK, InPlace, RowAgrees
  <2> QED BY <1>1, <1>2, <1>3, <2>1 DEF Arrive, TypeOK
<1>4. ASSUME NEW r \in Requests, NEW ok \in BOOLEAN, CheckMonthlyBudget(r, ok)
      PROVE  InPlace(q)' /\ RowAgrees(q)'
  <2>1. CASE q = r
    BY <1>1, <1>4, <2>1 DEF CheckMonthlyBudget, TypeOK, InPlace, RowAgrees
  <2> QED BY <1>1, <1>2, <1>4, <2>1 DEF CheckMonthlyBudget, TypeOK
<1>5. ASSUME NEW r \in Requests, NEW ok \in BOOLEAN, ApplyOverrides(r, ok)
      PROVE  InPlace(q)' /\ RowAgrees(q)'
  <2>1. CASE q = r
    BY <1>1, <1>5, <2>1, ServingAssumption DEF ApplyOverrides, TypeOK, InPlace, RowAgrees
  <2> QED BY <1>1, <1>2, <1>5, <2>1 DEF ApplyOverrides, TypeOK
<1>6. ASSUME NEW r \in Requests, NEW ok \in BOOLEAN, RecordCost(r, ok)
      PROVE  InPlace(q)' /\ RowAgrees(q)'
  <2>1. CASE q = r
    <3> DEFINE row == [cost |-> cost[r], month |-> month]
    <3>1. st'[q] = "leaving" /\ UNCHANGED <<cfg, cost, turns, status>> /\ status[q] # "none"
      BY <1>1, <1>6, <2>1 DEF RecordCost, TypeOK, InPlace
    <3>2. cost_entries[q] = << >>
      BY <1>1, <1>6, <2>1 DEF RecordCost, RowAgrees
    <3>3. CASE cfg.ledger /\ cost[r] > 0 /\ ok
      <4>1. cost_entries'[q] = <<row>>
        BY <1>1, <1>6, <2>1, <3>2, <3>3 DEF RecordCost, TypeOK
      <4> QED BY <2>1, <3>1, <4>1 DEF InPlace, RowAgrees
    <3>4. CASE ~ (cfg.ledger /\ cost[r] > 0 /\ ok)
      <4>1. cost_entries'[q] = << >> /\ (cfg.ledger /\ cost[r] > 0 => q \in unledgered')
        BY <1>6, <2>1, <3>2, <3>4 DEF RecordCost
      <4> QED BY <2>1, <3>1, <4>1 DEF InPlace, RowAgrees
    <3> QED BY <3>3, <3>4
  <2> QED BY <1>1, <1>2, <1>6, <2>1 DEF RecordCost, TypeOK
<1>7. ASSUME NEW r \in Requests, NEW c \in 0..MaxTurnCost, NEW final \in BOOLEAN,
             ModelTurn(r, c, final)
      PROVE  InPlace(q)' /\ RowAgrees(q)'
  <2>1. CASE q = r
    <3>1. cost_entries'[q] = << >> /\ turns'[q] = turns[q] + 1 /\ turns[q] < MaxTurns
      BY <1>1, <1>7, <2>1 DEF ModelTurn, TypeOK, InPlace, RowAgrees
    <3>2. \/ st'[q] = "answering"
          \/ st'[q] = "running" /\ turns'[q] # MaxTurns
      BY <1>1, <1>7, <2>1 DEF ModelTurn, TypeOK
    <3>3. turns[q] \in Nat /\ MaxTurns \in Nat
      BY <1>1, ServingAssumption DEF TypeOK
    <3> QED BY <3>1, <3>2, <3>3 DEF InPlace, RowAgrees
  <2> QED BY <1>1, <1>2, <1>7, <2>1 DEF ModelTurn, TypeOK
<1>8. ASSUME NEW r \in Requests, ModelError(r) PROVE InPlace(q)' /\ RowAgrees(q)'
  <2>1. CASE q = r
    BY <1>1, <1>8, <2>1 DEF ModelError, TypeOK, InPlace, RowAgrees
  <2> QED BY <1>1, <1>2, <1>8, <2>1 DEF ModelError, TypeOK
<1>9. ASSUME NEW r \in Requests, NEW ok \in BOOLEAN, Enter(r, ok) PROVE InPlace(q)' /\ RowAgrees(q)'
  <2>1. CASE q = r
    BY <1>1, <1>9, <2>1 DEF Enter, TypeOK, InPlace, RowAgrees
  <2> QED BY <1>1, <1>2, <1>9, <2>1 DEF Enter, TypeOK
<1>10. ASSUME NEW r \in Requests, Respond(r) PROVE InPlace(q)' /\ RowAgrees(q)'
  <2>1. CASE q = r
    BY <1>1, <1>10, <2>1 DEF Respond, TypeOK, InPlace, RowAgrees
  <2> QED BY <1>1, <1>2, <1>10, <2>1 DEF Respond, TypeOK
<1>11. ASSUME NEW r \in Requests, Leave(r) PROVE InPlace(q)' /\ RowAgrees(q)'
  <2>1. CASE q = r
    BY <1>1, <1>11, <2>1 DEF Leave, TypeOK, InPlace, RowAgrees
  <2> QED BY <1>1, <1>2, <1>11, <2>1 DEF Leave, TypeOK
<1>12. CASE Exit
  BY <1>1, <1>12 DEF Exit, TypeOK, InPlace, RowAgrees
<1>13. CASE NextMonth \/ Shutdown \/ Restart \/ UNCHANGED vars
  BY <1>2, <1>13 DEF NextMonth, Shutdown, Restart, vars
<1> QED BY <1>3, <1>4, <1>5, <1>6, <1>7, <1>8, <1>9, <1>10, <1>11, <1>12, <1>13, Cases

(***************************************************************************)
(* Only the monthly check lets a request in, and it notes all of them.     *)
(***************************************************************************)
LEMMA NotedStep == IInv /\ [Next]_vars => Noted'
<1> SUFFICES ASSUME IInv, [Next]_vars PROVE Noted'
  OBVIOUS
<1>1. TypeOK /\ Noted /\ month \in 1..Months /\ Months \in Nat
  BY ServingAssumption DEF IInv, TypeOK
<1> USE DEF server, handler, history
<1>2. ASSUME UNCHANGED <<month, exposed>>, InFlight' \subseteq InFlight PROVE Noted'
  BY <1>1, <1>2 DEF Noted
<1> USE DEF Goto
<1>3. ASSUME NEW r \in Requests, NEW ok \in BOOLEAN, CheckMonthlyBudget(r, ok) PROVE Noted'
  <2>1. CASE Goto(r, "done") /\ UNCHANGED exposed
    BY <1>1, <1>2, <1>3, <2>1 DEF CheckMonthlyBudget, TypeOK, InFlight
  <2>2. CASE Goto(r, "checked") /\ exposed' = [exposed EXCEPT ![month] = InFlight \cup {r}]
    <3>1. InFlight' = InFlight \cup {r} /\ UNCHANGED month
      BY <1>1, <1>3, <2>2 DEF CheckMonthlyBudget, TypeOK, InFlight
    <3>2. exposed'[month] = InFlight \cup {r}
      BY <1>1, <2>2 DEF TypeOK
    <3>3. \A m \in 1..Months : m > month => exposed'[m] = exposed[m]
      BY <1>1, <2>2 DEF TypeOK
    <3> QED BY <1>1, <3>1, <3>2, <3>3 DEF Noted
  <2> QED BY <1>3, <2>1, <2>2 DEF CheckMonthlyBudget
<1>4. ASSUME NEW r \in Requests, NEW ok \in BOOLEAN,
             Arrive(r, ok) \/ ApplyOverrides(r, ok) \/ RecordCost(r, ok)
      PROVE  Noted'
  <2>1. UNCHANGED <<month, exposed>> /\ InFlight' \subseteq InFlight
    BY <1>1, <1>4 DEF Arrive, ApplyOverrides, RecordCost, TypeOK, InFlight
  <2> QED BY <1>2, <2>1
<1>5. ASSUME NEW r \in Requests, NEW c \in 0..MaxTurnCost, NEW final \in BOOLEAN,
             ModelTurn(r, c, final)
      PROVE  Noted'
  <2>1. UNCHANGED <<month, exposed>> /\ InFlight' \subseteq InFlight
    BY <1>1, <1>5 DEF ModelTurn, TypeOK, InFlight
  <2> QED BY <1>2, <2>1
<1>6. ASSUME NEW r \in Requests,
             ModelError(r) \/ Respond(r) \/ Leave(r) \/ \E ok \in BOOLEAN : Enter(r, ok)
      PROVE  Noted'
  <2>1. UNCHANGED <<month, exposed>> /\ InFlight' \subseteq InFlight
    BY <1>1, <1>6 DEF ModelError, Enter, Respond, Leave, TypeOK, InFlight
  <2> QED BY <1>2, <2>1
<1>7. CASE Exit
  <2>1. UNCHANGED <<month, exposed>> /\ InFlight' \subseteq InFlight
    BY <1>1, <1>7 DEF Exit, TypeOK, InFlight
  <2> QED BY <1>2, <2>1
<1>8. CASE NextMonth
  BY <1>1, <1>8 DEF NextMonth, Noted
<1>9. CASE Shutdown \/ Restart \/ UNCHANGED vars
  BY <1>2, <1>9 DEF Shutdown, Restart, vars, InFlight
<1> QED BY <1>3, <1>4, <1>5, <1>6, <1>7, <1>8, <1>9, Cases

(***************************************************************************)
(* What the requests that were not noted have spent in a month stays below *)
(* its cap: they write no more rows in it.                                 *)
(***************************************************************************)
LEMMA CapStep == IInv /\ [Next]_vars => CapHeld'
<1> SUFFICES ASSUME IInv, [Next]_vars, NEW m \in 1..Months, m \notin blind',
                    cfg'.ledger, exposed'[m] # {}
             PROVE  SumFunctionOnSet(SpendOf(m)', Requests \ exposed'[m]) < cfg'.Monthly
  BY DEF CapHeld
<1> DEFINE Others == Requests \ exposed[m]
<1>1. TypeOK /\ Noted /\ CapHeld /\ Rows /\ month \in 1..Months
  BY DEF IInv, TypeOK
<1>2. /\ IsFiniteSet(Requests) /\ IsFiniteSet(Others)
      /\ \A r \in Requests : SpendOf(m)[r] \in Nat
  BY <1>1, ServingAssumption, FS_Subset, SpendTypes
<1>3. ASSUME UNCHANGED <<cfg, exposed, blind>>,
             \A r \in Others : SpendOf(m)'[r] = SpendOf(m)[r]
      PROVE  SumFunctionOnSet(SpendOf(m)', Requests \ exposed'[m]) < cfg'.Monthly
  <2>1. SumFunctionOnSet(SpendOf(m), Others) < cfg.Monthly
    BY <1>1, <1>3 DEF CapHeld
  <2>2. SumFunctionOnSet(SpendOf(m), Others) = SumFunctionOnSet(SpendOf(m)', Others)
    BY <1>2, <1>3, SumEqual
  <2> QED BY <1>3, <2>1, <2>2
<1>4. ASSUME UNCHANGED <<cfg, exposed, blind, cost_entries>>
      PROVE  SumFunctionOnSet(SpendOf(m)', Requests \ exposed'[m]) < cfg'.Monthly
  BY <1>3, <1>4, SpendUnchanged
<1> USE DEF server, handler, history
<1>5. ASSUME NEW r \in Requests, NEW ok \in BOOLEAN, RecordCost(r, ok)
      PROVE  SumFunctionOnSet(SpendOf(m)', Requests \ exposed'[m]) < cfg'.Monthly
  <2>1. UNCHANGED <<cfg, exposed, blind>>
    BY <1>5 DEF RecordCost
  <2>2. r \in InFlight /\ cost_entries[r] = << >>
    BY <1>1, <1>5 DEF RecordCost, InFlight, Rows, RowAgrees
  <2>3. \A q \in Requests : q # r => cost_entries'[q] = cost_entries[q]
    BY <1>1, <1>5 DEF RecordCost, TypeOK
  <2>4. ASSUME r \in Others PROVE SpendOf(m)'[r] = SpendOf(m)[r]
    <3>1. month # m
      BY <1>1, <2>1, <2>2, <2>4 DEF Noted
    <3>2. cost_entries'[r] \in {<< >>, <<[cost |-> cost[r], month |-> month]>>}
      BY <1>1, <1>5, <2>2 DEF RecordCost, TypeOK
    <3>3. RowsOf(r, m)' = {}
      BY <3>1, <3>2 DEF RowsOf
    <3>4. SpendOf(m)'[r] = 0
      BY <3>3, SumEmpty DEF SpendOf
    <3> QED BY <1>1, <2>2, <3>4, SpendTypes
  <2>5. \A q \in Others : SpendOf(m)'[q] = SpendOf(m)[q]
    BY <2>3, <2>4, SpendUnchanged
  <2> QED BY <1>3, <2>1, <2>5
<1>6. ASSUME NEW r \in Requests, NEW ok \in BOOLEAN, CheckMonthlyBudget(r, ok)
      PROVE  SumFunctionOnSet(SpendOf(m)', Requests \ exposed'[m]) < cfg'.Monthly
  <2>1. UNCHANGED <<cfg, cost_entries>>
    BY <1>6 DEF CheckMonthlyBudget
  <2>2. CASE UNCHANGED <<exposed, blind>>
    BY <1>4, <2>1, <2>2
  <2>3. CASE ~ (cfg.Monthly > 0 /\ cfg.ledger /\ ok /\ CapReached)
    <3>1. /\ exposed' = [exposed EXCEPT ![month] = InFlight \cup {r}]
          /\ blind' = IF ok THEN blind ELSE blind \cup {month}
      BY <1>6, <2>3 DEF CheckMonthlyBudget
    <3>2. \A q \in Requests : SpendOf(m)'[q] = SpendOf(m)[q]
      BY <2>1, SpendUnchanged
    <3> DEFINE Left == Requests \ exposed'[m]
    <3>3. IsFiniteSet(Left) /\ Left \in SUBSET Requests
      BY <1>2, FS_Subset
    <3>4. SumFunctionOnSet(SpendOf(m), Left) = SumFunctionOnSet(SpendOf(m)', Left)
      <4>1. \A q \in Left : SpendOf(m)[q] \in Nat /\ SpendOf(m)'[q] = SpendOf(m)[q]
        BY <1>2, <3>2
      <4> HIDE DEF Left
      <4> QED BY <3>3, <4>1, SumEqual
    <3>5. CASE m = month
      <4>1. ok /\ cfg.ledger /\ cfg.Monthly > 0 /\ cfg.Monthly \in Nat
        BY <1>1, <2>1, <3>1, <3>5 DEF TypeOK, Setting
      <4>2. ~ CapReached
        BY <2>3, <4>1
      <4>3. MonthlySpend(m) \in Nat /\ SumFunctionOnSet(SpendOf(m), Left) \in Nat
        <5>1. \A q \in Left : SpendOf(m)[q] \in Nat
          BY <1>2
        <5> HIDE DEF Left
        <5> QED BY <1>2, <3>3, <5>1, SumNat DEF MonthlySpend
      <4>4. MonthlySpend(m) < cfg.Monthly
        BY <3>5, <4>1, <4>2, <4>3 DEF CapReached
      <4>5. SumFunctionOnSet(SpendOf(m), Left) <= MonthlySpend(m)
        <5> HIDE DEF Left
        <5> QED BY <1>2, <3>3, SumSubset DEF MonthlySpend
      <4> HIDE DEF Left
      <4>6. SumFunctionOnSet(SpendOf(m), Left) < cfg.Monthly
        BY <4>1, <4>3, <4>4, <4>5
      <4>7. SumFunctionOnSet(SpendOf(m)', Left) < cfg'.Monthly
        BY <2>1, <3>4, <4>6
      <4> QED BY <4>7 DEF Left
    <3>6. CASE m # month
      <4>1. exposed'[m] = exposed[m] /\ m \notin blind
        BY <1>1, <3>1, <3>6 DEF TypeOK
      <4>2. SumFunctionOnSet(SpendOf(m), Left) < cfg.Monthly
        BY <1>1, <2>1, <4>1 DEF CapHeld
      <4> QED BY <2>1, <3>4, <4>2
    <3> QED BY <3>5, <3>6
  <2> QED BY <1>6, <2>2, <2>3 DEF CheckMonthlyBudget
<1>7. ASSUME NEW r \in Requests, NEW ok \in BOOLEAN, Arrive(r, ok) \/ ApplyOverrides(r, ok)
      PROVE  SumFunctionOnSet(SpendOf(m)', Requests \ exposed'[m]) < cfg'.Monthly
  BY <1>4, <1>7 DEF Arrive, ApplyOverrides
<1>8. ASSUME NEW r \in Requests, NEW c \in 0..MaxTurnCost, NEW final \in BOOLEAN,
             ModelTurn(r, c, final)
      PROVE  SumFunctionOnSet(SpendOf(m)', Requests \ exposed'[m]) < cfg'.Monthly
  BY <1>4, <1>8 DEF ModelTurn
<1>9. ASSUME NEW r \in Requests,
             ModelError(r) \/ Respond(r) \/ Leave(r) \/ \E ok \in BOOLEAN : Enter(r, ok)
      PROVE  SumFunctionOnSet(SpendOf(m)', Requests \ exposed'[m]) < cfg'.Monthly
  BY <1>4, <1>9 DEF ModelError, Enter, Respond, Leave
<1>10. CASE NextMonth \/ Shutdown \/ Exit \/ Restart \/ UNCHANGED vars
  BY <1>4, <1>10 DEF NextMonth, Shutdown, Exit, Restart, vars
<1> QED BY <1>5, <1>6, <1>7, <1>8, <1>9, <1>10, Cases

(***************************************************************************)
(* The inductive invariant holds of every execution.                       *)
(***************************************************************************)
THEOREM ServingSound == Spec => []IInv
<1>1. IInv /\ [Next]_vars => IInv'
  <2> SUFFICES ASSUME IInv, [Next]_vars PROVE IInv'
    OBVIOUS
  <2> QED BY TypesStep, GaugeStep, RowsStep, NotedStep, CapStep DEF IInv
<1> QED BY InitInv, <1>1, PTL DEF Spec

-----------------------------------------------------------------------------
(* What follows.                                                           *)

(***************************************************************************)
(* Type correctness: in particular the gauge never goes below zero.        *)
(***************************************************************************)
THEOREM TypeCorrect == Spec => []TypeOK
<1>1. IInv => TypeOK
  BY DEF IInv
<1> QED BY <1>1, ServingSound, PTL

(***************************************************************************)
(* However a request ends, and however many run at once: the ledger holds  *)
(* one row with its whole spend, or none if it spent nothing, could not be *)
(* ledgered, or was killed; and the gauge counts the handlers there are.   *)
(***************************************************************************)
THEOREM EveryExitAccounted == Spec => []ExitsAccounted
<1>1. IInv => ExitsAccounted
  <2> SUFFICES ASSUME IInv PROVE SpendLedgered /\ ActiveSessionsExact
    BY DEF ExitsAccounted
  <2>1. SpendLedgered
    BY DEF IInv, Rows, RowAgrees, SpendLedgered
  <2>2. ActiveSessionsExact
    BY DEF IInv, GaugeExact, Counted, ActiveSessionsExact
  <2> QED BY <2>1, <2>2
<1> QED BY <1>1, ServingSound, PTL

(***************************************************************************)
(* With any number of requests in flight, a month's ledger stays below its *)
(* cap plus what the last request let in and those then in flight spend.   *)
(***************************************************************************)
THEOREM CapOvershootBounded == Spec => []MonthlyOvershootBounded
<1>1. IInv => MonthlyOvershootBounded
  <2> SUFFICES ASSUME IInv, NEW m \in (1..Months) \ blind, cfg.ledger, exposed[m] # {}
               PROVE  MonthlySpend(m) < cfg.Monthly + SumFunctionOnSet(cost, exposed[m])
    BY DEF MonthlyOvershootBounded
  <2> DEFINE E == exposed[m]
             Others == Requests \ E
  <2>1. TypeOK /\ Rows /\ CapHeld
    BY DEF IInv
  <2>2. E \subseteq Requests /\ IsFiniteSet(E) /\ IsFiniteSet(Others)
    BY <2>1, ServingAssumption, FS_Subset DEF TypeOK
  <2>3. \A r \in Requests : SpendOf(m)[r] \in Nat /\ cost[r] \in Nat /\ SpendOf(m)[r] <= cost[r]
    BY <2>1, SpendTypes, SpendBelow DEF TypeOK
  <2>4. SumFunctionOnSet(SpendOf(m), Others) < cfg.Monthly
    BY <2>1 DEF CapHeld
  <2>5. MonthlySpend(m) = SumFunctionOnSet(SpendOf(m), E) + SumFunctionOnSet(SpendOf(m), Others)
    <3>1. E \cup Others = Requests /\ E \cap Others = {} /\ Others \subseteq Requests
      BY <2>2
    <3> HIDE DEF E, Others
    <3> QED BY <2>2, <2>3, <3>1, ServingAssumption, SumDisjoint DEF MonthlySpend
  <2>6. SumFunctionOnSet(SpendOf(m), E) <= SumFunctionOnSet(cost, E)
    <3> HIDE DEF E
    <3> QED BY <2>2, <2>3, SumLeq
  <2>7. /\ SumFunctionOnSet(SpendOf(m), E) \in Nat /\ SumFunctionOnSet(cost, E) \in Nat
        /\ SumFunctionOnSet(SpendOf(m), Others) \in Nat /\ cfg.Monthly \in Nat
    <3>1. Others \subseteq Requests /\ cfg.Monthly \in Nat
      BY <2>1 DEF TypeOK, Setting
    <3> HIDE DEF E, Others
    <3> QED BY <2>2, <2>3, <3>1, SumNat
  <2>8. MonthlySpend(m) < cfg.Monthly + SumFunctionOnSet(cost, E)
    <3> HIDE DEF E, Others
    <3> QED BY <2>4, <2>5, <2>6, <2>7
  <2> QED BY <2>8
<1> QED BY <1>1, ServingSound, PTL

-----------------------------------------------------------------------------
(* Every request is metered.                                               *)

(***************************************************************************)
(* One step of the server is one step, or none, of each metered request.   *)
(***************************************************************************)
LEMMA MeteredStep ==
  ASSUME IInv, [Next]_vars, NEW q \in Requests
  PROVE  [Metered(q)!Next]_(Metered(q)!vars)
<1>1. TypeOK /\ InPlace(q)
  BY DEF IInv, Progress
<1> USE DEF server, handler, history, Goto, Answer
<1>2. ASSUME UNCHANGED <<cfg, cost>>, st'[q] = st[q]
      PROVE  [Metered(q)!Next]_(Metered(q)!vars)
  BY <1>2 DEF Metered!vars
<1>3. ASSUME UNCHANGED <<cfg, cost>>, st[q] # "running", st'[q] # "running"
      PROVE  [Metered(q)!Next]_(Metered(q)!vars)
  BY <1>3 DEF Metered!vars
<1>4. ASSUME UNCHANGED <<cfg, cost>>, st[q] = "running", st'[q] # "running"
      PROVE  [Metered(q)!Next]_(Metered(q)!vars)
  BY <1>4 DEF Metered!Next, Metered!End
<1>5. ASSUME NEW r \in Requests, NEW ok \in BOOLEAN, ApplyOverrides(r, ok)
      PROVE  [Metered(q)!Next]_(Metered(q)!vars)
  <2>1. UNCHANGED <<cfg, cost>>
    BY <1>5 DEF ApplyOverrides
  <2>2. CASE q # r
    <3>1. st'[q] = st[q]
      BY <1>1, <1>5, <2>2 DEF ApplyOverrides, TypeOK
    <3> QED BY <1>2, <2>1, <3>1
  <2>3. CASE q = r /\ ok
    <3>1. st[q] = "entered" /\ st'[q] = "running" /\ cost[q] = 0
      BY <1>1, <1>5, <2>3 DEF ApplyOverrides, TypeOK, InPlace
    <3>2. Metered(q)!Begin
      BY <2>1, <3>1 DEF Metered!Begin
    <3> QED BY <3>2 DEF Metered!Next
  <2>4. CASE q = r /\ ~ ok
    <3>1. st[q] = "entered" /\ st'[q] = "leaving"
      BY <1>1, <1>5, <2>4 DEF ApplyOverrides, TypeOK
    <3> QED BY <1>3, <2>1, <3>1
  <2> QED BY <2>2, <2>3, <2>4
<1>6. ASSUME NEW r \in Requests, NEW c \in 0..MaxTurnCost, NEW final \in BOOLEAN,
             ModelTurn(r, c, final)
      PROVE  [Metered(q)!Next]_(Metered(q)!vars)
  <2>1. CASE q # r
    <3>1. st'[q] = st[q] /\ cost'[q] = cost[q] /\ UNCHANGED cfg
      BY <1>1, <1>6, <2>1 DEF ModelTurn, TypeOK
    <3> QED BY <3>1 DEF Metered!vars
  <2>2. CASE q = r
    <3>1. /\ st[q] = "running" /\ st'[q] \in {"running", "answering"}
          /\ cost'[q] = cost[q] + c /\ UNCHANGED cfg
      BY <1>1, <1>6, <2>2 DEF ModelTurn, TypeOK
    <3>2. cfg.PerRequest > 0 /\ cost'[q] >= cfg.PerRequest => st'[q] = "answering"
      BY <1>1, <1>6, <2>2 DEF ModelTurn, TypeOK, CheckRequestBudget
    <3>3. Metered(q)!Turn(c)
      BY <3>1, <3>2 DEF Metered!Turn, Metered!Exhausted
    <3> QED BY <3>3 DEF Metered!Next
  <2> QED BY <2>1, <2>2
<1>7. ASSUME NEW r \in Requests, ModelError(r)
      PROVE  [Metered(q)!Next]_(Metered(q)!vars)
  <2>1. UNCHANGED <<cfg, cost>> /\ (q # r => st'[q] = st[q])
    BY <1>1, <1>7 DEF ModelError, TypeOK
  <2>2. q = r => st[q] = "running" /\ st'[q] = "recording"
    BY <1>1, <1>7 DEF ModelError, TypeOK
  <2> QED BY <1>2, <1>4, <2>1, <2>2
<1>8. ASSUME NEW r \in Requests, NEW ok \in BOOLEAN,
             Arrive(r, ok) \/ CheckMonthlyBudget(r, ok) \/ RecordCost(r, ok)
      PROVE  [Metered(q)!Next]_(Metered(q)!vars)
  <2>1. UNCHANGED <<cfg, cost>> /\ (q # r => st'[q] = st[q])
    BY <1>1, <1>8 DEF Arrive, CheckMonthlyBudget, RecordCost, TypeOK
  <2>2. q = r => st[q] # "running" /\ st'[q] # "running"
    BY <1>1, <1>8 DEF Arrive, CheckMonthlyBudget, RecordCost, TypeOK
  <2> QED BY <1>2, <1>3, <2>1, <2>2
<1>9. ASSUME NEW r \in Requests, Respond(r) \/ Leave(r) \/ \E ok \in BOOLEAN : Enter(r, ok)
      PROVE  [Metered(q)!Next]_(Metered(q)!vars)
  <2>1. UNCHANGED <<cfg, cost>> /\ (q # r => st'[q] = st[q])
    BY <1>1, <1>9 DEF Enter, Respond, Leave, TypeOK
  <2>2. q = r => st[q] # "running" /\ st'[q] # "running"
    BY <1>1, <1>9 DEF Enter, Respond, Leave, TypeOK
  <2> QED BY <1>2, <1>3, <2>1, <2>2
<1>10. CASE Exit
  <2>1. UNCHANGED <<cfg, cost>> /\ st'[q] \in {st[q], "killed"}
    BY <1>10 DEF Exit
  <2> QED BY <1>2, <1>3, <1>4, <2>1
<1>11. CASE NextMonth \/ Shutdown \/ Restart \/ UNCHANGED vars
  BY <1>2, <1>11 DEF NextMonth, Shutdown, Restart, vars
<1> QED BY <1>5, <1>6, <1>7, <1>8, <1>9, <1>10, <1>11, Cases

(***************************************************************************)
(* Whatever the other requests, the ledger and the process do, every       *)
(* request is a metered request: no model turn starts once its spend has   *)
(* reached the limit, and every turn is paid for.                          *)
(***************************************************************************)
THEOREM EveryRequestMetered == Spec => RequestsMetered
<1>1. Init => \A r \in Requests : Metered(r)!Init
  BY ServingAssumption DEF Init, Setting, Metered!Init
<1>2. IInv /\ [Next]_vars => [\A r \in Requests : [Metered(r)!Next]_(Metered(r)!vars)]_vars
  BY MeteredStep
<1> QED BY <1>1, <1>2, ServingSound, PTL DEF Spec, RequestsMetered
=============================================================================
