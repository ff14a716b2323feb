------------------------- MODULE AgentRuntimeProofs -------------------------
(***************************************************************************)
(* Proofs about AgentRuntime, for every set of configurations and every    *)
(* bound, and about McpClient, for any calls and lines of its servers.     *)
(***************************************************************************)
EXTENDS AgentRuntime, McpClient, SequenceTheorems, FiniteSetTheorems, TLAPS

-----------------------------------------------------------------------------
(* Facts about the operators.                                              *)

(***************************************************************************)
(* The tool uses of a turn are a sequence of ids as long as asked for.     *)
(***************************************************************************)
LEMMA UsesType ==
  ASSUME NEW n \in Nat, NEW a \in Nat, NEW b \in Nat
  PROVE  /\ [k \in 1..n |-> <<a, b, k>>] \in Seq(Id)
         /\ Len([k \in 1..n |-> <<a, b, k>>]) = n
<1> DEFINE uses == [k \in 1..n |-> <<a, b, k>>]
<1>1. uses \in [1..n -> Id]
  BY DEF Id
<1>2. uses \in Seq(Id)
  BY <1>1
<1>3. Len(uses) = n
  BY <1>1, <1>2, LenProperties
<1> QED BY <1>2, <1>3

(***************************************************************************)
(* What is written into the slots of a round is a sequence of that length. *)
(***************************************************************************)
LEMMA SlotsType ==
  ASSUME NEW S, NEW s \in Seq(S), NEW T, NEW f \in [1..Len(s) -> T]
  PROVE  f \in Seq(T) /\ Len(f) = Len(s)
<1>1. Len(s) \in Nat
  BY LenProperties
<1>2. f \in Seq(T)
  BY <1>1
<1>3. Len(f) = Len(s)
  BY <1>1, <1>2, LenProperties
<1> QED BY <1>2, <1>3

(***************************************************************************)
(* Every message the session appends is a message.                         *)
(***************************************************************************)
LEMMA MessageTypes ==
  /\ UserText \in Message
  /\ \A text \in BOOLEAN, uses \in Seq(Id) : Assistant(text, uses) \in Message
  /\ \A rs \in Seq(Id) : ToolResults(rs) \in Message
<1>1. << >> \in Seq(Id)
  OBVIOUS
<1> QED BY <1>1 DEF UserText, Assistant, ToolResults, Message

-----------------------------------------------------------------------------
(* Type correctness.                                                       *)

(***************************************************************************)
(* The first state has the types: no message, no round, nothing spent.     *)
(***************************************************************************)
LEMMA TypeInit == Init => TypeOK
<1> SUFFICES ASSUME Init PROVE TypeOK
  OBVIOUS
<1>1. cfg \in Config
  BY RuntimeAssumption DEF Init
<1>2. Messages \in Seq(Message) /\ round \in Seq(Id) /\ Len(round) = 0
  BY DEF Init
<1>3. /\ worker \in [1..Len(round) -> WorkerState]
      /\ seen \in [1..Len(round) -> Nat]
      /\ results \in [1..Len(round) -> Id]
  BY <1>2 DEF Init
<1> QED BY <1>1, <1>2, <1>3 DEF Init, TypeOK

(***************************************************************************)
(* Every step keeps the types, one step of the proof per action.           *)
(***************************************************************************)
LEMMA TypeStep == TypeOK /\ [Next]_vars => TypeOK'
<1> SUFFICES ASSUME TypeOK, [Next]_vars PROVE TypeOK'
  OBVIOUS
<1> USE DEF TypeOK, vars, session, toolVars, ghosts
<1>1. CASE SendMessage
  <2>1. Messages' \in Seq(Message)
    BY <1>1, MessageTypes, AppendProperties DEF SendMessage
  <2> QED BY <1>1, <2>1 DEF SendMessage
<1>2. CASE NextPrompt
  BY <1>2 DEF NextPrompt
<1>3. CASE Clear
  <2>1. Messages' \in Seq(Message)
    BY <1>3 DEF Clear
  <2> QED BY <1>3, <2>1 DEF Clear
<1>4. ASSUME NEW text \in BOOLEAN, NEW n \in 0..MaxUses, NEW c \in 0..MaxTurnCost,
             ModelTurn(text, n, c)
      PROVE  TypeOK'
  <2> DEFINE uses == [k \in 1..n |-> <<requests, iter, k>>]
  <2>1. n \in Nat /\ c \in Nat
    BY RuntimeAssumption
  <2>0. requests \in Nat /\ iter \in Nat
    OBVIOUS
  <2>2. uses \in Seq(Id) /\ Len(uses) = n
    <3> HIDE DEF TypeOK, vars, session, toolVars, ghosts
    <3> QED BY <2>0, <2>1, UsesType
  <2>3. Messages' \in Seq(Message)
    BY <1>4, <2>2, MessageTypes, AppendProperties DEF ModelTurn
  <2>4. cost' \in Nat /\ BudgetStopped' \in BOOLEAN
    BY <1>4, <2>1 DEF ModelTurn, BudgetExceeded
  <2>5. CASE n = 0 \/ BudgetStopped \/ BudgetExceeded(cost + c)
    <3>1. /\ pc' = "returned" /\ UNCHANGED toolVars
          /\ cut' \in {cut, cut \cup {Len(Messages) + 1}}
      BY <1>4, <2>5 DEF ModelTurn
    <3>2. Len(Messages) \in Nat
      BY LenProperties
    <3> QED BY <1>4, <2>3, <2>4, <3>1, <3>2 DEF ModelTurn
  <2>6. CASE ~(n = 0 \/ BudgetStopped \/ BudgetExceeded(cost + c))
    <3>1. /\ pc' = "tools" /\ round' = uses /\ UNCHANGED cut
          /\ worker' = [k \in 1..n |-> "todo"]
          /\ seen' = [k \in 1..n |-> 0]
          /\ results' = [k \in 1..n |-> NoId]
      BY <1>4, <2>6 DEF ModelTurn
    <3>2. /\ worker' \in [1..Len(round') -> WorkerState]
          /\ seen' \in [1..Len(round') -> Nat]
          /\ results' \in [1..Len(round') -> Id]
      BY <2>2, <3>1 DEF WorkerState, NoId, Id
    <3> QED BY <1>4, <2>2, <2>3, <2>4, <3>1, <3>2 DEF ModelTurn
  <2> QED BY <2>5, <2>6
<1>5. CASE ModelError
  BY <1>5 DEF ModelError
<1>6. ASSUME NEW k \in 1..Len(round), CallStep(k) PROVE TypeOK'
  <2>1. CASE LoadCount(k)
    BY <1>6, <2>1 DEF LoadCount, WorkerState
  <2>2. CASE StoreCount(k)
    BY <1>6, <2>2 DEF StoreCount, WorkerState
  <2>3. CASE FinishCall(k)
    <3>1. round[k] \in Id
      BY <1>6, ElementOfSeq
    <3> QED BY <1>6, <2>3, <3>1 DEF FinishCall, WorkerState
  <2> QED BY <1>6, <2>1, <2>2, <2>3 DEF CallStep
<1>7. CASE CollectResults
  <2>1. Messages' \in Seq(Message)
    <3>1. results \in Seq(Id)
      BY SlotsType
    <3> QED BY <1>7, <3>1, MessageTypes, AppendProperties DEF CollectResults
  <2>2. pc' \in {"model", "returned"} /\ iter' \in Nat
    BY <1>7 DEF CollectResults
  <2> QED BY <1>7, <2>1, <2>2 DEF CollectResults
<1>8. CASE UNCHANGED vars
  BY <1>8
<1> QED BY <1>1, <1>2, <1>3, <1>4, <1>5, <1>6, <1>7, <1>8 DEF Next, Loop

(***************************************************************************)
(* Type correctness, for every configuration and every bound.              *)
(***************************************************************************)
THEOREM TypeCorrect == Spec => []TypeOK
BY TypeInit, TypeStep, PTL DEF Spec

-----------------------------------------------------------------------------
(* The spend of a request.                                                 *)

(***************************************************************************)
(* Inductive: while a request runs it has either spent nothing yet or the  *)
(* whole session is still below the limit, so that one turn cannot carry   *)
(* it a whole turn beyond.                                                 *)
(***************************************************************************)
SpendInv ==
  /\ startCost <= cost
  /\ cfg.BudgetPerRequest > 0 =>
       /\ cost - startCost < cfg.BudgetPerRequest + MaxTurnCost
       /\ pc \in {"model", "tools"} => cost = startCost \/ cost < cfg.BudgetPerRequest

(***************************************************************************)
(* A turn moves the cost, and the loop goes on only below the limit.       *)
(***************************************************************************)
LEMMA TurnSpends ==
  ASSUME TypeOK, NEW text \in BOOLEAN, NEW n \in 0..MaxUses, NEW c \in 0..MaxTurnCost,
         ModelTurn(text, n, c)
  PROVE  /\ pc = "model" /\ cost' = cost + c
         /\ UNCHANGED <<cfg, startCost>>
         /\ pc' \in {"tools", "returned"}
         /\ cfg.BudgetPerRequest > 0 /\ cost' >= cfg.BudgetPerRequest => pc' = "returned"
<1>1. CASE n = 0 \/ BudgetStopped \/ BudgetExceeded(cost + c)
  BY <1>1 DEF ModelTurn
<1>2. CASE ~(n = 0 \/ BudgetStopped \/ BudgetExceeded(cost + c))
  BY <1>2 DEF ModelTurn, BudgetExceeded
<1> QED BY <1>1, <1>2

(***************************************************************************)
(* The spend of a request stays below its limit plus one turn, however     *)
(* much one session has spent before.                                      *)
(***************************************************************************)
LEMMA SpendStep == TypeOK /\ SpendInv /\ [Next]_vars => SpendInv'
<1> SUFFICES ASSUME TypeOK, SpendInv, [Next]_vars PROVE SpendInv'
  OBVIOUS
<1>0. /\ cost \in Nat /\ startCost \in Nat
      /\ cfg.BudgetPerRequest \in Nat /\ MaxTurnCost \in Nat
  BY RuntimeAssumption DEF TypeOK, Config
<1> USE DEF SpendInv, vars, session, toolVars, ghosts
<1>1. CASE SendMessage
  BY <1>0, <1>1 DEF SendMessage
<1>2. CASE NextPrompt
  BY <1>2 DEF NextPrompt
<1>3. CASE Clear
  BY <1>3 DEF Clear
<1>4. ASSUME NEW text \in BOOLEAN, NEW n \in 0..MaxUses, NEW c \in 0..MaxTurnCost,
             ModelTurn(text, n, c)
      PROVE  SpendInv'
  <2>1. /\ pc = "model" /\ cost' = cost + c /\ UNCHANGED <<cfg, startCost>>
        /\ pc' \in {"tools", "returned"}
        /\ cfg.BudgetPerRequest > 0 /\ cost' >= cfg.BudgetPerRequest => pc' = "returned"
    BY <1>4, TurnSpends
  <2> QED BY <1>0, <2>1
<1>5. CASE ModelError
  BY <1>5 DEF ModelError
<1>6. ASSUME NEW k \in 1..Len(round), CallStep(k) PROVE SpendInv'
  BY <1>6 DEF CallStep, LoadCount, StoreCount, FinishCall
<1>7. CASE CollectResults
  BY <1>7 DEF CollectResults
<1>8. CASE UNCHANGED vars
  BY <1>8
<1> QED BY <1>1, <1>2, <1>3, <1>4, <1>5, <1>6, <1>7, <1>8 DEF Next, Loop

(***************************************************************************)
(* The budget check bounds every request, for every limit and every cost   *)
(* of a turn.                                                              *)
(***************************************************************************)
THEOREM SpendBounded == Spec => []RequestSpendBounded
<1>1. Init => SpendInv
  BY RuntimeAssumption DEF Init, SpendInv, Config
<1>2. SpendInv => RequestSpendBounded
  BY DEF SpendInv, RequestSpendBounded
<1> QED BY <1>1, <1>2, SpendStep, TypeCorrect, PTL DEF Spec

-----------------------------------------------------------------------------
(* The runtime implements a metered request.                               *)

(***************************************************************************)
(* A new session has spent nothing under the limit of its configuration.   *)
(***************************************************************************)
LEMMA MeteredInit == Init => MR!Init
BY RuntimeAssumption DEF Init, MR!Init, Config

(***************************************************************************)
(* Sending begins a request, a model turn is a turn of it, an error or the *)
(* last round ends it, and nothing else shows.                             *)
(***************************************************************************)
LEMMA MeteredStep == TypeOK /\ SpendInv /\ [Next]_vars => [MR!Next]_MR!vars
<1> SUFFICES ASSUME TypeOK, SpendInv, [Next]_vars PROVE [MR!Next]_MR!vars
  OBVIOUS
<1>0. /\ cost \in Nat /\ startCost \in Nat /\ startCost <= cost
      /\ cfg.BudgetPerRequest \in Nat /\ MaxTurnCost \in Nat
  BY RuntimeAssumption DEF TypeOK, Config, SpendInv
<1> USE DEF vars, session, toolVars, ghosts, MR!vars
<1>1. CASE SendMessage
  <2>1. MR!Begin
    BY <1>0, <1>1 DEF SendMessage, MR!Begin
  <2> QED BY <2>1 DEF MR!Next
<1>2. CASE NextPrompt
  BY <1>2 DEF NextPrompt
<1>3. CASE Clear
  BY <1>3 DEF Clear
<1>4. ASSUME NEW text \in BOOLEAN, NEW n \in 0..MaxUses, NEW c \in 0..MaxTurnCost,
             ModelTurn(text, n, c)
      PROVE  [MR!Next]_MR!vars
  <2>1. /\ pc = "model" /\ cost' = cost + c /\ UNCHANGED <<cfg, startCost>>
        /\ pc' \in {"tools", "returned"}
        /\ cfg.BudgetPerRequest > 0 /\ cost' >= cfg.BudgetPerRequest => pc' = "returned"
    BY <1>4, TurnSpends
  <2>2. MR!Turn(c)
    BY <1>0, <2>1 DEF MR!Turn, MR!Exhausted
  <2> QED BY <2>2 DEF MR!Next
<1>5. CASE ModelError
  <2>1. MR!End
    BY <1>5 DEF ModelError, MR!End
  <2> QED BY <2>1 DEF MR!Next
<1>6. ASSUME NEW k \in 1..Len(round), CallStep(k) PROVE UNCHANGED MR!vars
  BY <1>6 DEF CallStep, LoadCount, StoreCount, FinishCall
<1>7. CASE CollectResults
  <2>1. /\ pc = "tools" /\ pc' \in {"model", "returned"}
        /\ UNCHANGED <<cfg, cost, startCost>>
    BY <1>7 DEF CollectResults
  <2>2. CASE pc' = "model"
    BY <2>1, <2>2
  <2>3. CASE pc' = "returned"
    BY <2>1, <2>3 DEF MR!End, MR!Next
  <2> QED BY <2>1, <2>2, <2>3
<1>8. CASE UNCHANGED vars
  BY <1>8
<1> QED BY <1>1, <1>2, <1>3, <1>4, <1>5, <1>6, <1>7, <1>8 DEF Next, Loop

(***************************************************************************)
(* Every session of the runtime behaves, message by message, as one        *)
(* metered request after another: no turn after the limit is met.          *)
(***************************************************************************)
THEOREM RuntimeImplements == Spec => ImplementsMeteredRequest
<1>1. Init => SpendInv
  BY RuntimeAssumption DEF Init, SpendInv, Config
<1> QED BY <1>1, MeteredInit, MeteredStep, SpendStep, TypeCorrect, PTL
        DEF Spec, ImplementsMeteredRequest, MR!Spec

-----------------------------------------------------------------------------
(* Tool calls are answered.                                                *)

(***************************************************************************)
(* Inductive: the round being executed is the one the last message asks    *)
(* for, and a call that is done has filled its own slot.                   *)
(***************************************************************************)
Pending(i) == i = Len(Messages) /\ pc = "tools" /\ Messages[i].uses = round

AnsweredInv ==
  /\ \A i \in 1..Len(Messages) :
       Messages[i].uses # << >> => Answered(i) \/ i \in cut \/ Pending(i)
  /\ \A k \in 1..Len(round) : worker[k] = "done" => results[k] = round[k]

(***************************************************************************)
(* A message that is appended leaves the answered ones answered; it only   *)
(* has to answer the round that was pending, if one was, and to be pending *)
(* or cut itself if it asks for tools.                                     *)
(***************************************************************************)
LEMMA AppendAnswers ==
  ASSUME TypeOK, AnsweredInv, NEW m \in Message,
         TypeOK', Messages' = Append(Messages, m),
         cut \subseteq cut',
         pc = "tools" => m.role = "user" /\ m.results = round,
         m.uses # << >> => \/ Len(Messages) + 1 \in cut'
                           \/ pc' = "tools" /\ m.uses = round'
  PROVE  \A i \in 1..Len(Messages') :
           Messages'[i].uses # << >> => Answered(i)' \/ i \in cut' \/ Pending(i)'
<1>1. /\ Messages \in Seq(Message) /\ Len(Messages) \in Nat
      /\ Len(Messages') = Len(Messages) + 1
      /\ \A i \in 1..Len(Messages) : Messages'[i] = Messages[i]
      /\ Messages'[Len(Messages) + 1] = m
  BY AppendProperties, LenProperties DEF TypeOK
<1>2. ASSUME NEW i \in 1..Len(Messages), Messages[i].uses # << >>
      PROVE  Answered(i)' \/ i \in cut'
  <2>1. CASE Answered(i)
    <3>1. i + 1 \in 1..Len(Messages)
      BY <1>1, <2>1 DEF Answered
    <3> QED BY <1>1, <2>1, <3>1 DEF Answered
  <2>2. CASE Pending(i)
    BY <1>1, <2>2 DEF Answered, Pending
  <2> QED BY <1>2, <2>1, <2>2 DEF AnsweredInv
<1>3. m.uses # << >> =>
        \/ Len(Messages) + 1 \in cut'
        \/ pc' = "tools" /\ Messages'[Len(Messages) + 1].uses = round'
  BY <1>1
<1> SUFFICES ASSUME NEW i \in 1..Len(Messages'), Messages'[i].uses # << >>
             PROVE  Answered(i)' \/ i \in cut' \/ Pending(i)'
  OBVIOUS
<1>4. CASE i \in 1..Len(Messages)
  BY <1>1, <1>2, <1>4
<1>5. CASE i = Len(Messages) + 1
  BY <1>1, <1>3, <1>5 DEF Pending
<1> QED BY <1>1, <1>4, <1>5

(***************************************************************************)
(* When all calls are done the results are the tool uses, in order.        *)
(***************************************************************************)
LEMMA ResultsInOrder ==
  ASSUME TypeOK, AnsweredInv, \A k \in 1..Len(round) : worker[k] = "done"
  PROVE  results = round
<1>1. results \in Seq(Id) /\ Len(results) = Len(round)
  BY SlotsType DEF TypeOK
<1>2. \A k \in 1..Len(results) : results[k] = round[k]
  BY <1>1 DEF AnsweredInv
<1> QED BY <1>1, <1>2, SeqEqual DEF TypeOK

(***************************************************************************)
(* Every step keeps the answered messages answered and the pending round   *)
(* the last one.                                                           *)
(***************************************************************************)
LEMMA AnsweredStep == TypeOK /\ TypeOK' /\ AnsweredInv /\ [Next]_vars => AnsweredInv'
<1> SUFFICES ASSUME TypeOK, TypeOK', AnsweredInv, [Next]_vars PROVE AnsweredInv'
  OBVIOUS
<1> USE DEF vars, session, toolVars, ghosts
<1>1. CASE SendMessage
  <2>1. UserText \in Message /\ UserText.uses = << >>
    BY MessageTypes DEF UserText
  <2>2. \A i \in 1..Len(Messages') :
          Messages'[i].uses # << >> => Answered(i)' \/ i \in cut' \/ Pending(i)'
    BY <1>1, <2>1, AppendAnswers DEF SendMessage
  <2> QED BY <1>1, <2>2 DEF SendMessage, AnsweredInv
<1>2. CASE NextPrompt
  BY <1>2 DEF NextPrompt, AnsweredInv, Answered, Pending
<1>3. CASE Clear
  <2>1. Len(Messages') = 0
    BY <1>3 DEF Clear
  <2> QED BY <1>3, <2>1 DEF Clear, AnsweredInv
<1>4. ASSUME NEW text \in BOOLEAN, NEW n \in 0..MaxUses, NEW c \in 0..MaxTurnCost,
             ModelTurn(text, n, c)
      PROVE  AnsweredInv'
  <2> DEFINE uses == [k \in 1..n |-> <<requests, iter, k>>]
             m == Assistant(text, uses)
             stop == BudgetStopped \/ BudgetExceeded(cost + c)
  <2>0. n \in Nat
    BY RuntimeAssumption
  <2>1. uses \in Seq(Id) /\ Len(uses) = n /\ (n = 0 => uses = << >>)
    <3>0. requests \in Nat /\ iter \in Nat
      BY DEF TypeOK
    <3>1. uses \in Seq(Id) /\ Len(uses) = n
      BY <2>0, <3>0, UsesType
    <3> QED BY <3>1, EmptySeq
  <2>2. m \in Message /\ m.uses = uses
    BY <2>1, MessageTypes DEF Assistant
  <2>3. pc = "model" /\ Messages' = Append(Messages, m)
    BY <1>4 DEF ModelTurn
  <2>4. CASE n = 0 \/ stop
    <3>1. /\ UNCHANGED toolVars /\ cut \subseteq cut'
          /\ n > 0 => Len(Messages) + 1 \in cut'
      BY <1>4, <2>4 DEF ModelTurn
    <3>2. m.uses # << >> => Len(Messages) + 1 \in cut'
      BY <2>0, <2>1, <2>2, <3>1
    <3>3. \A i \in 1..Len(Messages') :
            Messages'[i].uses # << >> => Answered(i)' \/ i \in cut' \/ Pending(i)'
      BY <2>2, <2>3, <3>1, <3>2, AppendAnswers
    <3> QED BY <3>1, <3>3 DEF AnsweredInv
  <2>5. CASE ~(n = 0 \/ stop)
    <3>1. /\ pc' = "tools" /\ round' = uses /\ UNCHANGED cut
          /\ worker' = [k \in 1..n |-> "todo"]
      BY <1>4, <2>5 DEF ModelTurn
    <3>2. \A i \in 1..Len(Messages') :
            Messages'[i].uses # << >> => Answered(i)' \/ i \in cut' \/ Pending(i)'
      BY <2>2, <2>3, <3>1, AppendAnswers
    <3>3. \A k \in 1..Len(round') : worker'[k] # "done"
      BY <2>1, <3>1
    <3> QED BY <3>2, <3>3 DEF AnsweredInv
  <2> QED BY <2>4, <2>5
<1>5. CASE ModelError
  BY <1>5 DEF ModelError, AnsweredInv, Answered, Pending
<1>6. ASSUME NEW k \in 1..Len(round), CallStep(k) PROVE AnsweredInv'
  <2>1. UNCHANGED <<pc, Messages, round, cut>>
    BY <1>6 DEF CallStep, LoadCount, StoreCount, FinishCall
  <2>2. \A j \in 1..Len(round) : worker'[j] = "done" => results'[j] = round[j]
    <3>1. CASE LoadCount(k) \/ StoreCount(k)
      BY <3>1 DEF LoadCount, StoreCount, TypeOK, AnsweredInv
    <3>2. CASE FinishCall(k)
      BY <3>2 DEF FinishCall, TypeOK, AnsweredInv
    <3> QED BY <1>6, <3>1, <3>2 DEF CallStep
  <2> QED BY <2>1, <2>2 DEF AnsweredInv, Answered, Pending
<1>7. CASE CollectResults
  <2> DEFINE m == ToolResults(results)
  <2>1. results = round
    BY <1>7, ResultsInOrder DEF CollectResults
  <2>2. m \in Message /\ m.role = "user" /\ m.uses = << >> /\ m.results = round
    <3>1. results \in Seq(Id)
      BY SlotsType DEF TypeOK
    <3> QED BY <2>1, <3>1, MessageTypes DEF ToolResults
  <2>3. Messages' = Append(Messages, m) /\ UNCHANGED <<toolVars, cut>>
    BY <1>7 DEF CollectResults
  <2>4. \A i \in 1..Len(Messages') :
          Messages'[i].uses # << >> => Answered(i)' \/ i \in cut' \/ Pending(i)'
    BY <2>2, <2>3, AppendAnswers
  <2> QED BY <2>3, <2>4 DEF AnsweredInv
<1>8. CASE UNCHANGED vars
  BY <1>8 DEF AnsweredInv, Answered, Pending
<1> QED BY <1>1, <1>2, <1>3, <1>4, <1>5, <1>6, <1>7, <1>8 DEF Next, Loop

(***************************************************************************)
(* However many tools a turn asks for and in whatever order parallel calls *)
(* return, the next message answers exactly them, in the order asked,      *)
(* unless a budget stop cut the turn.                                      *)
(***************************************************************************)
THEOREM CallsAnswered == Spec => []ToolUsesAnswered
<1>1. Init => AnsweredInv
  BY EmptySeq DEF Init, AnsweredInv
<1>2. AnsweredInv => ToolUsesAnswered
  BY DEF AnsweredInv, ToolUsesAnswered, Pending
<1> QED BY <1>1, <1>2, AnsweredStep, TypeCorrect, PTL DEF Spec

-----------------------------------------------------------------------------
(* Tool calls are counted.                                                 *)

(***************************************************************************)
(* Inductive: what a call loaded is never more than the calls made; with   *)
(* sequential execution the calls before the one under way are done, so    *)
(* that it loaded the current count.                                       *)
(***************************************************************************)
CountInv ==
  /\ ToolCalls <= invoked
  /\ \A k \in 1..Len(round) : worker[k] = "counting" => seen[k] <= invoked
  /\ ~cfg.ParallelToolCalls =>
       /\ ToolCalls = invoked
       /\ \A k \in 1..Len(round) : worker[k] = "counting" => seen[k] = ToolCalls
       /\ \A k \in 1..Len(round) : worker[k] # "todo" =>
            \A j \in 1..(k - 1) : worker[j] = "done"

(***************************************************************************)
(* Every step keeps the count below the calls made, and equal to them when *)
(* calls run one after another.                                            *)
(***************************************************************************)
LEMMA CountStep == TypeOK /\ CountInv /\ [Next]_vars => CountInv'
<1> SUFFICES ASSUME TypeOK, CountInv, [Next]_vars PROVE CountInv'
  OBVIOUS
<1>0. Len(round) \in Nat
  BY LenProperties DEF TypeOK
<1> USE DEF vars, session, toolVars, ghosts
<1>1. CASE SendMessage \/ NextPrompt \/ Clear \/ ModelError \/ CollectResults \/ UNCHANGED vars
  <2>1. UNCHANGED <<cfg, ToolCalls, invoked, round, worker, seen>>
    BY <1>1 DEF SendMessage, NextPrompt, Clear, ModelError, CollectResults
  <2> QED BY <2>1 DEF CountInv
<1>2. ASSUME NEW text \in BOOLEAN, NEW n \in 0..MaxUses, NEW c \in 0..MaxTurnCost,
             ModelTurn(text, n, c)
      PROVE  CountInv'
  <2> DEFINE uses == [k \in 1..n |-> <<requests, iter, k>>]
             stop == BudgetStopped \/ BudgetExceeded(cost + c)
  <2>1. UNCHANGED <<cfg, ToolCalls, invoked>>
    BY <1>2 DEF ModelTurn
  <2>2. CASE n = 0 \/ stop
    <3>1. UNCHANGED toolVars
      BY <1>2, <2>2 DEF ModelTurn
    <3> QED BY <2>1, <3>1 DEF CountInv
  <2>3. CASE ~(n = 0 \/ stop)
    <3>1. round' = uses /\ worker' = [k \in 1..n |-> "todo"]
      BY <1>2, <2>3 DEF ModelTurn
    <3>2. n \in Nat
      BY RuntimeAssumption
    <3>3. Len(round') = n
      BY <3>1, <3>2, UsesType DEF TypeOK
    <3>4. \A k \in 1..Len(round') : worker'[k] = "todo"
      BY <3>1, <3>3
    <3> QED BY <2>1, <3>4 DEF CountInv
  <2> QED BY <2>2, <2>3
<1>3. ASSUME NEW k \in 1..Len(round), LoadCount(k) PROVE CountInv'
  <2>1. /\ UNCHANGED <<cfg, ToolCalls, invoked, round>>
        /\ \A j \in 1..Len(round) :
             /\ worker'[j] = IF j = k THEN "counting" ELSE worker[j]
             /\ seen'[j] = IF j = k THEN ToolCalls ELSE seen[j]
    BY <1>3 DEF LoadCount, TypeOK
  <2>2. ~cfg.ParallelToolCalls => \A j \in 1..(k - 1) : worker[j] = "done"
    BY <1>3 DEF LoadCount, Runnable
  <2>3. worker[k] = "todo" /\ ToolCalls \in Nat
    BY <1>3 DEF LoadCount, TypeOK
  <2>4. /\ ToolCalls' <= invoked'
        /\ \A j \in 1..Len(round) : worker'[j] = "counting" => seen'[j] <= invoked'
    BY <2>1 DEF CountInv
  <2>5. ASSUME ~cfg.ParallelToolCalls
        PROVE  /\ ToolCalls' = invoked'
               /\ \A j \in 1..Len(round) : worker'[j] = "counting" => seen'[j] = ToolCalls'
               /\ \A j \in 1..Len(round) : worker'[j] # "todo" =>
                    \A i \in 1..(j - 1) : worker'[i] = "done"
    <3>1. ToolCalls' = invoked'
      BY <2>1, <2>5 DEF CountInv
    <3>2. \A j \in 1..Len(round) : worker'[j] = "counting" => seen'[j] = ToolCalls'
      BY <2>1, <2>5 DEF CountInv
    <3>3. ASSUME NEW j \in 1..Len(round), worker'[j] # "todo", NEW i \in 1..(j - 1)
          PROVE  worker'[i] = "done"
      <4>1. worker[i] = "done"
        BY <1>0, <2>1, <2>2, <2>5, <3>3 DEF CountInv
      <4> QED BY <1>0, <2>1, <2>3, <4>1
    <3> QED BY <3>1, <3>2, <3>3
  <2> QED BY <2>1, <2>4, <2>5 DEF CountInv
<1>4. ASSUME NEW k \in 1..Len(round), StoreCount(k) PROVE CountInv'
  <2>1. /\ UNCHANGED <<cfg, round, seen>> /\ worker[k] = "counting"
        /\ ToolCalls' = seen[k] + 1 /\ invoked' = invoked + 1
        /\ \A j \in 1..Len(round) :
             worker'[j] = IF j = k THEN "calling" ELSE worker[j]
    BY <1>4 DEF StoreCount, TypeOK
  <2>2. seen \in [1..Len(round) -> Nat] /\ invoked \in Nat /\ ToolCalls \in Nat
    BY DEF TypeOK
  <2>3. /\ ToolCalls' <= invoked'
        /\ \A j \in 1..Len(round) : worker'[j] = "counting" => seen'[j] <= invoked'
    BY <2>1, <2>2 DEF CountInv
  <2>4. ASSUME ~cfg.ParallelToolCalls
        PROVE  /\ ToolCalls' = invoked'
               /\ \A j \in 1..Len(round) : worker'[j] # "counting"
               /\ \A j \in 1..Len(round) : worker'[j] # "todo" =>
                    \A i \in 1..(j - 1) : worker'[i] = "done"
    <3>1. \A j \in 1..Len(round) : worker[j] # "todo" =>
            \A i \in 1..(j - 1) : worker[i] = "done"
      BY <2>4 DEF CountInv
    <3>2. \A j \in 1..Len(round) : worker[j] # "todo" => j <= k
      BY <1>0, <2>1, <3>1
    <3>3. \A j \in 1..(k - 1) : worker[j] = "done"
      BY <2>1, <3>1
    <3>4. ToolCalls' = invoked'
      BY <2>1, <2>2, <2>4 DEF CountInv
    <3>5. \A j \in 1..Len(round) : worker'[j] # "counting"
      BY <1>0, <2>1, <3>2, <3>3
    <3>6. \A j \in 1..Len(round) : worker'[j] # "todo" =>
            \A i \in 1..(j - 1) : worker'[i] = "done"
      BY <1>0, <2>1, <3>1, <3>2
    <3> QED BY <3>4, <3>5, <3>6
  <2> QED BY <2>1, <2>3, <2>4 DEF CountInv
<1>5. ASSUME NEW k \in 1..Len(round), FinishCall(k) PROVE CountInv'
  <2>1. /\ UNCHANGED <<cfg, ToolCalls, invoked, round, seen>> /\ worker[k] = "calling"
        /\ \A j \in 1..Len(round) :
             worker'[j] = IF j = k THEN "done" ELSE worker[j]
    BY <1>5 DEF FinishCall, TypeOK
  <2> QED BY <1>0, <2>1 DEF CountInv
<1> QED BY <1>1, <1>2, <1>3, <1>4, <1>5 DEF Next, Loop, CallStep

(***************************************************************************)
(* No interleaving of tool calls makes the session report more calls than  *)
(* were made, and sequential execution reports them all.                   *)
(***************************************************************************)
THEOREM CallsCounted == Spec => []ToolCallsCounted
<1>1. Init => CountInv
  BY EmptySeq DEF Init, CountInv
<1>2. CountInv => ToolCallsCounted
  BY DEF CountInv, ToolCallsCounted
<1> QED BY <1>1, <1>2, CountStep, TypeCorrect, PTL DEF Spec

-----------------------------------------------------------------------------
(* McpClient: an answer and the call it is for. *)

(***************************************************************************)
(* The case AnswersAreOwn speaks of: no two requests have been under way   *)
(* together, and none was left to its reader. A step that keeps it finds   *)
(* everything in the order that the following parts describe.              *)
(***************************************************************************)
Alone == ~overlapped /\ expired = {}

\* A call that waits has its reader, or what its reader has sent it.
Paired(r) ==
  /\ reader[r] = "reading" => call[r] = "waiting" /\ ch[r] = "none"
  /\ ch[r] \in {"none", "eof", r}
  /\ result[r] \in {"none", "error", r}
  /\ call[r] = "new" => reader[r] = "none" /\ ch[r] = "none"

\* There is one answer on its way or on its way back at most, and somebody
\* reads for it.
OneAnswer ==
  /\ \A q, r \in stdin : q = r
  /\ \A i, j \in 1..Len(stdout) : stdout[i] # Notice /\ stdout[j] # Notice => i = j
  /\ \A r \in stdin : \A i \in 1..Len(stdout) : stdout[i] = Notice
  /\ \A i \in 1..Len(stdout) : stdout[i] # Notice => reader[stdout[i]] = "reading"

\* While the server runs, who reads is owed an answer and who is owed one reads.
BothWays ==
  /\ stage = "new" => server = "none"
  /\ server = "none" => stdin = {} /\ stdout = << >> /\ Reading = {}
  /\ server = "running" =>
       /\ \A r \in stdin : reader[r] = "reading"
       /\ \A r \in Reading : r \in stdin \/ \E i \in 1..Len(stdout) : stdout[i] = r

OneAtATime ==
  /\ \A q, r \in Waiting : q = r
  /\ \A r \in Requests : Paired(r)

(***************************************************************************)
(* The inductive invariant. AnswersAreOwn looks at what has been returned, *)
(* the invariant at every place an answer can be in between: the server's  *)
(* input and output, the reader, its channel.                              *)
(***************************************************************************)
McpInv == McpTypes /\ (Alone => OneAtATime /\ OneAnswer /\ BothWays)

(***************************************************************************)
(* The steps one at a time.                                                *)
(***************************************************************************)
LEMMA McpCases ==
  ASSUME [McpNext]_mcpVars
  PROVE  \/ SendStartup \/ \E usable \in BOOLEAN : NextStage(usable)
         \/ \E r \in Requests : Read(r) \/ EndOfFile(r) \/ Return(r) \/ Expire(r) \/ Answer(r)
         \/ Start \/ Close \/ LoseLine \/ \E r \in Calls : CallTool(r)
         \/ Note \/ Die \/ Kill \/ UNCHANGED mcpVars
BY DEF McpNext, Client

(***************************************************************************)
(* The types hold at the start, whatever the circumstances.                *)
(***************************************************************************)
LEMMA McpInitTypes == McpAssumption /\ McpInit => McpTypes
<1> SUFFICES ASSUME McpAssumption, McpInit PROVE McpTypes
  OBVIOUS
<1>1. world \in World /\ notes \in 0..MaxNotes
  BY DEF McpAssumption, McpInit
<1>2. stdout \in Seq(Lines) /\ stdin \subseteq Requests /\ expired \subseteq Requests
  BY DEF McpInit
<1> QED BY <1>1, <1>2 DEF McpInit, McpTypes

(***************************************************************************)
(* Every step keeps them.                                                  *)
(***************************************************************************)
LEMMA McpTypesStep == McpAssumption /\ McpTypes /\ [McpNext]_mcpVars => McpTypes'
<1> SUFFICES ASSUME McpAssumption, McpTypes, [McpNext]_mcpVars PROVE McpTypes'
  OBVIOUS
<1> USE DEF McpTypes, requestVars
<1>0. MaxNotes \in Nat
  BY DEF McpAssumption
<1>1. ASSUME NEW r \in Requests, Send(r), UNCHANGED <<stage, server>> PROVE McpTypes'
  <2>1. CASE server = "running" /\ stage # "closed"
    BY <1>1, <2>1 DEF Send
  <2>2. CASE ~(server = "running" /\ stage # "closed")
    BY <1>1, <2>2 DEF Send
  <2> QED BY <2>1, <2>2
<1>2. CASE SendStartup
  BY <1>1, <1>2 DEF SendStartup, Startup, Requests
<1>3. ASSUME NEW r \in Calls, CallTool(r) PROVE McpTypes'
  BY <1>1, <1>3 DEF CallTool, Requests
<1>4. ASSUME NEW usable \in BOOLEAN, NextStage(usable) PROVE McpTypes'
  BY <1>4 DEF NextStage
<1>5. ASSUME NEW r \in Requests, Read(r) PROVE McpTypes'
  <2>1. Head(stdout) \in Lines /\ Tail(stdout) \in Seq(Lines)
    BY <1>5 DEF Read
  <2>2. stdout' \in Seq(Lines)
    BY <1>5, <2>1 DEF Read
  <2>3. reader' \in [Requests -> {"none", "reading", "ended"}] /\ ch' \in [Requests -> Requests \cup {"none", "eof"}]
    BY <1>5, <2>1 DEF Read, TakeLine, Lines
  <2> QED BY <1>5, <2>2, <2>3 DEF Read
<1>6. CASE LoseLine
  <2>1. stdout' \in Seq(Lines)
    BY <1>6 DEF LoseLine
  <2> QED BY <1>6, <2>1 DEF LoseLine
<1>7. ASSUME NEW r \in Requests, EndOfFile(r) PROVE McpTypes'
  BY <1>7 DEF EndOfFile
<1>8. ASSUME NEW r \in Requests, Return(r) PROVE McpTypes'
  BY <1>8 DEF Return
<1>9. ASSUME NEW r \in Requests, Expire(r) PROVE McpTypes'
  BY <1>9 DEF Expire
<1>10. ASSUME NEW r \in Requests, Answer(r) PROVE McpTypes'
  <2>1. stdout' \in Seq(Lines)
    BY <1>10 DEF Answer, Lines
  <2> QED BY <1>10, <2>1 DEF Answer
<1>11. CASE Start \/ Close \/ Die \/ Kill
  BY <1>11 DEF Start, Close, Die, Kill
<1>12. CASE Note
  <2>1. stdout' \in Seq(Lines)
    BY <1>12 DEF Note, Lines
  <2> QED BY <1>0, <1>12, <2>1 DEF Note
<1>13. CASE UNCHANGED mcpVars
  BY <1>13 DEF mcpVars
<1> QED BY <1>2, <1>3, <1>4, <1>5, <1>6, <1>7, <1>8, <1>9, <1>10, <1>11, <1>12, <1>13, McpCases

(***************************************************************************)
(* Nothing is under way at the start.                                      *)
(***************************************************************************)
LEMMA McpInitInv == McpAssumption /\ McpInit => McpInv
<1> SUFFICES ASSUME McpAssumption, McpInit PROVE McpInv
  OBVIOUS
<1>1. OneAtATime
  BY DEF McpInit, OneAtATime, Waiting, Paired
<1>2. OneAnswer
  BY DEF McpInit, OneAnswer
<1>3. BothWays
  BY DEF McpInit, BothWays, Reading
<1> QED BY <1>1, <1>2, <1>3, McpInitTypes DEF McpInv

(***************************************************************************)
(* With one request at a time there is one reader at most, so that LoseLine*)
(* cannot happen: it takes two to lose a line.                             *)
(***************************************************************************)
LEMMA AtMostOneReads == ASSUME OneAtATime PROVE Cardinality(Reading) <= 1
<1>1. CASE Reading = {}
  <2>1. Cardinality(Reading) = 0
    BY <1>1, FS_EmptySet
  <2> QED BY <2>1
<1>2. CASE Reading # {}
  <2>1. PICK r \in Requests : Reading = {r}
    BY <1>2 DEF OneAtATime, Paired, Reading, Waiting
  <2>2. Cardinality(Reading) = 1
    BY <2>1, FS_Singleton
  <2> QED BY <2>2
<1> QED BY <1>1, <1>2

(***************************************************************************)
(* A step that leaves no second request and no reader behind keeps the     *)
(* order: the request that is sent finds all lines of earlier ones taken,  *)
(* and the line a reader takes is the answer to its own request, or none.  *)
(***************************************************************************)
LEMMA AloneStep ==
  ASSUME McpAssumption, McpTypes, Alone', [McpNext]_mcpVars,
         OneAtATime, OneAnswer, BothWays, Alone
  PROVE  (OneAtATime /\ OneAnswer /\ BothWays)'
<1> USE DEF McpTypes, requestVars, Waiting, Reading
<1>0. Notice \notin Requests /\ Startup \subseteq Requests /\ Calls \subseteq Requests
  BY DEF McpAssumption, Requests, Startup, Notice
<1>1. ASSUME NEW r \in Requests, Send(r), UNCHANGED <<stage, server>>, stage # "new"
      PROVE  (OneAtATime /\ OneAnswer /\ BothWays)'
  <2>1. CASE server = "running" /\ stage # "closed"
    <3>1. /\ stdin' = stdin \cup {r} /\ reader' = [reader EXCEPT ![r] = "reading"]
          /\ call' = [call EXCEPT ![r] = "waiting"] /\ call[r] = "new"
          /\ UNCHANGED <<stdout, ch, result>>
          /\ \A q \in Requests : call[q] # "waiting"
      BY <1>1, <2>1 DEF Send, Alone
    <3>2. \A q \in Requests : reader[q] # "reading"
      BY <3>1 DEF OneAtATime, Paired
    <3>3. stdin = {} /\ \A i \in 1..Len(stdout) : stdout[i] = Notice
      BY <2>1, <3>2 DEF OneAnswer, BothWays, Lines
    <3>4. OneAtATime'
      BY <3>1 DEF OneAtATime, Paired
    <3>5. OneAnswer'
      BY <3>1, <3>3 DEF OneAnswer
    <3>6. BothWays'
      BY <1>1, <2>1, <3>1, <3>2, <3>3 DEF BothWays
    <3> QED BY <3>4, <3>5, <3>6
  <2>2. CASE ~(server = "running" /\ stage # "closed")
    <3>1. /\ call' = [call EXCEPT ![r] = "returned"] /\ result' = [result EXCEPT ![r] = "error"]
          /\ call[r] = "new" /\ UNCHANGED <<stdin, stdout, reader, ch>>
      BY <1>1, <2>2 DEF Send
    <3>4. OneAtATime'
      BY <3>1 DEF OneAtATime, Paired
    <3>5. OneAnswer'
      BY <3>1 DEF OneAnswer
    <3>6. BothWays'
      BY <1>1, <3>1 DEF BothWays
    <3> QED BY <3>4, <3>5, <3>6
  <2> QED BY <2>1, <2>2
<1>2. CASE SendStartup
  BY <1>0, <1>1, <1>2 DEF SendStartup, Startup
<1>3. ASSUME NEW r \in Calls, CallTool(r) PROVE (OneAtATime /\ OneAnswer /\ BothWays)'
  BY <1>0, <1>1, <1>3 DEF CallTool
<1>4. ASSUME NEW usable \in BOOLEAN, NextStage(usable) PROVE (OneAtATime /\ OneAnswer /\ BothWays)'
  <2>1. UNCHANGED <<server, stdin, stdout, reader, ch, call, result>> /\ stage' # "new"
    BY <1>4 DEF NextStage
  <2> QED BY <2>1 DEF OneAtATime, Paired, OneAnswer, BothWays
<1>5. ASSUME NEW r \in Requests, Read(r) PROVE (OneAtATime /\ OneAnswer /\ BothWays)'
  <2>1. /\ reader[r] = "reading" /\ stdout # << >> /\ UNCHANGED <<stage, server, stdin, call, result>>
        /\ \A q \in Requests : reader[q] = "reading" => q = r
    BY <1>5 DEF Read, OneAtATime, Paired
  <2>2. stdout' = Tail(stdout) /\ Len(stdout) \in Nat \ {0}
    BY <1>5, <2>1 DEF Read
  <2>3. /\ Len(stdout') = Len(stdout) - 1
        /\ \A i \in 1..Len(stdout') : i + 1 \in 1..Len(stdout) /\ stdout'[i] = stdout[i + 1]
    BY <2>2
  <2>4. Head(stdout) = stdout[1] /\ 1 \in 1..Len(stdout) /\ stdout[1] \in Lines
    BY <2>1, <2>2
  <2>5. CASE stdout[1] = Notice
    <3>1. UNCHANGED <<reader, ch>>
      BY <1>5, <2>4, <2>5 DEF Read, TakeLine
    <3>2. OneAtATime'
      BY <2>1, <3>1 DEF OneAtATime, Paired
    <3>3. OneAnswer'
      BY <2>1, <2>3, <3>1 DEF OneAnswer
    <3>4. \A q \in Requests : (\E i \in 1..Len(stdout) : stdout[i] = q) => \E i \in 1..Len(stdout') : stdout'[i] = q
      <4> SUFFICES ASSUME NEW q \in Requests, NEW i \in 1..Len(stdout), stdout[i] = q
                   PROVE  \E j \in 1..Len(stdout') : stdout'[j] = q
        OBVIOUS
      <4>1. i # 1
        BY <1>0, <2>5
      <4>2. i - 1 \in 1..Len(stdout') /\ (i - 1) + 1 = i
        BY <2>2, <2>3, <4>1
      <4> QED BY <2>3, <4>2
    <3>5. BothWays'
      BY <2>1, <3>1, <3>4 DEF BothWays
    <3> QED BY <3>2, <3>3, <3>5
  <2>6. CASE stdout[1] # Notice
    <3>1. reader[stdout[1]] = "reading" /\ stdout[1] \in Requests
      BY <2>4, <2>6 DEF OneAnswer, Lines
    <3>2. stdout[1] = r
      BY <2>1, <3>1
    <3>3. reader' = [reader EXCEPT ![r] = "ended"] /\ ch' = [ch EXCEPT ![r] = r]
      BY <1>5, <2>4, <2>6, <3>2 DEF Read, TakeLine
    <3>4. stdin = {} /\ \A i \in 1..Len(stdout') : stdout'[i] = Notice
      BY <2>2, <2>3, <2>4, <2>6 DEF OneAnswer
    <3>5. OneAtATime'
      BY <2>1, <3>3 DEF OneAtATime, Paired
    <3>6. OneAnswer'
      BY <2>1, <3>4 DEF OneAnswer
    <3>7. BothWays'
      BY <2>1, <3>3, <3>4 DEF BothWays
    <3> QED BY <3>5, <3>6, <3>7
  <2> QED BY <2>5, <2>6
<1>6. CASE LoseLine
  <2>1. Cardinality(Reading) <= 1
    BY AtMostOneReads
  <2>2. Cardinality(Reading) > 1 /\ Cardinality(Reading) \in Nat
    <3>1. IsFiniteSet(Requests)
      <4>1. Startup = {"initialize"} \cup {"tools/list"}
        BY DEF Startup
      <4>2. IsFiniteSet({"initialize"}) /\ IsFiniteSet({"tools/list"}) /\ IsFiniteSet(Calls)
        BY FS_Singleton DEF McpAssumption
      <4> QED BY <4>1, <4>2, FS_Union DEF Requests
    <3>2. IsFiniteSet(Reading)
      BY <3>1, FS_Subset
    <3> QED BY <1>6, <3>2, FS_CardinalityType DEF LoseLine
  <2> QED BY <2>1, <2>2
<1>7. ASSUME NEW r \in Requests, EndOfFile(r) PROVE (OneAtATime /\ OneAnswer /\ BothWays)'
  <2>1. /\ reader[r] = "reading" /\ reader' = [reader EXCEPT ![r] = "ended"] /\ ch' = [ch EXCEPT ![r] = "eof"]
        /\ stdout = << >> /\ server \in {"dead", "killed"}
        /\ UNCHANGED <<stage, server, stdin, stdout, call, result>>
    BY <1>7 DEF EndOfFile
  <2>2. OneAtATime'
    BY <2>1 DEF OneAtATime, Paired
  <2>3. OneAnswer'
    BY <2>1 DEF OneAnswer
  <2>4. BothWays'
    BY <2>1 DEF BothWays
  <2> QED BY <2>2, <2>3, <2>4
<1>8. ASSUME NEW r \in Requests, Return(r) PROVE (OneAtATime /\ OneAnswer /\ BothWays)'
  <2>1. /\ call[r] = "waiting" /\ ch[r] # "none" /\ call' = [call EXCEPT ![r] = "returned"]
        /\ result' = [result EXCEPT ![r] = IF ch[r] = "eof" THEN "error" ELSE ch[r]]
        /\ UNCHANGED <<stage, server, stdin, stdout, reader, ch>>
    BY <1>8 DEF Return
  <2>2. OneAtATime'
    BY <2>1 DEF OneAtATime, Paired
  <2>3. OneAnswer'
    BY <2>1 DEF OneAnswer
  <2>4. BothWays'
    BY <2>1 DEF BothWays
  <2> QED BY <2>2, <2>3, <2>4
<1>9. ASSUME NEW r \in Requests, Expire(r) PROVE (OneAtATime /\ OneAnswer /\ BothWays)'
  BY <1>9 DEF Expire, Alone
<1>10. ASSUME NEW r \in Requests, Answer(r) PROVE (OneAtATime /\ OneAnswer /\ BothWays)'
  <2>1. /\ server = "running" /\ r \in stdin /\ stdin' = stdin \ {r} /\ stdout' = Append(stdout, r)
        /\ UNCHANGED <<stage, server, reader, ch, call, result>>
    BY <1>10 DEF Answer
  <2>2. /\ Len(stdout) \in Nat /\ Len(stdout') = Len(stdout) + 1 /\ stdout'[Len(stdout) + 1] = r
        /\ \A i \in 1..Len(stdout) : stdout'[i] = stdout[i] /\ stdout[i] = Notice
    BY <2>1 DEF OneAnswer, Lines
  <2>3. stdin' = {} /\ reader[r] = "reading"
    BY <2>1 DEF OneAnswer, BothWays
  <2>4. OneAtATime'
    BY <2>1 DEF OneAtATime, Paired
  <2>5. \A i \in 1..Len(stdout') : i = Len(stdout) + 1 \/ i \in 1..Len(stdout)
    BY <2>2
  <2>6. OneAnswer'
    BY <2>1, <2>2, <2>3, <2>5 DEF OneAnswer
  <2>7. \A q \in Requests : reader[q] = "reading" => q = r
    BY <2>3 DEF OneAtATime, Paired
  <2>8. Len(stdout) + 1 \in 1..Len(stdout')
    BY <2>2
  <2>9. BothWays'
    BY <2>1, <2>2, <2>3, <2>7, <2>8 DEF BothWays
  <2> QED BY <2>4, <2>6, <2>9
<1>11. CASE Start
  <2>1. /\ server = "none" /\ server' = "running" /\ stage' # "new"
        /\ UNCHANGED <<stdin, stdout, reader, ch, call, result>>
    BY <1>11 DEF Start, BothWays
  <2> QED BY <2>1 DEF OneAtATime, Paired, OneAnswer, BothWays
<1>12. CASE Close \/ Die \/ Kill
  <2>1. /\ UNCHANGED <<stdin, stdout, reader, ch, call, result>>
        /\ \/ stage' = stage /\ server = "running" /\ server' \in {"dead", "killed"}
           \/ stage = "ready" /\ stage' = "closed" /\ server' = server
    BY <1>12 DEF Close, Die, Kill
  <2> QED BY <2>1 DEF OneAtATime, Paired, OneAnswer, BothWays
<1>13. CASE Note
  <2>1. /\ server = "running" /\ stdout' = Append(stdout, Notice)
        /\ UNCHANGED <<stage, server, stdin, reader, ch, call, result>>
    BY <1>13 DEF Note
  <2>2. /\ Len(stdout) \in Nat /\ Len(stdout') = Len(stdout) + 1 /\ stdout'[Len(stdout) + 1] = Notice
        /\ \A i \in 1..Len(stdout) : stdout'[i] = stdout[i] /\ i \in 1..Len(stdout')
    BY <2>1 DEF Lines
  <2>3. \A i \in 1..Len(stdout') : i = Len(stdout) + 1 \/ i \in 1..Len(stdout)
    BY <2>2
  <2>4. OneAtATime'
    BY <2>1 DEF OneAtATime, Paired
  <2>5. OneAnswer'
    BY <2>1, <2>2, <2>3 DEF OneAnswer
  <2>6. BothWays'
    BY <2>1, <2>2 DEF BothWays
  <2> QED BY <2>4, <2>5, <2>6
<1>14. CASE UNCHANGED mcpVars
  BY <1>14 DEF mcpVars, OneAtATime, Paired, OneAnswer, BothWays
<1> QED BY <1>2, <1>3, <1>4, <1>5, <1>6, <1>7, <1>8, <1>9, <1>10, <1>11, <1>12, <1>13, <1>14, McpCases

(***************************************************************************)
(* What has once overlapped or expired stays so.                           *)
(***************************************************************************)
LEMMA StillAlone == ASSUME McpTypes, [McpNext]_mcpVars, Alone' PROVE Alone
<1> USE DEF Alone, McpTypes
<1>1. overlapped \in BOOLEAN
  OBVIOUS
<1>2. (overlapped => overlapped') /\ expired \subseteq expired'
  <2> USE DEF requestVars
  <2>1. ASSUME NEW r, Send(r) PROVE (overlapped => overlapped') /\ expired \subseteq expired'
    BY <2>1 DEF Send
  <2> QED BY <2>1, McpCases DEF SendStartup, NextStage, Read, EndOfFile, Return, Expire, Answer, Start, Close,
       LoseLine, CallTool, Note, Die, Kill, mcpVars
<1> QED BY <1>1, <1>2

(***************************************************************************)
(* The invariant is inductive.                                             *)
(***************************************************************************)
LEMMA McpInvStep == McpAssumption /\ McpInv /\ [McpNext]_mcpVars => McpInv'
BY McpTypesStep, AloneStep, StillAlone DEF McpInv

(***************************************************************************)
(* It says what AnswersAreOwn says.                                        *)
(***************************************************************************)
LEMMA OwnAnswers == McpAssumption /\ McpInv => AnswersAreOwn
<1> SUFFICES ASSUME McpAssumption, McpInv, Alone PROVE (\A r \in Requests : result[r] \in {"none", "error", r}) /\ ReadersMatch
  BY DEF AnswersAreOwn, Alone
<1> USE DEF McpInv
<1>1. \A r \in Requests : result[r] \in {"none", "error", r}
  BY DEF OneAtATime, Paired
<1>2. Reading \subseteq Waiting
  BY DEF OneAtATime, Paired, Reading, Waiting
<1>3. Cardinality(Reading) <= 1
  BY AtMostOneReads
<1>4. server = "running" => Outstanding = Reading
  <2> SUFFICES ASSUME server = "running" PROVE Outstanding = Reading
    OBVIOUS
  <2>1. DOMAIN stdout = 1..Len(stdout)
    BY DEF McpTypes
  <2>2. Notice \notin Requests
    BY DEF McpAssumption, Requests, Startup, Notice
  <2> QED BY <2>1, <2>2 DEF Outstanding, BothWays, OneAnswer, Reading, McpTypes
<1> QED BY <1>1, <1>2, <1>3, <1>4 DEF ReadersMatch

(***************************************************************************)
(* A call returns the answer to its own request, and there is exactly one  *)
(* reader for each line that is due, as long as requests come one at a time*)
(* and none expires. (harness.go send and its reader goroutine: the first  *)
(* line with any id.)                                                      *)
(***************************************************************************)
THEOREM AnswersOwn == McpSpec => []AnswersAreOwn
<1>1. McpSpec => []McpInv
  BY McpAssumption, McpInitInv, McpInvStep, PTL DEF McpSpec
<1> QED BY <1>1, McpAssumption, OwnAnswers, PTL

=============================================================================
