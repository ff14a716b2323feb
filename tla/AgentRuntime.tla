---------------------------- MODULE AgentRuntime ----------------------------
(***************************************************************************)
(* runtime.Session: the tool-call loop of SendMessage, its message         *)
(* history, its budget check and its sequential or parallel tool           *)
(* execution, driven by one of the two kinds of caller in the repository:  *)
(* the serving API makes one session per HTTP request, the chat REPL keeps *)
(* one session for many messages, resets BudgetStopped after each and may  *)
(* clear the history.  Text, tool arguments and tool output are abstracted *)
(* to whether there is any and whose it is; costs are whole units.         *)
(***************************************************************************)
EXTENDS Integers, Sequences

CONSTANTS
  Configs,               \* the configurations a session may be created with
  DefaultIterations,     \* the 50 rounds the code falls back to
  MaxTurnCost,           \* bound: the most one model turn costs
  MaxUses,               \* bound: tool calls the model asks for in one turn
  MaxRequests            \* bound: messages sent in one session

\* BudgetPerRequest 0 wires no budget check; chat tells the REPL's session
\* from the serving API's.
Config == [MaxToolCalls : Int, ParallelToolCalls : BOOLEAN,
           BudgetPerRequest : Nat, chat : BOOLEAN]

ASSUME RuntimeAssumption ==
  /\ Configs \subseteq Config
  /\ DefaultIterations \in Nat \ {0}
  /\ MaxTurnCost \in Nat /\ MaxUses \in Nat /\ MaxRequests \in Nat

VARIABLES
  cfg,            \* Session.Config.Settings, and who owns the session
  pc,             \* where SendMessage and its caller are
  Messages,       \* Session.Messages
  cost,           \* Session.EstimatedCost(): grows with TotalInput/TotalOutput
  ToolCalls,      \* Session.ToolCalls
  BudgetStopped,  \* Session.BudgetStopped
  iter,           \* the loop variable i
  round,          \* toolUses of the turn being executed: a sequence of ids
  worker,         \* where the call of each tool use is
  seen,           \* the value of ToolCalls each call loaded for its increment
  results,        \* the tool_result written for each tool use
  requests,       \* messages sent so far
  startCost,      \* history: the cost when the current request started
  invoked,        \* history: tool invocations made
  cut             \* history: turns whose tool calls a budget stop dropped

session == <<cfg, Messages, cost, ToolCalls, BudgetStopped>>
toolVars == <<round, worker, seen, results>>
ghosts == <<startCost, invoked, cut>>
vars == <<pc, session, iter, toolVars, requests, ghosts>>

maxIterations ==
  IF cfg.MaxToolCalls <= 0 THEN DefaultIterations ELSE cfg.MaxToolCalls

\* A tool use is named by the message, the turn and the position it came from.
Id == Nat \X Nat \X Nat
NoId == <<0, 0, 0>>

UserText == [role |-> "user", text |-> TRUE, uses |-> << >>, results |-> << >>]
Assistant(text, uses) ==
  [role |-> "assistant", text |-> text, uses |-> uses, results |-> << >>]
ToolResults(rs) ==
  [role |-> "user", text |-> FALSE, uses |-> << >>, results |-> rs]
Message == [role : {"user", "assistant"}, text : BOOLEAN, uses : Seq(Id), results : Seq(Id)]

WorkerState == {"todo", "counting", "calling", "done"}

TypeOK ==
  /\ cfg \in Config
  /\ pc \in {"idle", "model", "tools", "returned"}
  /\ Messages \in Seq(Message)
  /\ cost \in Nat /\ startCost \in Nat
  /\ ToolCalls \in Nat /\ invoked \in Nat
  /\ BudgetStopped \in BOOLEAN
  /\ iter \in Nat /\ requests \in Nat
  /\ round \in Seq(Id)
  /\ worker \in [1..Len(round) -> WorkerState]
  /\ seen \in [1..Len(round) -> Nat]
  /\ results \in [1..Len(round) -> Id]
  /\ cut \in SUBSET Nat

Init ==
  /\ cfg \in Configs
  /\ pc = "idle"
  /\ Messages = << >> /\ cost = 0 /\ ToolCalls = 0 /\ BudgetStopped = FALSE
  /\ iter = 0 /\ requests = 0
  /\ round = << >> /\ worker = << >> /\ seen = << >> /\ results = << >>
  /\ startCost = 0 /\ invoked = 0 /\ cut = {}

-----------------------------------------------------------------------------
(* The caller.                                                             *)

\* SendMessage is entered: the user message is appended before anything else.
SendMessage ==
  /\ pc = "idle"
  /\ requests < (IF cfg.chat THEN MaxRequests ELSE 1)
  /\ pc' = "model"
  /\ Messages' = Append(Messages, UserText)
  /\ iter' = 0
  /\ requests' = requests + 1
  /\ startCost' = cost
  /\ UNCHANGED <<cfg, cost, ToolCalls, BudgetStopped, toolVars, invoked, cut>>

\* The REPL warns about a budget stop, resets the flag and prompts again.
NextPrompt ==
  /\ cfg.chat /\ pc = "returned"
  /\ pc' = "idle"
  /\ BudgetStopped' = FALSE
  /\ UNCHANGED <<cfg, Messages, cost, ToolCalls, iter, toolVars, requests, ghosts>>

\* /clear drops the history and nothing else.
Clear ==
  /\ cfg.chat /\ pc = "idle" /\ Messages # << >>
  /\ Messages' = << >>
  /\ cut' = {}
  /\ UNCHANGED <<cfg, pc, cost, ToolCalls, BudgetStopped, iter, toolVars, requests,
                 startCost, invoked>>

-----------------------------------------------------------------------------
(* One iteration of the loop: a model turn, then a round of tool calls.    *)

\* Slip: the limit itself is still let through.
BudgetExceededLate(c) == cfg.BudgetPerRequest > 0 /\ c > cfg.BudgetPerRequest

\* CheckRequestBudget; the session has no check when no limit is configured.
BudgetExceeded(c) == cfg.BudgetPerRequest > 0 /\ c >= cfg.BudgetPerRequest

\* The provider answers with some text or none, n tool uses, at a cost of c.
ModelTurn(text, n, c) ==
  /\ pc = "model"
  /\ LET uses == [k \in 1..n |-> <<requests, iter, k>>]
         stop == BudgetStopped \/ BudgetExceeded(cost + c)
     IN /\ cost' = cost + c
        /\ BudgetStopped' = stop
        /\ Messages' = Append(Messages, Assistant(text, uses))
        /\ IF n = 0 \/ stop
             THEN /\ pc' = "returned"
                  /\ cut' = IF n > 0 THEN cut \cup {Len(Messages) + 1} ELSE cut
                  /\ UNCHANGED toolVars
             ELSE /\ pc' = "tools"
                  /\ round' = uses
                  /\ worker' = [k \in 1..n |-> "todo"]
                  /\ seen' = [k \in 1..n |-> 0]
                  /\ results' = [k \in 1..n |-> NoId]
                  /\ UNCHANGED cut
  /\ UNCHANGED <<cfg, ToolCalls, iter, requests, startCost, invoked>>

\* CreateMessageStream fails: what was appended so far stays in the history.
ModelError ==
  /\ pc = "model"
  /\ pc' = "returned"
  /\ UNCHANGED <<session, iter, toolVars, requests, ghosts>>

\* executeToolsParallel starts every call at once; otherwise in order.
Runnable(k) ==
  \/ cfg.ParallelToolCalls /\ Len(round) > 1
  \/ \A j \in 1..(k - 1) : worker[j] = "done"

\* s.ToolCalls++ is a load and a store, and no lock covers the two.
LoadCount(k) ==
  /\ pc = "tools" /\ worker[k] = "todo" /\ Runnable(k)
  /\ seen' = [seen EXCEPT ![k] = ToolCalls]
  /\ worker' = [worker EXCEPT ![k] = "counting"]
  /\ UNCHANGED <<pc, session, iter, round, results, requests, ghosts>>

StoreCount(k) ==
  /\ pc = "tools" /\ worker[k] = "counting"
  /\ ToolCalls' = seen[k] + 1
  /\ invoked' = invoked + 1
  /\ worker' = [worker EXCEPT ![k] = "calling"]
  /\ UNCHANGED <<cfg, pc, Messages, cost, BudgetStopped, iter, round, seen, results,
                 requests, startCost, cut>>

\* Slip: results fill the slots in the order in which the calls finish.
FinishCallByArrival(k) ==
  /\ pc = "tools" /\ worker[k] = "calling"
  /\ \E i \in 1..Len(round) :
       /\ results[i] = NoId /\ \A j \in 1..(i - 1) : results[j] # NoId
       /\ results' = [results EXCEPT ![i] = round[k]]
  /\ worker' = [worker EXCEPT ![k] = "done"]
  /\ UNCHANGED <<pc, session, iter, round, seen, requests, ghosts>>

\* Slip: the call is counted once more when it returns.
FinishCallCounts(k) ==
  /\ pc = "tools" /\ worker[k] = "calling"
  /\ results' = [results EXCEPT ![k] = round[k]]
  /\ worker' = [worker EXCEPT ![k] = "done"]
  /\ ToolCalls' = ToolCalls + 1
  /\ UNCHANGED <<cfg, pc, Messages, cost, BudgetStopped, iter, round, seen, requests, ghosts>>

\* Slip: a call that returns does not tell the wait group.
FinishCallSilently(k) ==
  /\ pc = "tools" /\ worker[k] = "calling"
  /\ results' = [results EXCEPT ![k] = round[k]]
  /\ UNCHANGED <<pc, session, iter, round, worker, seen, requests, ghosts>>

\* CallTool returned, or failed: an error becomes the text of the result too.
FinishCall(k) ==
  /\ pc = "tools" /\ worker[k] = "calling"
  /\ results' = [results EXCEPT ![k] = round[k]]
  /\ worker' = [worker EXCEPT ![k] = "done"]
  /\ UNCHANGED <<pc, session, iter, round, seen, requests, ghosts>>

\* All calls are back: one user message carries the results in order.
CollectResults ==
  /\ pc = "tools"
  /\ \A k \in 1..Len(round) : worker[k] = "done"
  /\ Messages' = Append(Messages, ToolResults(results))
  /\ iter' = iter + 1
  /\ pc' = IF iter' < maxIterations + 1 THEN "model" ELSE "returned"
  /\ UNCHANGED <<cfg, cost, ToolCalls, BudgetStopped, toolVars, requests, ghosts>>

-----------------------------------------------------------------------------
CallStep(k) == LoadCount(k) \/ StoreCount(k) \/ FinishCall(k)

Loop ==
  \/ \E text \in BOOLEAN, n \in 0..MaxUses, c \in 0..MaxTurnCost : ModelTurn(text, n, c)
  \/ ModelError
  \/ \E k \in 1..Len(round) : CallStep(k)
  \/ CollectResults

Next == SendMessage \/ NextPrompt \/ Clear \/ Loop

Spec == Init /\ [][Next]_vars

\* Model calls are bounded by the HTTP client's timeout; tools are assumed to
\* return, and the Go scheduler runs every goroutine that can run.
FairSpec == Spec /\ WF_vars(Loop)

-----------------------------------------------------------------------------
(* Properties.                                                             *)

Answered(i) ==
  /\ i < Len(Messages)
  /\ Messages[i + 1].role = "user"
  /\ Messages[i + 1].results = Messages[i].uses

(***************************************************************************)
(* Every tool use the model asked for is answered by the very next         *)
(* message, with exactly its results in the order asked, however the       *)
(* parallel calls finished; the only turns left unanswered are those a     *)
(* budget stop cut and the one whose calls are being executed.             *)
(* (runtime.go SendMessage, executeToolsParallel.)                         *)
(***************************************************************************)
ToolUsesAnswered ==
  \A i \in 1..Len(Messages) : Messages[i].uses # << >> =>
    \/ Answered(i)
    \/ i \in cut
    \/ i = Len(Messages) /\ pc = "tools"

(***************************************************************************)
(* The budget check comes after the turn it judges, so a request may       *)
(* overshoot its limit, but by less than one turn: no turn is started once *)
(* the limit is met.  (runtime.go, budget check after each model turn.)    *)
(***************************************************************************)
RequestSpendBounded ==
  cfg.BudgetPerRequest > 0 => cost - startCost < cfg.BudgetPerRequest + MaxTurnCost

(***************************************************************************)
(* The reported number of tool calls never exceeds the calls made, and     *)
(* with sequential execution it is exact.  With parallel execution         *)
(* increments are lost: executeSingleTool counts without a lock.           *)
(***************************************************************************)
ToolCallsCounted ==
  /\ ToolCalls <= invoked
  /\ ~cfg.ParallelToolCalls => ToolCalls = invoked

(***************************************************************************)
(* SendMessage always returns, even to a model that asks for tools for     *)
(* ever.                                                                   *)
(***************************************************************************)
RequestReturns == pc \in {"model", "tools"} ~> pc = "returned"

(***************************************************************************)
(* The runtime keeps the promise of one metered request, message by        *)
(* message: MeteredRequest is what the serving API is built on.            *)
(***************************************************************************)
MR == INSTANCE MeteredRequest WITH
        limit <- cfg.BudgetPerRequest,
        phase <- IF pc \in {"model", "tools"} THEN "running" ELSE "ready",
        spent <- cost - startCost

ImplementsMeteredRequest == MR!Spec

=============================================================================
