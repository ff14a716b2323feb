---------------------------- MODULE ServingBudget ----------------------------
(***************************************************************************)
(* The serving API (httpserver) in front of the cost ledger (guardrails):  *)
(* concurrent POST /invoke and /invoke/stream handlers, each of which      *)
(* checks the monthly cap once, runs metered model turns, answers, and     *)
(* ledgers its spend in a deferred call.  The month may change, the ledger *)
(* may fail, and the process may be shut down with requests in flight and  *)
(* be started again.  A client that goes away cancels the context of its   *)
(* request; no model turn looks at it, so that is no step here.            *)
(***************************************************************************)
EXTENDS Integers, Sequences, FiniteSets, Functions

CONSTANTS
  Requests,       \* the HTTP requests that may arrive, each once
  Settings,       \* the configurations the server may be started with
  MaxTurns,       \* model turns of one request: the runtime's loop bound
  MaxTurnCost,    \* bound: the most one model turn costs
  Months,         \* bound: the number of calendar months
  MaxRestarts     \* bound: how often the process is started again

\* initBudget: 0 disables a limit; the ledger is opened for a monthly limit
\* only, and may fail to open.
Setting == { s \in [PerRequest : Nat, Monthly : Nat, ledger : BOOLEAN] :
               s.ledger => s.Monthly > 0 }

ASSUME ServingAssumption ==
  /\ IsFiniteSet(Requests)
  /\ Settings \subseteq Setting
  /\ MaxTurns \in Nat \ {0} /\ Months \in Nat \ {0}
  /\ MaxTurnCost \in Nat /\ MaxRestarts \in Nat

VARIABLES
  cfg,             \* AgentSettings budgets and whether the ledger opened
  proc,            \* the process: "serving", "draining" (Shutdown) or "down"
  month,           \* the current calendar month
  restarts,
  st,              \* where the handler of each request is
  turns, cost,     \* the session's model turns and EstimatedCost()
  BudgetStopped,   \* the session's BudgetStopped
  status,          \* the class RecordRequest counts the answer in, or "none"
  cost_entries,    \* the rows of the ledger, by the request that wrote them
  ActiveSessions,  \* the Prometheus gauge
  unledgered,      \* history: requests whose insert failed
  exposed,         \* history: for each month, who could overshoot its cap
  blind            \* history: months in which the ledger could not be read

server == <<cfg, proc, month, restarts>>
handler == <<st, turns, cost, BudgetStopped, status>>
history == <<unledgered, exposed, blind>>
vars == <<server, handler, cost_entries, ActiveSessions, history>>

Row == [cost : Nat, month : 1..Months]

\* How far a handler can be: each place is one call before the next.
Place == {"new", "decoded", "checked", "entered", "running",
          "answering", "recording", "leaving", "done", "killed"}

TypeOK ==
  /\ cfg \in Setting
  /\ proc \in {"serving", "draining", "down"}
  /\ month \in 1..Months /\ restarts \in 0..MaxRestarts
  /\ st \in [Requests -> Place]
  /\ turns \in [Requests -> 0..MaxTurns] /\ cost \in [Requests -> Nat]
  /\ BudgetStopped \in [Requests -> BOOLEAN]
  /\ status \in [Requests -> {"none", "2xx", "4xx", "5xx"}]
  /\ cost_entries \in [Requests -> Seq(Row)]
  /\ ActiveSessions \in Nat
  /\ unledgered \subseteq Requests
  /\ exposed \in [1..Months -> SUBSET Requests]
  /\ blind \subseteq 1..Months

Init ==
  /\ cfg \in Settings /\ proc = "serving" /\ month = 1 /\ restarts = 0
  /\ st = [r \in Requests |-> "new"]
  /\ turns = [r \in Requests |-> 0] /\ cost = [r \in Requests |-> 0]
  /\ BudgetStopped = [r \in Requests |-> FALSE]
  /\ status = [r \in Requests |-> "none"]
  /\ cost_entries = [r \in Requests |-> << >>]
  /\ ActiveSessions = 0
  /\ unledgered = {}
  /\ exposed = [m \in 1..Months |-> {}] /\ blind = {}

(***************************************************************************)
(* CostStore.MonthlySpend: the sum over the rows of the month.             *)
(***************************************************************************)
RowsOf(r, m) == { i \in DOMAIN cost_entries[r] : cost_entries[r][i].month = m }
RowCost(r) == [i \in DOMAIN cost_entries[r] |-> cost_entries[r][i].cost]
SpendOf(m) == [r \in Requests |-> SumFunctionOnSet(RowCost(r), RowsOf(r, m))]
MonthlySpend(m) == SumFunctionOnSet(SpendOf(m), Requests)

\* Requests past their budget check whose spend is not in the ledger yet.
InFlight == { r \in Requests :
                st[r] \in {"checked", "entered", "running", "answering", "recording"} }

Goto(r, place) == st' = [st EXCEPT ![r] = place]
Answer(r, class) == status' = [status EXCEPT ![r] = class]

-----------------------------------------------------------------------------
(* One request.                                                            *)

\* decodeInvokeRequest: invalid JSON or an empty message ends the request.
Arrive(r, valid) ==
  /\ proc = "serving" /\ st[r] = "new"
  /\ IF valid THEN Goto(r, "decoded") /\ UNCHANGED status
              ELSE Goto(r, "done") /\ Answer(r, "4xx")
  /\ UNCHANGED <<server, turns, cost, BudgetStopped, cost_entries,
                 ActiveSessions, history>>

\* Slip: only a ledger beyond the cap rejects.
CapExceeded == cfg.Monthly - MonthlySpend(month) < 0

CapReached == cfg.Monthly - MonthlySpend(month) <= 0

\* checkMonthlyBudget: a ledger that is not there or cannot be read lets the
\* request through.
CheckMonthlyBudget(r, readable) ==
  /\ st[r] = "decoded"
  /\ IF cfg.Monthly > 0 /\ cfg.ledger /\ readable /\ CapReached
       THEN /\ Goto(r, "done") /\ Answer(r, "4xx")
            /\ UNCHANGED <<exposed, blind>>
       ELSE /\ Goto(r, "checked")
            /\ exposed' = [exposed EXCEPT ![month] = InFlight \cup {r}]
            /\ blind' = IF readable THEN blind ELSE blind \cup {month}
            /\ UNCHANGED status
  /\ UNCHANGED <<server, turns, cost, BudgetStopped, cost_entries, ActiveSessions,
                 unledgered>>

\* ActiveSessions.Inc, with Dec deferred; before that /invoke/stream gives up
\* when the connection cannot be flushed.
Enter(r, flushes) ==
  /\ st[r] = "checked"
  /\ IF flushes
       THEN /\ Goto(r, "entered") /\ UNCHANGED status
            /\ ActiveSessions' = ActiveSessions + 1
       ELSE Goto(r, "done") /\ Answer(r, "5xx") /\ UNCHANGED ActiveSessions
  /\ UNCHANGED <<server, turns, cost, BudgetStopped, cost_entries, history>>

\* applyOverrides may refuse the request; otherwise the session is created and
\* recordCost is deferred.
ApplyOverrides(r, accepted) ==
  /\ st[r] = "entered"
  /\ IF accepted THEN Goto(r, "running") /\ UNCHANGED status
                 ELSE Goto(r, "leaving") /\ Answer(r, "4xx")
  /\ UNCHANGED <<server, turns, cost, BudgetStopped, cost_entries,
                 ActiveSessions, history>>

\* Slip: the limit itself is still let through.
CheckRequestBudgetLate(c) == cfg.PerRequest > 0 /\ c > cfg.PerRequest

CheckRequestBudget(c) == cfg.PerRequest > 0 /\ c >= cfg.PerRequest

\* One iteration of Session.SendMessage: the turn, the budget check and, when
\* the loop goes on, the tool calls.
ModelTurn(r, c, final) ==
  /\ st[r] = "running"
  /\ turns' = [turns EXCEPT ![r] = @ + 1]
  /\ cost' = [cost EXCEPT ![r] = @ + c]
  /\ BudgetStopped' = [BudgetStopped EXCEPT ![r] = @ \/ CheckRequestBudget(cost'[r])]
  /\ IF final \/ BudgetStopped'[r] \/ turns'[r] = MaxTurns
       THEN Goto(r, "answering") ELSE UNCHANGED st
  /\ UNCHANGED <<server, status, cost_entries, ActiveSessions, unledgered,
                 exposed, blind>>

\* Slip: the error path returns before the deferred recordCost is set up.
ModelErrorUnledgered(r) ==
  /\ st[r] = "running"
  /\ Goto(r, "leaving")
  /\ Answer(r, "5xx")
  /\ UNCHANGED <<server, turns, cost, BudgetStopped, cost_entries,
                 ActiveSessions, history>>

\* SendMessage returns an error.  A deadline that has passed only makes
\* /invoke answer 504 instead of 500: the model call does not see the context.
ModelError(r) ==
  /\ st[r] = "running"
  /\ Goto(r, "recording")
  /\ Answer(r, "5xx")
  /\ UNCHANGED <<server, turns, cost, BudgetStopped, cost_entries,
                 ActiveSessions, history>>

\* SendMessage returned: usage, headers and the response are written.
Respond(r) ==
  /\ st[r] = "answering"
  /\ Goto(r, "recording") /\ Answer(r, "2xx")
  /\ UNCHANGED <<server, turns, cost, BudgetStopped, cost_entries,
                 ActiveSessions, history>>

\* The deferred recordCost; an error of the ledger is dropped.
RecordCost(r, writable) ==
  /\ st[r] = "recording"
  /\ Goto(r, "leaving")
  /\ IF cfg.ledger /\ cost[r] > 0
       THEN IF writable
              THEN /\ cost_entries' = [cost_entries EXCEPT ![r] =
                                         Append(@, [cost |-> cost[r], month |-> month])]
                   /\ UNCHANGED unledgered
              ELSE unledgered' = unledgered \cup {r} /\ UNCHANGED cost_entries
       ELSE UNCHANGED <<cost_entries, unledgered>>
  /\ UNCHANGED <<server, turns, cost, BudgetStopped, status, ActiveSessions,
                 exposed, blind>>

\* The deferred ActiveSessions.Dec, last because it was deferred first.
Leave(r) ==
  /\ st[r] = "leaving"
  /\ Goto(r, "done")
  /\ ActiveSessions' = ActiveSessions - 1
  /\ UNCHANGED <<server, turns, cost, BudgetStopped, status, cost_entries, history>>

-----------------------------------------------------------------------------
(* The environment and the process.                                        *)

NextMonth ==
  /\ month < Months
  /\ month' = month + 1
  /\ UNCHANGED <<cfg, proc, restarts, handler, cost_entries, ActiveSessions, history>>

\* Shutdown stops accepting requests and waits for the ones in flight ...
Shutdown ==
  /\ proc = "serving"
  /\ proc' = "draining"
  /\ UNCHANGED <<cfg, month, restarts, handler, cost_entries, ActiveSessions, history>>

Unfinished == { r \in Requests : st[r] \notin {"new", "done", "killed"} }

\* ... for five seconds at most; then the process ends under them.
Exit ==
  /\ proc = "draining"
  /\ proc' = "down"
  /\ st' = [r \in Requests |-> IF r \in Unfinished THEN "killed" ELSE st[r]]
  /\ UNCHANGED <<cfg, month, restarts, turns, cost, BudgetStopped, status,
                 cost_entries,
                 ActiveSessions, history>>

\* agent serve again: the ledger is a file, the gauge is not.
Restart ==
  /\ proc = "down" /\ restarts < MaxRestarts
  /\ proc' = "serving" /\ restarts' = restarts + 1
  /\ ActiveSessions' = 0
  /\ UNCHANGED <<cfg, month, handler, cost_entries, history>>

-----------------------------------------------------------------------------
Handler(r) ==
  \/ \E ok \in BOOLEAN :
       \/ CheckMonthlyBudget(r, ok) \/ Enter(r, ok) \/ ApplyOverrides(r, ok)
       \/ RecordCost(r, ok)
  \/ \E c \in 0..MaxTurnCost, final \in BOOLEAN :
       ModelTurn(r, c, final)
  \/ ModelError(r) \/ Respond(r) \/ Leave(r)

Environment ==
  \/ \E r \in Requests, valid \in BOOLEAN : Arrive(r, valid)
  \/ NextMonth \/ Shutdown \/ Restart

Next == Environment \/ Exit \/ \E r \in Requests : Handler(r)

Spec == Init /\ [][Next]_vars

-----------------------------------------------------------------------------
(* Properties.                                                             *)

(***************************************************************************)
(* Whichever way a request ends, its deferred calls account for it: it     *)
(* left exactly one row with exactly its session's spend if that was       *)
(* positive and the insert worked, and no row if it never ran; and the     *)
(* gauge counts the handlers that have raised and not yet lowered it.      *)
(* (handlers.go, "Ledger the spend on every exit path", ActiveSessions.)   *)
(***************************************************************************)
SpendLedgered ==
  \A r \in Requests :
    /\ st[r] = "done" /\ cfg.ledger /\ r \notin unledgered /\ cost[r] > 0 =>
         cost_entries[r] # << >>
    /\ cost_entries[r] # << >> =>
         /\ Len(cost_entries[r]) = 1 /\ cost_entries[r][1].cost = cost[r]
         /\ status[r] # "none"

ActiveSessionsExact ==
  proc # "down" =>
    ActiveSessions = Cardinality({ r \in Requests :
      st[r] \in {"entered", "running", "answering", "recording", "leaving"} })

ExitsAccounted == SpendLedgered /\ ActiveSessionsExact

(***************************************************************************)
(* The monthly cap is checked once, before the request runs, so it can be  *)
(* overshot - but only by what the last request let in and the requests    *)
(* then in flight spend, unless the ledger could not be read.              *)
(* (handlers.go checkMonthlyBudget; guardrails.go CheckMonthlyBudget.)     *)
(***************************************************************************)
MonthlyOvershootBounded ==
  \A m \in (1..Months) \ blind :
    cfg.ledger /\ exposed[m] # {} =>
      MonthlySpend(m) < cfg.Monthly + SumFunctionOnSet(cost, exposed[m])

(***************************************************************************)
(* Every request keeps the promise of a metered request, whatever the      *)
(* others do.  (handlers.go wireBudgetCheck; runtime.go, budget check.)    *)
(***************************************************************************)
Metered(r) == INSTANCE MeteredRequest WITH
                limit <- cfg.PerRequest,
                phase <- IF st[r] = "running" THEN "running" ELSE "ready",
                spent <- cost[r]

RequestsMetered ==
  /\ \A r \in Requests : Metered(r)!Init
  /\ [][\A r \in Requests : [Metered(r)!Next]_(Metered(r)!vars)]_vars

=============================================================================
