----------------------------- MODULE Evaluation -----------------------------
(***************************************************************************)
(* The eval commands of one workspace, run one after another over one      *)
(* store: agent eval and its --report-last, and server eval with its       *)
(* baselines and golden files.  A command may be killed and a write of the *)
(* store or of a file may fail.                                            *)
(*                                                                         *)
(* An agent's scenario is [name, turns, runs, mocks, asserts]; mocks gives *)
(* for a tool how many of its calls fail, 0 for all.  A server's scenario  *)
(* is [name, asserts].  A model is the sequence of its name and, of a      *)
(* snapshot, its date; settings.model of a suite may be << >>.             *)
(***************************************************************************)
EXTENDS EvalAssertions, FiniteSetsExt

CONSTANTS
  AgentSuites,   \* of each agent: <<[name, model, scenarios]>>
  ServerSuites,  \* of each server: <<[name, scenarios]>>
  ModelOf,       \* an agent's model
  KnownModels,   \* the models with a price in the runtime's table
  EvalPriced,    \* and in the table of the eval runner
  Warm,          \* the agents that set a temperature
  Untunable,     \* the models in the table of those that reject one
  Replies,       \* of the model: [calls, says, numbers, tokens]
  ToolResults,   \* of a tool: [ok, found]
  ServerData,    \* what a server's tool returns
  Overrides,     \* of --runs, 0 for none
  MaxToolCalls,  \* settings.max_tool_calls, or 10
  ListLimit,     \* how many runs --report-last looks through
  MaxCommands,   \* bound: commands
  MaxFaults      \* bound: writes that fail and commands killed

IsList(list) == list \in Seq(ToSet(list))
Targets == DOMAIN AgentSuites \cup DOMAIN ServerSuites
ASSUME EvalAssumption ==
  /\ DOMAIN AgentSuites \cap DOMAIN ServerSuites = {}
  /\ \A suitesOf \in {AgentSuites, ServerSuites} : \A target \in DOMAIN suitesOf :
       /\ IsList(suitesOf[target])
       /\ \A i \in DOMAIN suitesOf[target] :
            /\ IsList(suitesOf[target][i].scenarios)
            /\ \A j \in DOMAIN suitesOf[target][i].scenarios : IsList(suitesOf[target][i].scenarios[j].asserts)
  /\ DOMAIN ModelOf = DOMAIN AgentSuites /\ Warm \subseteq DOMAIN AgentSuites
  /\ Overrides \subseteq Nat
  /\ MaxToolCalls \in Nat \ {0} /\ ListLimit \in Nat \ {0}
  /\ MaxCommands \in Nat /\ MaxFaults \in Nat

VARIABLES
  runs,       \* eval_runs with their eval_results, by their start
  baselines,  \* of servers: <<suite, scenario>> -> status
  files,      \* golden files
  cmd,        \* the command: target, options, suite, what it has seen
  live,       \* the suite's run: scenario, repetition, conversation, results
  faults,
  commands,
  shown       \* what --report-last showed: a run and its results

evalVars == <<runs, baselines, files, cmd, live, faults, commands, shown>>

NoCommand == [target |-> "", agent |-> FALSE, runs |-> 0, baselines |-> FALSE, snapshots |-> FALSE,
              at |-> 1, pc |-> "none", failed |-> FALSE, exit |-> "none", rows |-> {}]
NoRun == [row |-> 0, sc |-> 1, rep |-> 1, turn |-> 1, iter |-> 0, failed |-> << >>, calls |-> << >>,
          output |-> [says |-> {}, numbers |-> << >>], tokens |-> 0, results |-> << >>, data |-> << >>,
          regressions |-> {}]

EvalInit ==
  /\ runs = << >> /\ baselines = << >> /\ files = << >>
  /\ cmd = NoCommand /\ live = NoRun
  /\ faults = 0 /\ commands = 0 /\ shown = [run |-> 0, results |-> << >>]

-----------------------------------------------------------------------------

suites == IF cmd.agent THEN AgentSuites[cmd.target] ELSE ServerSuites[cmd.target]
suite == suites[cmd.at]
scenario == suite.scenarios[live.sc]
Repetitions == IF cmd.runs > 0 THEN cmd.runs ELSE scenario.runs

\* A write happens, or fails as long as the bound allows.
Fault(happens) == faults' = IF happens THEN faults ELSE faults + 1
MayFail(happens) == happens \/ faults < MaxFaults

suiteAssertsCost(s) ==
  \E i \in DOMAIN s.scenarios : \E j \in DOMAIN s.scenarios[i].asserts :
    s.scenarios[i].asserts[j].type = "max_cost_usd"

\* A dated snapshot has the price and the capabilities of its alias.
InTable(table, model) == model \in table \/ <<Head(model)>> \in table
KnownModel(model) == InTable(KnownModels, model)
SupportsTemperature(model) == ~InTable(Untunable, model)

\* What the suite names is checked, and never used.
NamedModel(target, s) == IF s.model # << >> THEN s.model ELSE ModelOf[target]
requirePricedModelForSuites(target) ==
  \A i \in DOMAIN AgentSuites[target] : LET s == AgentSuites[target][i] IN
    suiteAssertsCost(s) => KnownModel(NamedModel(target, s))
requireSupportedTuning(target, model) == target \in Warm => SupportsTemperature(model)
requireSupportedTuningForSuites(target) ==
  \A i \in DOMAIN AgentSuites[target] :
    requireSupportedTuning(target, NamedModel(target, AgentSuites[target][i]))

Invoke(target) == cmd.pc = "none" /\ commands < MaxCommands /\ commands' = commands + 1

AgentEval(target) == \E rs \in Overrides :
  /\ Invoke(target) /\ target \in DOMAIN AgentSuites
  /\ cmd' = IF requirePricedModelForSuites(target) /\ requireSupportedTuningForSuites(target)
            THEN [NoCommand EXCEPT !.target = target, !.agent = TRUE, !.runs = rs, !.pc = "suite"]
            ELSE [NoCommand EXCEPT !.target = target, !.exit = "failed"]
  /\ UNCHANGED <<runs, baselines, files, live, faults, shown>>

ServerEval(target) == \E b, s \in BOOLEAN :
  /\ Invoke(target) /\ target \in DOMAIN ServerSuites
  /\ cmd' = [NoCommand EXCEPT !.target = target, !.baselines = b, !.snapshots = s, !.pc = "suite"]
  /\ UNCHANGED <<runs, baselines, files, live, faults, shown>>

\* Its report is that of the newest of the last runs that is of this agent,
\* be it finished or not.
ListRuns == LET all == SelectSeq([i \in DOMAIN runs |-> i], LAMBDA i : runs[i].agent)
            IN SubSeq(all, IF Len(all) > ListLimit THEN Len(all) - ListLimit + 1 ELSE 1, Len(all))
GetResultsByRun(run) == runs[run].results
LoadLastRun(target) ==
  LET mine == {i \in ToSet(ListRuns) : runs[i].target = target}
  IN IF mine = {} THEN [run |-> 0, results |-> << >>]
     ELSE [run |-> Max(mine), results |-> GetResultsByRun(Max(mine))]

ReportLast(target) ==
  /\ Invoke(target) /\ target \in DOMAIN AgentSuites
  /\ shown' = LoadLastRun(target)
  /\ cmd' = [NoCommand EXCEPT !.target = target, !.exit = IF shown'.run = 0 THEN "failed" ELSE "ok"]
  /\ UNCHANGED <<runs, baselines, files, live, faults>>

\* A server's run has the name of its suite for a target, and its number of
\* scenarios is known.
NewRow(status) ==
  [target |-> IF cmd.agent THEN cmd.target ELSE suite.name, agent |-> cmd.agent, suite |-> suite.name,
   status |-> status, total |-> IF cmd.agent THEN 0 ELSE Len(suite.scenarios),
   passed |-> 0, failed |-> 0, skipped |-> 0, results |-> << >>, whole |-> TRUE]
CreateRun(status) == runs' = Append(runs, NewRow(status))
NextSuite(failed) == cmd' = [cmd EXCEPT !.at = @ + 1, !.pc = "suite", !.failed = @ \/ failed]

StartSuite == \E stored, started \in BOOLEAN :
  /\ cmd.pc = "suite" /\ cmd.at \in DOMAIN suites /\ MayFail(stored) /\ MayFail(started)
  /\ IF ~stored
     THEN NextSuite(TRUE) /\ Fault(FALSE) /\ started /\ UNCHANGED <<runs, live>>
     ELSE /\ (cmd.agent => started) /\ Fault(started)
          /\ live' = [NoRun EXCEPT !.row = Len(runs) + 1]
          /\ IF started
             THEN CreateRun("running") /\ cmd' = [cmd EXCEPT !.pc = "scenario", !.rows = @ \cup {Len(runs) + 1}]
             ELSE /\ \E s \in {"error", "running"} : CreateRun(s)
                  /\ NextSuite(TRUE)
  /\ UNCHANGED <<baselines, files, commands, shown>>

Exit ==
  /\ cmd.pc = "suite" /\ cmd.at \notin DOMAIN suites
  /\ cmd' = [cmd EXCEPT !.pc = "none", !.exit = IF cmd.failed THEN "failed" ELSE "ok"]
  /\ live' = NoRun
  /\ UNCHANGED <<runs, baselines, files, faults, commands, shown>>

Killed ==
  /\ cmd.pc # "none" /\ faults < MaxFaults
  /\ cmd' = [cmd EXCEPT !.pc = "none", !.exit = "killed"] /\ live' = NoRun /\ faults' = faults + 1
  /\ UNCHANGED <<runs, baselines, files, commands, shown>>

-----------------------------------------------------------------------------
(* The conversation of an agent's scenario.                                *)

StartRun ==
  /\ cmd.pc = "scenario" /\ cmd.agent /\ live.sc \in DOMAIN suite.scenarios
  /\ live' = [live EXCEPT !.failed = [t \in DOMAIN scenario.mocks |-> 0]]
  /\ cmd' = [cmd EXCEPT !.pc = "turn"]
  /\ UNCHANGED <<runs, baselines, files, faults, commands, shown>>

\* The tool calls of a reply, one after the other; CallTool of the injector.
ShouldFail(tool, failed) ==
  tool \in DOMAIN scenario.mocks /\ (scenario.mocks[tool] = 0 \/ failed[tool] < scenario.mocks[tool])
CallTools(tools, results) ==
  FoldLeft(LAMBDA seen, i :
             IF ShouldFail(tools[i], seen.failed)
             THEN [failed |-> [seen.failed EXCEPT ![tools[i]] = @ + 1],
                   calls |-> Append(seen.calls, [tool |-> tools[i], ok |-> FALSE, found |-> {}, injected |-> TRUE])]
             ELSE [seen EXCEPT !.calls = Append(@, [tool |-> tools[i], ok |-> results[i].ok,
                                                    found |-> results[i].found, injected |-> FALSE])],
           [failed |-> live.failed, calls |-> live.calls], [i \in DOMAIN tools |-> i])

\* A turn ends with a reply without calls or at the limit, which leaves the
\* output of an earlier turn.
ModelCall == \E reply \in Replies : \E results \in [DOMAIN reply.calls -> ToolResults] :
  /\ cmd.pc = "turn" /\ live.turn \leq scenario.turns
  /\ requireSupportedTuning(cmd.target, ModelOf[cmd.target])   \* or each request is refused
  /\ LET said == reply.calls = << >>
         done == said \/ live.iter = MaxToolCalls
         seen == CallTools(reply.calls, results)
     IN live' = [live EXCEPT !.tokens = @ + reply.tokens, !.failed = seen.failed, !.calls = seen.calls,
                             !.output = IF said THEN [says |-> reply.says, numbers |-> reply.numbers] ELSE @,
                             !.iter = IF done THEN 0 ELSE @ + 1, !.turn = IF done THEN @ + 1 ELSE @]
  /\ UNCHANGED <<runs, baselines, files, cmd, faults, commands, shown>>

estimateCost(model, tokens) == IF model \in EvalPriced THEN tokens ELSE 0
Captured(late) ==
  [calls |-> live.calls, output |-> live.output, turns |-> live.turn - 1, tokens |-> live.tokens,
   cost |-> estimateCost(ModelOf[cmd.target], live.tokens), late |-> late]

CreateResult(row, status) == [row EXCEPT !.results = Append(@, <<scenario.name, status>>)]

\* Nobody looks at its error.
Store(status, stored, next) ==
  /\ MayFail(stored) /\ Fault(stored)
  /\ LET row == runs[live.row]
     IN runs' = [runs EXCEPT ![live.row] =
                   IF stored THEN CreateResult(row, status) ELSE [row EXCEPT !.whole = FALSE]]
  /\ live' = [next EXCEPT !.results = Append(@, <<scenario.name, status>>), !.turn = 1, !.iter = 0,
                          !.calls = << >>, !.output = NoRun.output, !.tokens = 0]
  /\ cmd' = [cmd EXCEPT !.pc = "scenario"]
  /\ UNCHANGED <<baselines, files, commands, shown>>

NextRepetition == IF live.rep < Repetitions THEN [live EXCEPT !.rep = @ + 1]
                  ELSE [live EXCEPT !.rep = 1, !.sc = @ + 1]

ModelFails == \E stored \in BOOLEAN :
  /\ cmd.pc = "turn" /\ live.turn \leq scenario.turns
  /\ Store("error", stored, NextRepetition)

EndRun == \E stored, late \in BOOLEAN :
  /\ cmd.pc = "turn" /\ live.turn > scenario.turns
  /\ LET passed == FALSE \notin ToSet(RunAssertions(scenario.asserts, Captured(late)))
     IN Store(IF passed THEN "passed" ELSE "failed", stored, NextRepetition)

-----------------------------------------------------------------------------
(* A server's scenario: setup steps and one call.                          *)

\* What new has, and what only old has.
Over(new, old) == [x \in DOMAIN new \cup DOMAIN old |-> IF x \in DOMAIN new THEN new[x] ELSE old[x]]
Returned(value) == [live EXCEPT !.sc = @ + 1, !.data = Over([name \in {scenario.name} |-> value], @)]

RunFails == \E stored \in BOOLEAN :
  /\ cmd.pc = "scenario" /\ ~cmd.agent /\ live.sc \in DOMAIN suite.scenarios
  /\ Store("error", stored, Returned(Null))

RunScenario == \E stored \in BOOLEAN, data \in ServerData :
  /\ cmd.pc = "scenario" /\ ~cmd.agent /\ live.sc \in DOMAIN suite.scenarios
  /\ LET passed == \A i \in DOMAIN scenario.asserts : RunAssertion(scenario.asserts[i], data, files)
     IN Store(IF passed THEN "passed" ELSE "failed", stored, Returned(Whole(data)))

-----------------------------------------------------------------------------
(* The end of a suite.                                                     *)

CountIn(results, status) == Cardinality({j \in DOMAIN results : results[j][2] = status})
Count(status) == CountIn(live.results, status)

\* Slip: scenarios that were not judged do not fail the run.
VerdictOfFailed == IF Count("failed") = 0 THEN "passed" ELSE "failed"
Verdict == IF Count("failed") = 0 /\ Count("error") = 0 THEN "passed" ELSE "failed"

GetBaseline(name) == IF <<suite.name, name>> \in DOMAIN baselines THEN baselines[<<suite.name, name>>] ELSE "none"
DetectRegressions ==
  {r \in ToSet(live.results) : r[2] # "passed" /\ GetBaseline(r[1]) = "passed"}

\* An agent's errors are failures; a server's are skipped.
Finalize == \E stored \in BOOLEAN :
  /\ cmd.pc = "scenario" /\ live.sc \notin DOMAIN suite.scenarios /\ MayFail(stored) /\ Fault(stored)
  /\ LET row == runs[live.row]
     IN runs' = [runs EXCEPT ![live.row] =
          IF stored THEN [row EXCEPT !.status = Verdict, !.passed = Count("passed"),
                                     !.failed = Count("failed") + (IF cmd.agent THEN Count("error") ELSE 0),
                                     !.skipped = IF cmd.agent THEN 0 ELSE Count("error"),
                                     !.total = IF cmd.agent THEN Len(live.results) ELSE @]
          ELSE [row EXCEPT !.whole = FALSE]]
  /\ live' = [live EXCEPT !.regressions = IF cmd.agent THEN {} ELSE DetectRegressions]
  /\ cmd' = [cmd EXCEPT !.pc = "baselines", !.failed = @ \/ Verdict # "passed"]
  /\ UNCHANGED <<baselines, files, commands, shown>>

SetBaseline(old, result) == Over([key \in {<<suite.name, result[1]>>} |-> result[2]], old)

\* One after the other; the first that fails ends it.  Those of an agent are
\* its assertions, which nothing reads: they are left out.
UpdateBaselines == \E n \in IF cmd.baselines THEN 0..Len(live.results) ELSE {0} :
  LET all == n = Len(live.results) \/ ~cmd.baselines
  IN /\ cmd.pc = "baselines" /\ MayFail(all) /\ Fault(all)
     /\ baselines' = FoldLeft(SetBaseline, baselines, SubSeq(live.results, 1, n))
     /\ cmd' = [cmd EXCEPT !.pc = "snapshots"]
     /\ UNCHANGED <<runs, files, live, commands, shown>>

\* The places in the suite that name a golden file: scenario and assertion, one
\* after the other.
GoldenFiles ==
  UNION { {<<i, j>> : j \in {k \in DOMAIN suite.scenarios[i].asserts : suite.scenarios[i].asserts[k].type = "golden_file"}} :
            i \in DOMAIN suite.scenarios }
FileOf(place) == suite.scenarios[place[1]].asserts[place[2]].expected
DataOf(place) == live.data[suite.scenarios[place[1]].name]
Before(p, q) == p[1] < q[1] \/ (p[1] = q[1] /\ p[2] < q[2])

\* What a file holds is what was written to it last.
LastOf(file, places) ==
  CHOOSE p \in places : FileOf(p) = file /\ \A q \in places : FileOf(q) = file => q = p \/ Before(q, p)
Latest(places) == [file \in {FileOf(p) : p \in places} |-> DataOf(LastOf(file, places))]

\* Slip: a golden file that is there already is kept.
WrittenOnce(places) == Over(files, Latest(places))

Written(places) == Over(Latest(places), files)

\* The first one that cannot be written ends it.
UpdateSnapshots ==
  /\ cmd.pc = "snapshots"
  /\ \E places \in IF cmd.snapshots THEN SUBSET GoldenFiles ELSE {{}} :
     LET all == ~cmd.snapshots \/ places = GoldenFiles
     IN /\ MayFail(all) /\ Fault(all)
        /\ \A p \in places, q \in GoldenFiles : Before(q, p) => q \in places
        /\ files' = Written(places)
        /\ cmd' = [cmd EXCEPT !.pc = IF cmd.snapshots /\ all THEN "updated" ELSE "report"]
  /\ UNCHANGED <<runs, baselines, live, commands, shown>>

\* The report is written and the next suite's turn comes.
Report ==
  /\ cmd.pc \in {"updated", "report"} /\ NextSuite(FALSE)
  /\ UNCHANGED <<runs, baselines, files, live, faults, commands, shown>>

EvalNext ==
  \/ \E target \in Targets : AgentEval(target) \/ ServerEval(target) \/ ReportLast(target)
  \/ StartSuite \/ StartRun \/ ModelCall \/ ModelFails \/ EndRun
  \/ RunFails \/ RunScenario
  \/ Finalize \/ UpdateBaselines \/ UpdateSnapshots \/ Report \/ Exit \/ Killed

EvalSpec == EvalInit /\ [][EvalNext]_evalVars

-----------------------------------------------------------------------------

\* A run whose writes all happened says what its scenarios say: the counters
\* are those of the stored results, it has passed exactly if each of them has,
\* and a command that ends well leaves no stored run of its own that has not
\* passed, however many suites it went through (RunSuite of both engines,
\* runAgentEval, runServerEval).
VerdictsStored ==
  /\ \A i \in DOMAIN runs : runs[i].status \in {"passed", "failed"} /\ runs[i].whole =>
       LET Of(status) == CountIn(runs[i].results, status)
       IN /\ runs[i].total = Len(runs[i].results)
          /\ runs[i].passed = Of("passed")
          /\ runs[i].failed + runs[i].skipped = Of("failed") + Of("error")
          /\ runs[i].status = "passed" <=> Of("passed") = Len(runs[i].results)
  /\ cmd.exit = "ok" => \A i \in cmd.rows : runs[i].whole => runs[i].status = "passed"

\* After --update-snapshots a repetition of the same results passes every
\* golden_file assertion about a whole result whose file is its own
\* (UpdateSnapshots, checkGoldenFile).  A scenario that could not be run
\* leaves a null.
SnapshotsHold ==
  cmd.pc = "updated" => \A i \in DOMAIN suite.scenarios :
    LET sc == suite.scenarios[i]
        Own(file) == \A p \in GoldenFiles : FileOf(p) = file => suite.scenarios[p[1]].name = sc.name
    IN live.data[sc.name] # Null =>
         \A a \in ToSet(sc.asserts) : a.type = "golden_file" /\ a.field = "." /\ Own(a.expected) =>
           RunAssertion(a, live.data[sc.name].of, files)
=============================================================================
