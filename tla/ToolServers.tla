---------------------------- MODULE ToolServers ----------------------------
(***************************************************************************)
(* The tools of an agent: its MCP servers, started as processes or (serve  *)
(* --sandbox) in containers, other agents exposed as tools, and the        *)
(* palette's components.  How they are started one after the other, under  *)
(* which names they are offered, where a call of a name goes, what a child *)
(* agent spends, and what is left when the program ends.                   *)
(*                                                                         *)
(* A name is the sequence of its parts between dots.  A setup is the       *)
(* agent's configuration: its servers and                                  *)
(*   serve, sandbox  the command and its option                            *)
(*   parallel        calls may overlap (settings, or requests of serve)    *)
(*   ownIgnore       the server's directory has a .dockerignore            *)
(*   timeout         a prompt_timeout that is not 0                        *)
(*                                                                         *)
(* A server is run by a process of its own, the direct child, or by what   *)
(* its launcher starts behind it: "attached" is a process with the pipes   *)
(* of the launcher (uv, npx), "detached" a container behind docker run, or *)
(* the viewer behind npx, which has no pipes.  Only the direct child is    *)
(* ever killed.  What is behind it ends by itself, when its input ends and *)
(* it heeds that.  Of an agent, this describes its own servers.            *)
(***************************************************************************)
EXTENDS Naturals, Sequences, FiniteSets, SequencesExt

CONSTANTS
  Setups,
  Parts,        \* what names are made of
  Names,        \* names a model may come up with by itself
  Callers,      \* tool calls that may be in progress
  MaxCalls,     \* bound: calls made
  MaxSpend      \* bound: tokens of one run of a child agent

\* The palette's component tools, with the mode of each.
componentTools ==
  <<<<"palette_tasklist", "blocking">>, <<"palette_simpleform", "blocking">>,
    <<"palette_cardgrid", "immediate">>, <<"palette_table", "hybrid">>,
    <<"palette_textblock", "immediate">>, <<"palette_codeblock", "immediate">>,
    <<"palette_progresstracker", "immediate">>, <<"palette_calendar", "hybrid">>,
    <<"palette_filetree", "hybrid">>, <<"palette_document", "immediate">>>>
PaletteParts == {componentTools[i][1] : i \in DOMAIN componentTools} \cup {"palette_update", "palette_clear"}

Name == Seq(Parts) \ {<< >>}
ServerRef == [name : Name, kind : {"command", "agent", "palette"}, offers : Seq(Name),
              include : SUBSET Name, exclude : SUBSET Name, children : Nat,
              behind : {"nothing", "attached", "detached"}, heeds : BOOLEAN]
Setup == [refs : Seq(ServerRef), namespacing : {"auto", "always", "never"}, serve : BOOLEAN,
          sandbox : BOOLEAN, parallel : BOOLEAN, ownIgnore : BOOLEAN, timeout : BOOLEAN]
ASSUME SetupsAssumption ==
  /\ Setups \subseteq Setup
  /\ \A s \in Setups :
       /\ s.sandbox => s.serve
       /\ \A i \in DOMAIN s.refs : s.refs[i].kind = "palette" =>
            i = 1 /\ ~s.serve /\ s.refs[i].behind # "attached"
       /\ s.sandbox => \A i \in DOMAIN s.refs : s.refs[i].kind = "command" => s.refs[i].behind = "detached"
  /\ PaletteParts \subseteq Parts
  /\ IsFiniteSet(Callers) /\ Names \subseteq Name
  /\ MaxCalls \in Nat /\ MaxSpend \in Nat

VARIABLES
  setup,
  phase,      \* "starting", "running", "closing", "exited"
  at, stage,  \* the server that is being started, and how far it is
  servers,    \* Manager.servers: <<[ref, tools]>>
  closed,     \* how many of them Close has closed
  alive,      \* servers whose direct child is alive
  behind,     \* servers with a process or a container behind it
  told,       \* servers whose input has ended, or that were interrupted
  files,      \* in the directory of a sandboxed server
  calls,      \* a call: pc, its number, the server it is routed to, how many of the
              \* child agent's servers it has started, the counter it has read
  made,
  stats,      \* agenttool.Server's counter of tokens
  spent,      \* history: the tokens of all runs of a child agent
  lost,       \* history: those of runs that failed
  shown       \* the children's tokens in the summary that ends a chat

processVars == <<alive, behind, told>>
toolsVars == <<setup, phase, at, stage, servers, closed, processVars, files, calls, made, stats, spent, lost, shown>>
starting == <<phase, at, stage, servers, files>>
calling == <<calls, made, stats, spent, lost>>

refs == setup.refs
Temporary == {"Dockerfile.trove"} \cup IF setup.ownIgnore THEN {} ELSE {".dockerignore"}
Own == IF setup.ownIgnore THEN {".dockerignore"} ELSE {}
Idle == [pc |-> "idle", number |-> 0, ref |-> 0, started |-> 0, used |-> 0, read |-> 0]

ToolsInit ==
  /\ setup \in Setups
  /\ phase = "starting" /\ at = 1 /\ stage = "none"
  /\ servers = << >> /\ closed = 0 /\ files = Own
  /\ alive = {} /\ behind = {} /\ told = {}
  /\ calls = [c \in Callers |-> Idle] /\ made = 0
  /\ stats = [i \in DOMAIN refs |-> 0] /\ spent = stats /\ lost = stats /\ shown = 0

-----------------------------------------------------------------------------
(* Processes.  A server is <<"server", i>>, by its place in the setup, or  *)
(* <<"child", i, n, m>>, the m-th of the agent i for the call number n.    *)

ServerAt(i) == <<"server", i>>
RefOf(o) == refs[o[2]]

Spawned(o) ==
  /\ alive' = alive \cup {o}
  /\ behind' = IF RefOf(o).behind = "nothing" THEN behind ELSE behind \cup {o}

\* Client.Close, ViewerProcess.Stop: the input is closed, or the viewer
\* interrupted.  Wait returns when the direct child has ended, and with it all
\* that holds its pipes.
Tell(o) == told' = told \cup {o}
Waited(o) == o \notin alive /\ (RefOf(o).behind = "attached" => o \notin behind)

\* Slip: a server's process is started without the context of its start.
KilledIfInterrupted(o) == RefOf(o).kind = "palette" /\ o \in told

\* The context of a start ends with it, which kills the direct child; the viewer
\* has none, and is killed 5 seconds after its interrupt.
Killed(o) ==
  IF RefOf(o).kind = "palette" THEN o \in told ELSE ~(stage = "process" /\ o = ServerAt(at))

\* What is behind it ends when its input does; docker run closes that of its
\* container when it ends, and npx passes the interrupt on.
Ending(o) == RefOf(o).heeds /\ (o \in told \/ (RefOf(o).behind = "detached" /\ o \notin alive))

\* A process may also end by itself at any time.
ChildEnds(o) == o \in alive /\ alive' = alive \ {o} /\ UNCHANGED behind
BehindEnds(o) == o \in behind /\ behind' = behind \ {o} /\ UNCHANGED alive
ProcessEnds ==
  /\ \E o \in alive \cup behind : ChildEnds(o) \/ BehindEnds(o)
  /\ UNCHANGED <<setup, shown, starting, closed, told, calling>>
ProcessMustEnd ==
  /\ \E o \in alive \cup behind : (Killed(o) /\ ChildEnds(o)) \/ (Ending(o) /\ BehindEnds(o))
  /\ UNCHANGED <<setup, shown, starting, closed, told, calling>>

-----------------------------------------------------------------------------
(* Starting.  One server after the other; a failure is not fatal.          *)

Sandboxed(i) == setup.sandbox /\ refs[i].kind = "command"
Starting == phase = "starting" /\ at \in DOMAIN refs

\* FilterTools: what is included, without what is excluded.  What is left keeps
\* its place in the list, which nothing asks for.
FilterTools(ref) ==
  RestrictValues(ref.offers,
    LAMBDA tool : (ref.include = {} \/ tool \in ref.include) /\ tool \notin ref.exclude)

\* Whether a call of one waits for the user.
ShouldBlock(tool, awaitInteraction) ==
  \E i \in DOMAIN componentTools :
    /\ componentTools[i][1] = tool
    /\ componentTools[i][2] = "blocking" \/ (componentTools[i][2] = "hybrid" /\ awaitInteraction)

PaletteTools ==
  [i \in DOMAIN componentTools |-> <<componentTools[i][1]>>]
    \o << <<"palette_update">>, <<"palette_clear">> >>

Tools(ref) ==
  CASE ref.kind = "command" -> FilterTools(ref)
    [] ref.kind = "palette" -> PaletteTools
    [] OTHER -> ref.offers     \* ExposedTool

\* The deferred removals.
FilesRemoved == files' = IF stage # "none" /\ Sandboxed(at)
                           THEN files \ Temporary ELSE files

WriteFiles ==
  /\ Starting /\ Sandboxed(at) /\ stage = "none"
  /\ files' = files \cup Temporary
  /\ stage' = "files"
  /\ UNCHANGED <<setup, shown, phase, at, servers, closed, processVars, calling>>

Build ==
  /\ Starting /\ stage = "files" /\ stage' = "built"
  /\ UNCHANGED <<setup, shown, phase, at, servers, closed, processVars, files, calling>>

\* The process, container or viewer exists; it has to initialize, list its
\* tools or become ready.
Spawn ==
  /\ Starting /\ refs[at].kind # "agent"
  /\ stage = IF Sandboxed(at) THEN "built" ELSE "none"
  /\ stage' = "process"
  /\ Spawned(ServerAt(at))
  /\ UNCHANGED <<setup, shown, phase, at, servers, closed, told, files, calling>>

\* No answer, no list of tools, or the viewer is not ready: what was started is
\* closed.
Fail ==
  /\ Starting /\ stage = "process" /\ stage' = "failed"
  /\ Tell(ServerAt(at))
  /\ UNCHANGED <<setup, shown, phase, at, servers, closed, alive, behind, files, calling>>

\* Slip: a server that cannot list its tools is not closed.
SkipKeepsProcess ==
  /\ Starting
  /\ at' = at + 1 /\ stage' = "none" /\ FilesRemoved
  /\ UNCHANGED <<setup, shown, phase, servers, closed, processVars, calling>>

\* Any step fails: nothing to run, a variable not set, an agent that does not
\* expose itself, no image, no start; or the failed server has been waited for.
Skip ==
  /\ Starting /\ stage # "process"
  /\ stage = "failed" => Waited(ServerAt(at))
  /\ at' = at + 1 /\ stage' = "none" /\ FilesRemoved
  /\ UNCHANGED <<setup, shown, phase, servers, closed, processVars, calling>>

Register ==
  /\ Starting /\ stage = IF refs[at].kind = "agent" THEN "none" ELSE "process"
  /\ servers' = Append(servers, [ref |-> at, tools |-> Tools(refs[at])])
  /\ at' = at + 1 /\ stage' = "none" /\ FilesRemoved
  /\ UNCHANGED <<setup, shown, phase, closed, processVars, calling>>

\* Chat gives up when it has servers and none of them has started.
Ready ==
  /\ phase = "starting" /\ at = Len(refs) + 1
  /\ phase' = IF /\ ~setup.serve
                 /\ \E i \in DOMAIN refs : refs[i].kind # "palette"
                 /\ \A k \in DOMAIN servers : refs[servers[k].ref].kind = "palette"
                THEN "closing" ELSE "running"
  /\ UNCHANGED <<setup, shown, at, stage, servers, closed, processVars, files, calling>>

-----------------------------------------------------------------------------
(* The names.                                                              *)

NameOf(k) == refs[servers[k].ref].name

HasCollisions ==
  \E k, l \in DOMAIN servers : \E i \in DOMAIN servers[k].tools, j \in DOMAIN servers[l].tools :
    <<k, i>> # <<l, j>> /\ servers[k].tools[i] = servers[l].tools[j]

Namespaced == setup.namespacing = "always" \/ (setup.namespacing = "auto" /\ HasCollisions)

\* AllTools: a tool with the name it is offered under.
AllTools ==
  LET shouldNamespace == Namespaced
      Qualified(k, tool) == IF shouldNamespace THEN NameOf(k) \o tool ELSE tool
  IN UNION { {[server |-> k, tool |-> tool, name |-> Qualified(k, tool)] :
                tool \in ToSet(servers[k].tools)} : k \in DOMAIN servers }

\* CallTool: a server that is named by the first part gets the rest, whether
\* it lists it or not; otherwise the first that lists the name.
Prefixed(name) == {k \in DOMAIN servers : Len(name) > 1 /\ NameOf(k) = <<Head(name)>>}
Listing(name) == {k \in DOMAIN servers : \E i \in DOMAIN servers[k].tools : servers[k].tools[i] = name}
First(S) == CHOOSE k \in S : \A l \in S : k \leq l
NotFound == [server |-> 0, tool |-> << >>]

\* Slip: names that are not qualified are looked up first.
RouteBareFirst(name) ==
  IF Len(name) > 1 /\ Listing(Tail(name)) # {} THEN [server |-> First(Listing(Tail(name))), tool |-> Tail(name)]
  ELSE IF Listing(name) # {} THEN [server |-> First(Listing(name)), tool |-> name]
  ELSE NotFound

Route(name) ==
  IF Prefixed(name) # {} THEN [server |-> First(Prefixed(name)), tool |-> Tail(name)]
  ELSE IF Listing(name) # {} THEN [server |-> First(Listing(name)), tool |-> name]
  ELSE NotFound

\* What the model is told.
buildToolDefs == {t.name : t \in AllTools}

-----------------------------------------------------------------------------
(* Calls.                                                                  *)

Serving == phase = "running" \/ (setup.serve /\ phase = "closing")
Goto(c, pc) == calls' = [calls EXCEPT ![c].pc = pc]

Call(c) ==
  /\ Serving /\ calls[c].pc = "idle" /\ made < MaxCalls
  /\ setup.parallel \/ \A d \in Callers : calls[d].pc = "idle"
  /\ \E name \in Names \cup buildToolDefs, awaitInteraction \in BOOLEAN :
       LET to == Route(name)
           ref == IF to.server = 0 THEN 0 ELSE servers[to.server].ref
           kind == IF ref = 0 THEN "none" ELSE refs[ref].kind
       IN calls' = [calls EXCEPT ![c] =
            [pc |-> CASE kind = "command" -> "tool"
                      [] kind = "agent" -> "children"
                      [] kind = "palette" /\ ShouldBlock(Head(to.tool), awaitInteraction) -> "prompt"
                      [] OTHER -> "idle",
             number |-> made + 1, ref |-> ref, started |-> 0, used |-> 0, read |-> 0]]
  /\ made' = made + 1
  /\ UNCHANGED <<setup, shown, starting, closed, processVars, stats, spent, lost>>

\* A server's answer, or its error once it is closed (McpClient).
ToolAnswers(c) ==
  /\ calls[c].pc = "tool" /\ calls' = [calls EXCEPT ![c] = Idle]
  /\ UNCHANGED <<setup, shown, starting, closed, processVars, made, stats, spent, lost>>

\* The user answers, the connection is lost, or the prompt's time is up.
PromptEnds(c) ==
  /\ calls[c].pc = "prompt" /\ calls' = [calls EXCEPT ![c] = Idle]
  /\ UNCHANGED <<setup, shown, starting, closed, processVars, made, stats, spent, lost>>

Child(c, m) == <<"child", calls[c].ref, calls[c].number, m>>
Children(c) == {Child(c, m) : m \in 1..calls[c].started}

\* The last of them that was closed has been waited for.
ChildrenWaited(c) == \A o \in Children(c) \cap told : Waited(o)

\* The child agent's provider cannot be made, and there is nothing to close;
\* or it gets servers of its own, one after the other, without those that fail.
StartChildren(c) ==
  /\ calls[c].pc = "children"
  /\ \/ calls[c].started = 0 /\ calls' = [calls EXCEPT ![c] = Idle] /\ UNCHANGED processVars
     \/ /\ calls[c].started < refs[calls[c].ref].children /\ ChildrenWaited(c)
        /\ calls' = [calls EXCEPT ![c].started = @ + 1]
        /\ \/ UNCHANGED processVars
           \/ LET o == Child(c, calls[c].started + 1)
              IN Spawned(o) /\ (UNCHANGED told \/ Tell(o))
  /\ UNCHANGED <<setup, shown, starting, closed, made, stats, spent, lost>>

\* Its session spends tokens whether it fails or not; an error returns before
\* they are added.
RunChild(c) ==
  /\ calls[c].pc = "children" /\ calls[c].started = refs[calls[c].ref].children /\ ChildrenWaited(c)
  /\ \E n \in 0..MaxSpend, ok \in BOOLEAN :
       /\ spent' = [spent EXCEPT ![calls[c].ref] = @ + n]
       /\ lost' = [lost EXCEPT ![calls[c].ref] = IF ok THEN @ ELSE @ + n]
       /\ calls' = [calls EXCEPT ![c].pc = IF ok THEN "adding" ELSE "returning", ![c].used = n]
  /\ UNCHANGED <<setup, shown, starting, closed, processVars, made, stats>>

\* The counter is read and written without a lock.
ReadStats(c) ==
  /\ calls[c].pc = "adding"
  /\ calls' = [calls EXCEPT ![c].pc = "writing", ![c].read = stats[calls[c].ref]]
  /\ UNCHANGED <<setup, shown, starting, closed, processVars, made, stats, spent, lost>>

\* Slip: the run's tokens replace the counter.
WriteStatsOfRun(c) ==
  /\ calls[c].pc = "writing" /\ Goto(c, "returning")
  /\ stats' = [stats EXCEPT ![calls[c].ref] = calls[c].used]
  /\ UNCHANGED <<setup, shown, starting, closed, processVars, made, spent, lost>>

WriteStats(c) ==
  /\ calls[c].pc = "writing" /\ Goto(c, "returning")
  /\ stats' = [stats EXCEPT ![calls[c].ref] = calls[c].read + calls[c].used]
  /\ UNCHANGED <<setup, shown, starting, closed, processVars, made, spent, lost>>

\* The deferred Close of the child's manager: one server is closed after the
\* other has been waited for, and then the call returns.
CloseChildren(c) ==
  /\ calls[c].pc = "returning" /\ ChildrenWaited(c)
  /\ LET left == (Children(c) \cap (alive \cup behind)) \ told
     IN \/ \E o \in left : Tell(o) /\ UNCHANGED calls
        \/ left = {} /\ calls' = [calls EXCEPT ![c] = Idle] /\ UNCHANGED told
  /\ UNCHANGED <<setup, shown, starting, closed, alive, behind, made, stats, spent, lost>>

\* Slip: a prompt waits for its answer alone.
CallStepUntimed(c) ==
  \/ ToolAnswers(c) \/ StartChildren(c) \/ RunChild(c)
  \/ ReadStats(c) \/ WriteStats(c) \/ CloseChildren(c)

\* What the program sees to: a prompt only if it has a timeout.
CallStep(c) ==
  \/ ToolAnswers(c) \/ (setup.timeout /\ PromptEnds(c)) \/ StartChildren(c) \/ RunChild(c)
  \/ ReadStats(c) \/ WriteStats(c) \/ CloseChildren(c)

-----------------------------------------------------------------------------
(* The end.                                                                *)

\* Of the agents among the servers, as long as they are in the list.
AggregateChildStats(counter) ==
  SumFunction([k \in DOMAIN servers |->
    IF refs[servers[k].ref].kind = "agent" THEN counter[servers[k].ref] ELSE 0])

\* Session.Summary, without the session's own counters (AgentRuntime).
Summary == AggregateChildStats(stats)

\* /quit comes between two turns and ends with the summary; an interrupt of
\* serve waits 5 seconds for the requests and then goes on without them.
Quit ==
  /\ phase = "running" /\ phase' = "closing"
  /\ setup.serve \/ \A c \in Callers : calls[c].pc = "idle"
  /\ shown' = IF setup.serve THEN 0 ELSE Summary
  /\ UNCHANGED <<setup, at, stage, servers, closed, processVars, files, calling>>

\* What was closed is waited for before the next.
ServersWaited == \A o \in told : o[1] = "server" => Waited(o)

\* The palette's session is closed before the manager, which closes its
\* servers in their order.
HasViewer == servers # << >> /\ refs[servers[1].ref].kind = "palette"
CloseViewer ==
  /\ phase = "closing" /\ HasViewer /\ ServerAt(1) \notin told
  /\ Tell(ServerAt(1))
  /\ UNCHANGED <<setup, shown, starting, closed, alive, behind, calling>>

\* Slip: what was closed is not waited for.
CloseNextAtOnce ==
  /\ phase = "closing" /\ closed < Len(servers) /\ (HasViewer => ServerAt(1) \in told)
  /\ Tell(ServerAt(servers[closed + 1].ref)) /\ closed' = closed + 1
  /\ UNCHANGED <<setup, shown, starting, alive, behind, calling>>

\* An agent and the palette's provider have nothing more to close.
CloseNext ==
  /\ phase = "closing" /\ closed < Len(servers) /\ (HasViewer => ServerAt(1) \in told)
  /\ ServersWaited
  /\ Tell(ServerAt(servers[closed + 1].ref)) /\ closed' = closed + 1
  /\ UNCHANGED <<setup, shown, starting, alive, behind, calling>>

\* The list is emptied and the program ends, with the calls it still has; its
\* end closes every pipe.
Exit ==
  /\ phase = "closing" /\ closed = Len(servers) /\ ServersWaited
  /\ phase' = "exited" /\ servers' = << >> /\ closed' = 0
  /\ told' = told \cup alive \cup behind
  /\ UNCHANGED <<setup, shown, at, stage, alive, behind, files, calling>>

Start == WriteFiles \/ Build \/ Spawn \/ Fail \/ Skip \/ Register \/ Ready
End == CloseViewer \/ CloseNext \/ Exit
ToolsNext ==
  \/ Start \/ Quit \/ End \/ ProcessEnds
  \/ phase # "exited" /\ \E c \in Callers : Call(c) \/ CallStep(c) \/ PromptEnds(c)

ToolsSpec == ToolsInit /\ [][ToolsNext]_toolsVars

\* Starting and closing go on as soon as what they wait for has ended, and so
\* does each step of a call, but a prompt without a timeout.
ToolsFairSpec ==
  /\ ToolsSpec /\ WF_toolsVars(Start) /\ WF_toolsVars(End) /\ WF_toolsVars(ProcessMustEnd)
  /\ \A c \in Callers : WF_toolsVars(phase # "exited" /\ CallStep(c))

-----------------------------------------------------------------------------
(* Properties.                                                             *)

ToolsTypes ==
  /\ phase \in {"starting", "running", "closing", "exited"}
  /\ at \in 1..Len(refs) + 1 /\ stage \in {"none", "files", "built", "process", "failed"}
  /\ closed \in 0..Len(servers) /\ made \in 0..MaxCalls
  /\ \A c \in Callers : calls[c].pc \in {"idle", "tool", "prompt", "children",
                                          "adding", "writing", "returning"}

\* The server names have no dots and differ, and no tool's name begins with one.
PlainNames ==
  /\ \A k \in DOMAIN servers : Len(NameOf(k)) = 1
  /\ \A k, l \in DOMAIN servers : NameOf(k) = NameOf(l) => k = l
  /\ \A k \in DOMAIN servers : \A i \in DOMAIN servers[k].tools :
       Namespaced \/ Prefixed(servers[k].tools[i]) = {}

\* A tool that is offered to the model can be called: the name it is offered
\* under leads to its server.  Where the server names are plain and different
\* only "never" with two tools of the same name fails to; a server with a dot
\* in its name cannot be called as soon as names are qualified.
\* (Manager.AllTools, Manager.CallTool.)
OffersRouted ==
  LET plain == PlainNames /\ (setup.namespacing = "never" => ~HasCollisions)
  IN \A t \in AllTools :
    /\ plain => Route(t.name) = [server |-> t.server, tool |-> t.tool]
    /\ Route(t.name) = NotFound => Namespaced /\ Len(NameOf(t.server)) > 1

\* The servers in use: those of the list that are not closed, the one being
\* started or being closed, and those of calls in progress.
InUse ==
  { ServerAt(servers[k].ref) : k \in { k \in DOMAIN servers : k >= closed } }
    \cup (IF stage \in {"process", "failed"} THEN {ServerAt(at)} ELSE {})
    \cup UNION { Children(c) : c \in { c \in Callers : calls[c].pc \in {"children", "adding", "writing", "returning"} } }

\* No direct child and no temporary file outlives its use, on any path of
\* starting, calling and closing.  What is behind it does only if its input has
\* ended, and if Close does not wait for it: a container or the viewer behind
\* npx, which may ignore that.  Of chat no direct child is left in the end; of
\* serve there may be those of requests that the shutdown did not wait for.
\* The user's .dockerignore stays.
\* (StartServer, StartServerSandboxed, StartSession, Server.CallTool, Close.)
NothingLeftBehind ==
  /\ alive \subseteq InUse
  /\ \A o \in behind \ InUse : o \in told /\ RefOf(o).behind = "detached"
  /\ (stage = "none" => files = Own) /\ Own \subseteq files
  /\ phase = "exited" /\ ~setup.serve => alive = {}

\* The counters of an agent used as a tool never show more than its runs have
\* spent.  With one call at a time they show all but the runs that failed, and
\* so does the summary at a chat's end; calls that overlap may lose more.
\* (Server.CallTool, ChildStats, AggregateChildStats, finishSession.)
ChildSpendReported ==
  /\ \A i \in DOMAIN refs :
       /\ stats[i] + lost[i] \leq spent[i]
       /\ ~setup.parallel /\ (\A c \in Callers : calls[c].pc = "idle") => stats[i] + lost[i] = spent[i]
  /\ phase = "closing" /\ ~setup.serve /\ ~setup.parallel =>
       shown = AggregateChildStats(spent) - AggregateChildStats(lost)

\* Close waits for what is behind a launcher, for ever if that does not end
\* with its input.
LaunchersEnd == \A i \in DOMAIN refs : refs[i].behind = "attached" => refs[i].heeds

\* Every tool call is answered, the palette's prompts when they have a timeout:
\* the servers of a child agent end in time to be waited for.
CallAnswered ==
  \A c \in Callers :
    calls[c].pc # "idle" /\ setup.timeout /\ LaunchersEnd ~> calls[c].pc = "idle" \/ phase = "exited"

\* A program that begins to close ends: each server that is closed ends, or is
\* killed, in time to be waited for.
\* (ViewerProcess.Stop, Manager.Close, Client.Close, exec.CommandContext.)
ClosingEnds == phase = "closing" /\ LaunchersEnd ~> phase = "exited"
=============================================================================
