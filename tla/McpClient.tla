------------------------------ MODULE McpClient ------------------------------
(***************************************************************************)
(* harness.Client: one MCP server process spoken to over its standard      *)
(* input and output.  Every request numbers itself, writes one line and    *)
(* starts a reader goroutine on the shared buffered reader; the first line *)
(* with any id that a reader gets is its response.  StartServer makes the  *)
(* first two requests, tools/call requests follow from any goroutine, and  *)
(* a context that ends leaves the reader behind.                           *)
(*                                                                         *)
(* A line is named after the request it answers; one without an id (a      *)
(* notification, or output that is no JSON) is Notice.                     *)
(***************************************************************************)
EXTENDS Naturals, Sequences, FiniteSets

CONSTANTS
  Calls,        \* the tools/call requests, each made once
  Worlds,       \* under which circumstances
  MaxNotes      \* bound: lines without an id that the server writes

\* parallel: calls may be under way together; deadlines: their contexts end;
\* wrapped: the command is a launcher whose child serves and outlives it.
World == [parallel : BOOLEAN, deadlines : BOOLEAN, wrapped : BOOLEAN]

\* No call is a marker for something else.
ASSUME McpAssumption ==
  /\ IsFiniteSet(Calls) /\ Worlds \subseteq World /\ MaxNotes \in Nat
  /\ Calls \cap {"note", "none", "eof", "error"} = {}

VARIABLES
  world,
  stage,      \* what StartServer has come to
  server,     \* the process that reads stdin and writes stdout
  stdin,      \* requests the server has not answered
  stdout,     \* lines no reader has taken
  reader,     \* the reader goroutine of each request
  ch,         \* what it sent on the channel of its request
  call,       \* where send is for each request
  result,     \* what it returned
  notes,      \* lines without an id so far
  expired,    \* history: requests whose context ended first
  overlapped  \* history: two requests were under way at a time

mcpVars == <<world, stage, server, stdin, stdout, reader, ch, call, result, notes,
             expired, overlapped>>
requestVars == <<stdin, reader, ch, call, result>>

Startup == {"initialize", "tools/list"}
Requests == Startup \cup Calls
Notice == "note"
Lines == Requests \cup {Notice}

McpTypes ==
  /\ world \in World
  /\ stage \in {"new", "initialize", "tools/list", "ready", "failed", "closed"}
  /\ server \in {"none", "running", "dead", "killed"}
  /\ stdin \subseteq Requests
  /\ stdout \in Seq(Lines)
  /\ reader \in [Requests -> {"none", "reading", "ended"}]
  /\ ch \in [Requests -> Requests \cup {"none", "eof"}]
  /\ call \in [Requests -> {"new", "waiting", "returned"}]
  /\ result \in [Requests -> Requests \cup {"none", "error"}]
  /\ notes \in 0..MaxNotes
  /\ expired \subseteq Requests /\ overlapped \in BOOLEAN

McpInit ==
  /\ world \in Worlds
  /\ stage = "new" /\ server = "none"
  /\ stdin = {} /\ stdout = << >>
  /\ reader = [r \in Requests |-> "none"] /\ ch = [r \in Requests |-> "none"]
  /\ call = [r \in Requests |-> "new"] /\ result = [r \in Requests |-> "none"]
  /\ notes = 0 /\ expired = {} /\ overlapped = FALSE

Waiting == { r \in Requests : call[r] = "waiting" }
Reading == { r \in Requests : reader[r] = "reading" }

-----------------------------------------------------------------------------
(* send.                                                                   *)

\* The line is written to a process that reads it, or the write fails.
Send(r) ==
  /\ call[r] = "new"
  /\ IF server = "running" /\ stage # "closed"
       THEN /\ stdin' = stdin \cup {r}
            /\ reader' = [reader EXCEPT ![r] = "reading"]
            /\ call' = [call EXCEPT ![r] = "waiting"]
            /\ overlapped' = (overlapped \/ Waiting # {})
            /\ UNCHANGED result
       ELSE /\ call' = [call EXCEPT ![r] = "returned"]
            /\ result' = [result EXCEPT ![r] = "error"]
            /\ UNCHANGED <<stdin, reader, overlapped>>
  /\ UNCHANGED <<world, stdout, ch, notes, expired>>

\* Slip: whatever line comes next is taken for the response.
TakeAnyLine(r, line) ==
  /\ reader' = [reader EXCEPT ![r] = "ended"]
  /\ ch' = [ch EXCEPT ![r] = line]

\* Lines without an id are skipped, the first one with an id is the response.
TakeLine(r, line) ==
  IF line = Notice
    THEN UNCHANGED <<reader, ch>>
    ELSE /\ reader' = [reader EXCEPT ![r] = "ended"]
         /\ ch' = [ch EXCEPT ![r] = line]

\* One reader takes the next line.  The buffered reader is not made for more
\* than one: then several may get the same line, and lines may be lost.
Read(r) ==
  /\ reader[r] = "reading" /\ stdout # << >>
  /\ TakeLine(r, Head(stdout))
  /\ \/ stdout' = Tail(stdout)
     \/ Reading # {r} /\ UNCHANGED stdout
  /\ UNCHANGED <<world, stage, server, stdin, call, result, notes, expired, overlapped>>

LoseLine ==
  /\ Cardinality(Reading) > 1 /\ stdout # << >>
  /\ stdout' = Tail(stdout)
  /\ UNCHANGED <<world, stage, server, requestVars, notes, expired, overlapped>>

\* Slip: the end of the output is taken for an empty line.
EndOfFileSkipped(r) ==
  /\ reader[r] = "reading" /\ stdout = << >> /\ server \in {"dead", "killed"}
  /\ UNCHANGED mcpVars

EndOfFile(r) ==
  /\ reader[r] = "reading" /\ stdout = << >> /\ server \in {"dead", "killed"}
  /\ reader' = [reader EXCEPT ![r] = "ended"]
  /\ ch' = [ch EXCEPT ![r] = "eof"]
  /\ UNCHANGED <<world, stage, server, stdin, stdout, call, result, notes, expired, overlapped>>

\* send's select: the reader's message ...
Return(r) ==
  /\ call[r] = "waiting" /\ ch[r] # "none"
  /\ call' = [call EXCEPT ![r] = "returned"]
  /\ result' = [result EXCEPT ![r] = IF ch[r] = "eof" THEN "error" ELSE ch[r]]
  /\ UNCHANGED <<world, stage, server, stdin, stdout, reader, ch, notes, expired, overlapped>>

\* ... or the end of its context, with the reader still at it.
Expire(r) ==
  /\ call[r] = "waiting" /\ (r \in Calls => world.deadlines)
  /\ call' = [call EXCEPT ![r] = "returned"]
  /\ result' = [result EXCEPT ![r] = "error"]
  /\ expired' = expired \cup {r}
  /\ UNCHANGED <<world, stage, server, stdin, stdout, reader, ch, notes, overlapped>>

-----------------------------------------------------------------------------
(* StartServer, its caller, and Close.                                     *)

Start ==
  /\ stage = "new"
  /\ stage' = "initialize" /\ server' = "running"
  /\ UNCHANGED <<world, requestVars, stdout, notes, expired, overlapped>>

SendStartup ==
  /\ stage \in Startup /\ Send(stage)
  /\ UNCHANGED <<stage, server>>

\* initialize, then tools/list; a failure or an answer that cannot be used
\* closes the client.
NextStage(usable) ==
  /\ stage \in Startup /\ call[stage] = "returned"
  /\ stage' = IF result[stage] = "error" \/ ~usable THEN "failed"
              ELSE IF stage = "initialize" THEN "tools/list" ELSE "ready"
  /\ UNCHANGED <<world, server, requestVars, stdout, notes, expired, overlapped>>

CallTool(r) ==
  /\ stage \in {"ready", "closed"}
  /\ world.parallel \/ Waiting \cap Calls = {}
  /\ Send(r)
  /\ UNCHANGED <<stage, server>>

\* Manager.Close: stdin is closed, and Wait returns once the process has ended.
Close ==
  /\ stage = "ready"
  /\ stage' = "closed"
  /\ UNCHANGED <<world, server, requestVars, stdout, notes, expired, overlapped>>

-----------------------------------------------------------------------------
(* The server process.                                                     *)

\* Requests may be answered in any order.
Answer(r) ==
  /\ server = "running" /\ r \in stdin
  /\ stdin' = stdin \ {r}
  /\ stdout' = Append(stdout, r)
  /\ UNCHANGED <<world, stage, server, reader, ch, call, result, notes, expired, overlapped>>

Note ==
  /\ server = "running" /\ notes < MaxNotes
  /\ notes' = notes + 1
  /\ stdout' = Append(stdout, Notice)
  /\ UNCHANGED <<world, stage, server, requestVars, expired, overlapped>>

\* It may end whenever it likes.
Die ==
  /\ server = "running"
  /\ server' = "dead"
  /\ UNCHANGED <<world, stage, requestVars, stdout, notes, expired, overlapped>>

\* The command was started under the context of StartServer, which its caller
\* cancels on return: exec.CommandContext kills the process it started.
Kill ==
  /\ server = "running" /\ ~world.wrapped
  /\ stage \in {"ready", "failed", "closed"} \/ expired \cap Startup # {}
  /\ server' = "killed"
  /\ UNCHANGED <<world, stage, requestVars, stdout, notes, expired, overlapped>>

-----------------------------------------------------------------------------
Client ==
  \/ SendStartup \/ \E usable \in BOOLEAN : NextStage(usable)
  \/ \E r \in Requests : Read(r) \/ EndOfFile(r) \/ Return(r)

McpNext ==
  \/ Client \/ Start \/ Close \/ LoseLine
  \/ \E r \in Calls : CallTool(r)
  \/ \E r \in Requests : Expire(r) \/ Answer(r)
  \/ Note \/ Die \/ Kill

McpSpec == McpInit /\ [][McpNext]_mcpVars

\* The scheduler runs the client's goroutines, and a context that has a
\* deadline ends; the server owes nothing.
McpFairSpec == McpSpec /\ WF_mcpVars(Client) /\ \A r \in Requests : WF_mcpVars(Expire(r))

-----------------------------------------------------------------------------
(* Properties.                                                             *)

(***************************************************************************)
(* A call returns the answer to its own request, and not that of another,  *)
(* as long as no two requests were under way together and none was left    *)
(* to its reader: only then does taking the next line do without ids.      *)
(* There is then exactly one reader for each request on its way or line on *)
(* its way back, and no reader is left at rest.                            *)
(* (harness.go send and its reader goroutine.)                             *)
(***************************************************************************)
Outstanding == stdin \cup { r \in Requests : \E i \in DOMAIN stdout : stdout[i] = r }

ReadersMatch ==
  /\ Cardinality(Reading) <= 1
  /\ Reading \subseteq Waiting
  /\ server = "running" => Outstanding = Reading

AnswersAreOwn ==
  ~overlapped /\ expired = {} =>
    /\ \A r \in Requests : result[r] \in {"none", "error", r}
    /\ ReadersMatch

(***************************************************************************)
(* A request returns once its server is gone, and one whose context has a  *)
(* deadline even if the server keeps silent - whoever took its answer.     *)
(* (harness.go send: the select, and the end of the output.)               *)
(***************************************************************************)
MustReturn(r) ==
  r \in Startup \/ world.deadlines \/ server \in {"dead", "killed"}

CallReturns ==
  \A r \in Requests : call[r] = "waiting" /\ MustReturn(r) ~> call[r] = "returned"

=============================================================================
