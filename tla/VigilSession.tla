---------------------------- MODULE VigilSession -----------------------------
(***************************************************************************)
(* vigil's session manager: the processes of `vigil start`, `start         *)
(* --force`, `run`, `stop` and `stop --force` on one project share a       *)
(* session file per session and one marker file naming the active session, *)
(* without any lock.  A file is written by truncating it and then writing  *)
(* it; a process may die between any two of its steps.                     *)
(*                                                                         *)
(* A session is named after the process that starts it, and a tool run     *)
(* after the process that runs it.  Git snapshots, diffs and policy checks *)
(* are abstracted to whether a completed session carries their result.     *)
(***************************************************************************)
EXTENDS Naturals, FiniteSets

CONSTANTS
  Procs,       \* the vigil processes, each running one command
  Worlds       \* under which circumstances they run

\* overlap "none": one command at a time; "work": only while a tool runs or a
\* policy check is made; "any": at any step.
World == [overlap : {"none", "work", "any"}, crashes : BOOLEAN]

ASSUME VigilAssumption ==
  IsFiniteSet(Procs) /\ Worlds \subseteq World /\ Procs \cap {"none", "torn"} = {}

Commands == {"start", "start --force", "run", "stop", "stop --force"}

VARIABLES
  world,
  file,       \* the session files
  marker,     \* the marker file: a process's session, "none" or "torn"
  cmd,        \* the command of each process
  pc,         \* its next step
  stage,      \* "force" in ForceStop, then "first" and "second" GetActive
  id, mem,    \* the session it has loaded or created, and its copy in memory
  saved       \* history: the last complete content of each session file

procVars == <<cmd, pc, stage, id, mem>>
vars == <<world, file, marker, procVars, saved>>

\* saved is the session log that the files implement.
Sessions == INSTANCE SessionLog WITH Sessions <- Procs, Runs <- Procs, log <- saved

Absent == Sessions!Absent
Torn == [Absent EXCEPT !.status = "torn"]
Session == [status : {"active", "completed", "aborted"}, runs : SUBSET Procs, checked : BOOLEAN]

TypeOK ==
  /\ world \in World
  /\ file \in [Procs -> Session \cup {Absent, Torn}]
  /\ saved \in [Procs -> Session \cup {Absent}]
  /\ marker \in Procs \cup {"none", "torn"}
  /\ cmd \in [Procs -> Commands \cup {"none"}]
  /\ pc \in [Procs -> {"new", "look", "load", "heal", "create", "work", "truncate", "write",
                       "mark", "name", "unmark", "ended", "crashed"}]
  /\ stage \in [Procs -> {"force", "first", "second"}]
  /\ id \in [Procs -> Procs] /\ mem \in [Procs -> Session \cup {Absent}]
  /\ \A p \in Procs : pc[p] = "work" => mem[p] \in Session

Init ==
  /\ world \in Worlds
  /\ file = [s \in Procs |-> Absent] /\ saved = [s \in Procs |-> Absent]
  /\ marker = "none"
  /\ cmd = [p \in Procs |-> "none"] /\ pc = [p \in Procs |-> "new"]
  /\ stage = [p \in Procs |-> "first"]
  /\ id = [p \in Procs |-> p] /\ mem = [p \in Procs |-> Absent]

Resting == {"new", "ended", "crashed"}
Quiet == \A p \in Procs : pc[p] \in Resting

\* In this world, may p take a step while the others are where they are?
MayStep(p) ==
  \/ world.overlap = "any"
  \/ \A q \in Procs \ {p} :
       pc[q] \in IF world.overlap = "work" THEN Resting \cup {"work"} ELSE Resting

Goto(p, step) == pc' = [pc EXCEPT ![p] = step]

\* What a command does when GetActive returns nothing.
NothingActive(p) == IF cmd[p] \in {"start", "start --force"} THEN "create" ELSE "ended"

-----------------------------------------------------------------------------
Launch(p, c) ==
  /\ pc[p] = "new" /\ MayStep(p)
  /\ cmd' = [cmd EXCEPT ![p] = c]
  /\ stage' = [stage EXCEPT ![p] = IF c \in {"start --force", "stop --force"}
                                     THEN "force" ELSE "first"]
  /\ Goto(p, "look")
  /\ UNCHANGED <<world, file, marker, id, mem, saved>>

\* readActiveMarker: a missing or an empty file names no session.
Named == marker \in Procs

\* The head of GetActive and of ForceStop.
ReadMarker(p) ==
  /\ pc[p] = "look" /\ MayStep(p)
  /\ IF Named
       THEN Goto(p, "load") /\ id' = [id EXCEPT ![p] = marker] /\ UNCHANGED stage
       ELSE /\ UNCHANGED id
            /\ IF stage[p] = "force" /\ cmd[p] = "start --force"
                 THEN UNCHANGED pc /\ stage' = [stage EXCEPT ![p] = "first"]
                 ELSE Goto(p, NothingActive(p)) /\ UNCHANGED stage
  /\ UNCHANGED <<world, file, marker, cmd, mem, saved>>

Readable(s) == file[s].status \in {"active", "completed", "aborted"}

\* Slip: a session that is already active does not keep Start from going on.
ActiveStepStarts(p) ==
  CASE cmd[p] \in {"start", "start --force"} -> "create"
    [] stage[p] = "first" -> "work"
    [] OTHER -> "truncate"

\* What a command does with the active session: Start returns
\* ErrActiveSessionExists, stop and run work and look again, then save.
ActiveStep(p) ==
  CASE cmd[p] \in {"start", "start --force"} -> "ended"
    [] stage[p] = "first" -> "work"
    [] OTHER -> "truncate"

\* Slip: the run replaces those recorded before.
UpdatedOnly(p, session) ==
  IF cmd[p] = "run" THEN [session EXCEPT !.runs = {p}]
                    ELSE [session EXCEPT !.status = "completed", !.checked = mem[p].checked]

\* AddToolRun appends the run; Stop attaches the changes and violations that
\* the command found before it looked the session up again.
Updated(p, session) ==
  IF cmd[p] = "run" THEN [session EXCEPT !.runs = @ \cup {p}]
                    ELSE [session EXCEPT !.status = "completed", !.checked = mem[p].checked]

\* GetActive's LoadSession: a session that cannot be read or is over is
\* unmarked; otherwise the command goes on with its copy.
LoadActive(p) ==
  /\ pc[p] = "load" /\ stage[p] # "force" /\ MayStep(p)
  /\ IF Readable(id[p]) /\ file[id[p]].status = "active"
       THEN /\ Goto(p, ActiveStep(p))
            /\ mem' = [mem EXCEPT ![p] = IF stage[p] = "second" THEN Updated(p, file[id[p]])
                                                                ELSE file[id[p]]]
       ELSE Goto(p, "heal") /\ UNCHANGED mem
  /\ UNCHANGED <<world, file, marker, cmd, stage, id, saved>>

Heal(p) ==
  /\ pc[p] = "heal" /\ MayStep(p)
  /\ marker' = "none"
  /\ Goto(p, NothingActive(p))
  /\ UNCHANGED <<world, file, cmd, stage, id, mem, saved>>

\* ForceStop's LoadSession: whatever can be read is aborted.
LoadForced(p) ==
  /\ pc[p] = "load" /\ stage[p] = "force" /\ MayStep(p)
  /\ IF Readable(id[p])
       THEN /\ Goto(p, "truncate")
            /\ mem' = [mem EXCEPT ![p] = [file[id[p]] EXCEPT !.status = "aborted"]]
       ELSE Goto(p, "unmark") /\ UNCHANGED mem
  /\ UNCHANGED <<world, file, marker, cmd, stage, id, saved>>

\* The tool runs, or the diff is taken and checked; then the manager looks
\* the active session up again - unless the tool is unknown, disabled or not
\* installed, or could not be started: then there is no run to record.  A stop
\* goes on without a check when the session has no git snapshot or the diff or
\* the policy engine fails: it only warns.
FinishWork(p, ok) ==
  /\ pc[p] = "work" /\ MayStep(p)
  /\ IF cmd[p] = "run" /\ ~ok
       THEN Goto(p, "ended") /\ UNCHANGED stage
       ELSE Goto(p, "look") /\ stage' = [stage EXCEPT ![p] = "second"]
  /\ mem' = IF cmd[p] = "stop" THEN [mem EXCEPT ![p].checked = ok] ELSE mem
  /\ UNCHANGED <<world, file, marker, cmd, id, saved>>

\* Start takes the git snapshot, which may fail.
Create(p, snapshot) ==
  /\ pc[p] = "create" /\ MayStep(p)
  /\ IF snapshot
       THEN /\ Goto(p, "truncate")
            /\ id' = [id EXCEPT ![p] = p] /\ mem' = [mem EXCEPT ![p] = Sessions!NewSession]
       ELSE Goto(p, "ended") /\ UNCHANGED <<id, mem>>
  /\ UNCHANGED <<world, file, marker, cmd, stage, saved>>

\* SaveSession: os.WriteFile truncates the file and then writes it.
Truncate(p) ==
  /\ pc[p] = "truncate" /\ MayStep(p)
  /\ file' = [file EXCEPT ![id[p]] = Torn]
  /\ Goto(p, "write")
  /\ UNCHANGED <<world, marker, cmd, stage, id, mem, saved>>

\* Slip: whatever saves a session also clears the marker.
AfterSaveUnmark(p) == IF id[p] = p THEN "mark" ELSE "unmark"

AfterSave(p) ==
  CASE cmd[p] = "run" -> "ended"
    [] id[p] = p -> "mark"
    [] OTHER -> "unmark"

WriteSession(p) ==
  /\ pc[p] = "write" /\ MayStep(p)
  /\ file' = [file EXCEPT ![id[p]] = mem[p]]
  /\ saved' = [saved EXCEPT ![id[p]] = mem[p]]
  /\ Goto(p, AfterSave(p))
  /\ UNCHANGED <<world, marker, cmd, stage, id, mem>>

\* writeActiveMarker, in the same two steps.
TruncateMarker(p) ==
  /\ pc[p] = "mark" /\ MayStep(p)
  /\ marker' = "torn"
  /\ Goto(p, "name")
  /\ UNCHANGED <<world, file, cmd, stage, id, mem, saved>>

WriteMarker(p) ==
  /\ pc[p] = "name" /\ MayStep(p)
  /\ marker' = id[p]
  /\ Goto(p, "ended")
  /\ UNCHANGED <<world, file, cmd, stage, id, mem, saved>>

\* clearActiveMarker after Stop and ForceStop; start --force goes on to Start.
Unmark(p) ==
  /\ pc[p] = "unmark" /\ MayStep(p)
  /\ marker' = "none"
  /\ IF cmd[p] = "start --force"
       THEN Goto(p, "look") /\ stage' = [stage EXCEPT ![p] = "first"]
       ELSE Goto(p, "ended") /\ UNCHANGED stage
  /\ UNCHANGED <<world, file, cmd, id, mem, saved>>

\* The process dies.
Crash(p) ==
  /\ world.crashes /\ pc[p] \notin Resting
  /\ Goto(p, "crashed")
  /\ UNCHANGED <<world, file, marker, cmd, stage, id, mem, saved>>

-----------------------------------------------------------------------------
Step(p) ==
  \/ ReadMarker(p) \/ LoadActive(p) \/ Heal(p) \/ LoadForced(p)
  \/ \E ok \in BOOLEAN : FinishWork(p, ok) \/ Create(p, ok)
  \/ Truncate(p) \/ WriteSession(p) \/ TruncateMarker(p) \/ WriteMarker(p) \/ Unmark(p)

Next ==
  \E p \in Procs :
    \/ \E c \in Commands : Launch(p, c)
    \/ Step(p) \/ Crash(p)

Spec == Init /\ [][Next]_vars

-----------------------------------------------------------------------------
(* Properties.                                                             *)

(***************************************************************************)
(* As long as no process dies and the looking up and saving of two         *)
(* commands do not overlap, the files implement the session log: a single  *)
(* active session, runs recorded in it, a check's result in the session it *)
(* completes and in no other, and final states that stay.                  *)
(* (manager.go Start, Stop, ForceStop, AddToolRun.)                        *)
(***************************************************************************)
ImplementsSessionLog ==
  /\ Sessions!Init
  /\ [][world.overlap # "any" /\ ~world.crashes => [Sessions!Next]_saved]_vars

(***************************************************************************)
(* The marker and the files agree whenever no command is under way: the    *)
(* marker names a session whose file was written, and an active session    *)
(* that is not named is one whose start died before it could name it; an   *)
(* unreadable file is one whose writer died.                               *)
(* (manager.go Start, "Save session" before "Write active session marker".)*)
(***************************************************************************)
MarkerAgrees ==
  world.overlap # "any" /\ Quiet =>
    /\ marker \in Procs => file[marker] # Absent
    /\ \A s \in Procs : file[s].status = "active" /\ marker # s => pc[s] = "crashed"
    /\ \A s \in Procs : file[s] = Torn => \E p \in Procs : pc[p] = "crashed" /\ id[p] = s

(***************************************************************************)
(* A tool run that was recorded stays recorded in the session it was       *)
(* recorded in, as long as lookups and saves do not overlap: whatever dies *)
(* when, no command writes back a session it read too early.               *)
(* (manager.go AddToolRun, which looks the session up again.)              *)
(***************************************************************************)
RunsKept ==
  [][world.overlap # "any" => \A s \in Procs : saved[s].runs \subseteq saved'[s].runs]_vars

=============================================================================
