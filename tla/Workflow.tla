------------------------------ MODULE Workflow -------------------------------
(***************************************************************************)
(* What an orchestrator promises about one request: each task runs at most *)
(* once, and not before everything it needs has ended.                     *)
(***************************************************************************)
CONSTANT Tasks

VARIABLES
  needs,         \* the tasks that each task depends on; never changes
  task           \* "todo", "running" or "ended", for each task

vars == <<needs, task>>

Init ==
  /\ needs \in [Tasks -> SUBSET Tasks]
  /\ task = [t \in Tasks |-> "todo"]

Start(t) ==
  /\ task[t] = "todo"
  /\ \A d \in needs[t] : task[d] = "ended"
  /\ task' = [task EXCEPT ![t] = "running"]

End(t) ==
  /\ task[t] = "running"
  /\ task' = [task EXCEPT ![t] = "ended"]

\* The next request starts when no task is running.
Reset ==
  /\ \A t \in Tasks : task[t] # "running"
  /\ task' = [t \in Tasks |-> "todo"]

Next ==
  /\ Reset \/ \E t \in Tasks : Start(t) \/ End(t)
  /\ UNCHANGED needs

Spec == Init /\ [][Next]_vars

=============================================================================
