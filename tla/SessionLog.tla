----------------------------- MODULE SessionLog -----------------------------
(***************************************************************************)
(* What vigil promises about its governed sessions: at most one session is *)
(* active, tools are recorded in the active session only, a session is     *)
(* completed in one step with the result of the policy check, if one could *)
(* be made, and a session that has ended never changes again: a session    *)
(* completed without a check is never checked later, and neither an active *)
(* nor an aborted one carries a result.                                    *)
(***************************************************************************)
EXTENDS Naturals

CONSTANTS
  Sessions,     \* identities of sessions
  Runs          \* identities of tool runs

VARIABLE log    \* what is recorded of each session

Absent == [status |-> "absent", runs |-> {}, checked |-> FALSE]
NewSession == [status |-> "active", runs |-> {}, checked |-> FALSE]

Init == log = [s \in Sessions |-> Absent]

Active == { s \in Sessions : log[s].status = "active" }

Start(s) ==
  /\ Active = {} /\ log[s].status = "absent"
  /\ log' = [log EXCEPT ![s] = NewSession]

Record(s, r) ==
  /\ s \in Active
  /\ log' = [log EXCEPT ![s].runs = @ \cup {r}]

Stop(s) ==
  /\ s \in Active
  /\ \E checked \in BOOLEAN :
       log' = [log EXCEPT ![s].status = "completed", ![s].checked = checked]

ForceStop(s) ==
  /\ s \in Active
  /\ log' = [log EXCEPT ![s].status = "aborted"]

Next ==
  \E s \in Sessions :
    \/ Start(s) \/ Stop(s) \/ ForceStop(s)
    \/ \E r \in Runs : Record(s, r)

Spec == Init /\ [][Next]_log

=============================================================================
