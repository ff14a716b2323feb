--------------------------- MODULE MeteredRequest ---------------------------
(***************************************************************************)
(* What one metered request promises to whoever pays for it, whatever the  *)
(* model answers and whatever the tools do: the request runs a sequence of *)
(* model turns, each adding what it cost, and no further turn is started   *)
(* once the spend of the request has reached the per-request limit.  The   *)
(* agent runtime (AgentRuntime) is shown to implement it, message by       *)
(* message, and so is every request of the serving API (ServingBudget).    *)
(***************************************************************************)
EXTENDS Naturals

CONSTANT
  MaxTurnCost    \* the most a single model turn can cost

VARIABLES
  limit,         \* spending limit of one request; 0 means unlimited
  phase,         \* "ready" between requests, "running" inside one
  spent          \* cost of the current (or last) request

vars == <<limit, phase, spent>>

(***************************************************************************)
(* guardrails.Budget.CheckRequestBudget: 0 disables the limit, and meeting *)
(* the limit exactly already counts as exceeding it.                       *)
(***************************************************************************)
Exhausted(cost) == limit > 0 /\ cost >= limit

Init == limit \in Nat /\ phase = "ready" /\ spent = 0

Begin ==
  /\ phase = "ready"
  /\ phase' = "running"
  /\ spent' = 0
  /\ UNCHANGED limit

(* A turn that exhausts the budget is also the last one.                   *)
Turn(c) ==
  /\ phase = "running"
  /\ spent' = spent + c
  /\ phase' \in {"running", "ready"}
  /\ Exhausted(spent') => phase' = "ready"
  /\ UNCHANGED limit

(* The answer is complete, the model failed, or the loop ran out of turns. *)
End ==
  /\ phase = "running"
  /\ phase' = "ready"
  /\ UNCHANGED <<limit, spent>>

Next == Begin \/ (\E c \in 0..MaxTurnCost : Turn(c)) \/ End

Spec == Init /\ [][Next]_vars

=============================================================================
