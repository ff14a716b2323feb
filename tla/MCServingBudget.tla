-------------------------- MODULE MCServingBudget ---------------------------
(***************************************************************************)
(* Servers with a monthly cap that one request, and two requests together, *)
(* can overshoot, with and without a per-request limit, and one whose      *)
(* ledger did not open.  Requests are interchangeable.                     *)
(***************************************************************************)
EXTENDS ServingBudget, TLC

MCSettings ==
  { [PerRequest |-> limit, Monthly |-> 1, ledger |-> TRUE] : limit \in 0..1 }
  \cup { [PerRequest |-> 1, Monthly |-> 1, ledger |-> FALSE] }

MCSymmetry == Permutations(Requests)

=============================================================================
