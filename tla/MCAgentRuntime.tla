--------------------------- MODULE MCAgentRuntime ---------------------------
(***************************************************************************)
(* The sessions TLC creates: serving ones (one message) and a REPL's (two),*)
(* sequential and parallel, without a budget, with one that can be met     *)
(* exactly or overshot, and with max_tool_calls unset and set.             *)
(***************************************************************************)
EXTENDS AgentRuntime

Conf(max, parallel, budget, chat) ==
  [MaxToolCalls |-> max, ParallelToolCalls |-> parallel,
   BudgetPerRequest |-> budget, chat |-> chat]

MCConfigs ==
  { Conf(max, parallel, budget, FALSE) :
      max \in 1..2, parallel \in BOOLEAN, budget \in {0, 3} } \cup
  { Conf(0, parallel, 3, TRUE) : parallel \in BOOLEAN }

=============================================================================
