---------------------------- MODULE MCMcpClient -----------------------------
(***************************************************************************)
(* Callers that call one at a time or together, with and without           *)
(* deadlines.  A server launched directly may be killed at any time after  *)
(* its start and need not be, so it has every behaviour of a wrapped one.  *)
(***************************************************************************)
EXTENDS McpClient

MCWorlds == [parallel : BOOLEAN, deadlines : BOOLEAN, wrapped : {FALSE}]

=============================================================================
