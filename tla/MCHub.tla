------------------------------- MODULE MCHub -------------------------------
(* One client for everything and one, like that of /ws/eval, for a topic.  *)
EXTENDS Hub, TLC

CONSTANTS all, texts
MCTopics == all :> {} @@ texts :> {"agent:text"}
=============================================================================
