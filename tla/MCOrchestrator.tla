--------------------------- MODULE MCOrchestrator ----------------------------
(***************************************************************************)
(* Every list of up to three agents named in order whose dependencies are  *)
(* at most two of the names, themselves, unknown ones and repetitions      *)
(* included; and lists with one name twice.                                *)
(***************************************************************************)
EXTENDS Orchestrator

CONSTANTS a, b, c

MCDeps == { << >> } \cup { <<x>> : x \in Names } \cup { <<x, y>> : x, y \in Names }

Listed(names, deps) ==
  [i \in DOMAIN names |-> [Name |-> names[i], DependsOn |-> deps[i]]]

MCOrchestrators ==
  { Listed(<<a, b>>, <<d, e>>) : d, e \in MCDeps } \cup
  { Listed(<<a, b, c>>, <<d, e, f>>) : d, e, f \in MCDeps } \cup
  { Listed(<<a, a>>, <<d, << >>>>) : d \in MCDeps } \cup {<< >>}

=============================================================================
