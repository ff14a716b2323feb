--------------------------- MODULE EvalAssertions ---------------------------
(***************************************************************************)
(* The assertions of eval suites.  Those of an agent's suite are about a   *)
(* captured run: the tool calls it made, what its last turn said, what it  *)
(* used.  Those of a server's suite are about the result of one tool call. *)
(*                                                                         *)
(* A text is the set of what can be found in it (says; found, for a tool's *)
(* result) and the sequence of its numbers.                                *)
(***************************************************************************)
EXTENDS Integers, Sequences, FiniteSets, SequencesExt

ToolsOf(run) == [i \in DOMAIN run.calls |-> run.calls[i].tool]
Called(run, tool) == tool \in ToSet(ToolsOf(run))

\* The calls are gone through once; each that is the next expected one counts.
SequenceFound(expected, called) ==
  LET Step(found, name) ==
        IF found < Len(expected) /\ name = expected[found + 1] THEN found + 1 ELSE found
  IN expected # << >> /\ FoldLeft(Step, 0, called) = Len(expected)

\* What it is to find: the expected calls are there in this order.
IsSubsequence(s, t) ==
  \E at \in [DOMAIN s -> DOMAIN t] :
    /\ \A i, j \in DOMAIN s : i < j => at[i] < at[j]
    /\ \A i \in DOMAIN s : s[i] = t[at[i]]

\* At most half of the numbers said may be in no tool's result.
Grounded(run) ==
  LET known == UNION { run.calls[i].found : i \in DOMAIN run.calls }
      loose == SelectSeq(run.output.numbers, LAMBDA n : n \notin known)
  IN Len(loose) \leq Len(run.output.numbers) \div 2

\* The output names a tool that was called or quotes what it returned.
CitesDataSource(run) ==
  \/ run.calls = << >>
  \/ \E i \in DOMAIN run.calls : LET found == run.calls[i].found
                               IN run.calls[i].tool \in run.output.says \/ (found # {} /\ found \subseteq run.output.says)

\* One check for each name of a list, and a failed one for an empty list.
Each(checks) == IF checks = << >> THEN <<FALSE>> ELSE checks

runAssertion(a, run) ==
  CASE a.type = "tool_called"            -> Each([i \in DOMAIN a.names |-> Called(run, a.names[i])])
    [] a.type = "tool_not_called"        -> Each([i \in DOMAIN a.names |-> ~Called(run, a.names[i])])
    [] a.type = "tool_sequence_includes" -> <<SequenceFound(a.names, ToolsOf(run))>>
    [] a.type = "min_tool_calls"         -> <<Len(run.calls) \geq a.limit>>
    [] a.type = "max_tool_calls"         -> <<Len(run.calls) \leq a.limit>>
    [] a.type = "output_contains"        -> Each([i \in DOMAIN a.names |-> a.names[i] \in run.output.says])
    [] a.type = "output_not_contains"    -> Each([i \in DOMAIN a.names |-> a.names[i] \notin run.output.says])
    [] a.type = "output_matches"         -> <<a.names # << >> /\ a.names[1] \in run.output.says>>
    [] a.type = "max_turns"              -> <<run.turns \leq a.limit>>
    [] a.type = "max_tokens_used"        -> <<run.tokens \leq a.limit>>
    [] a.type = "max_cost_usd"           -> <<run.cost \leq a.limit>>
    [] a.type = "max_latency_seconds"    -> <<~run.late>>
    [] a.type = "no_tool_errors"         -> <<\A i \in DOMAIN run.calls : run.calls[i].ok>>
    [] a.type = "no_hallucinated_stats"  -> <<Grounded(run)>>
    [] a.type = "cites_data_source"      -> <<CitesDataSource(run)>>
    [] OTHER                             -> <<FALSE>>    \* unknown assertion type

RunAssertions(as, run) == FlattenSeq([i \in DOMAIN as |-> runAssertion(as[i], run)])

-----------------------------------------------------------------------------
(* A tool result is a function from its fields to values [type, n, has]:   *)
(* n is the number or the length, has what can be found in it.  "." is the *)
(* whole of it; "content" is a list of blocks, which is an array to schema *)
(* alone.                                                                  *)

Null == [type |-> "null", n |-> 0, has |-> {}]
Whole(data) == [type |-> "object", n |-> 0, has |-> {}, of |-> data]
Found(data, field) == field = "." \/ field \in DOMAIN data
resolveField(data, field) == IF field = "." THEN Whole(data) ELSE data[field]
jsonTypeName(value) == IF value.type = "blocks" THEN "array" ELSE value.type
Measured(value) == value.type \in {"string", "array"}

\* At least one of the bounds is given.
InRange(n, bounds) ==
  /\ "min" \in DOMAIN bounds \/ "max" \in DOMAIN bounds
  /\ "min" \in DOMAIN bounds => n \geq bounds.min
  /\ "max" \in DOMAIN bounds => n \leq bounds.max

checkLength(value, bounds) == Measured(value) /\ InRange(value.n, bounds)
checkContains(value, thing) == Measured(value) /\ thing \in value.has
checkGoldenFile(value, golden, file) == file \in DOMAIN golden /\ golden[file] = value

\* golden: what the files that assertions name hold.
RunAssertion(a, data, golden) ==
  /\ Found(data, a.field)
  /\ LET value == resolveField(data, a.field)
     IN CASE a.type = "schema"      -> jsonTypeName(value) = a.expected
          [] a.type = "range"       -> value.type = "number" /\ InRange(value.n, a.expected)
          [] a.type = "length"      -> checkLength(value, a.expected)
          [] a.type = "contains"    -> checkContains(value, a.expected)
          [] a.type = "golden_file" -> checkGoldenFile(value, golden, a.expected)
          [] OTHER                  -> FALSE
=============================================================================
