---------------------------- MODULE MCEvaluation ----------------------------
(* Agents on a model that only the eval runner cannot price and on one     *)
(* without a price, two with a temperature that their model or the suite's *)
(* rejects, and a server with two golden files.                            *)
EXTENDS Evaluation, TLC

Check(type, names, limit) == [type |-> type, names |-> names, limit |-> limit]
MCAgentSuites ==
  "scout" :> <<[name |-> "calls", model |-> << >>, scenarios |->
    <<[name |-> "retry", turns |-> 1, runs |-> 2, mocks |-> ("fetch" :> 1),
       asserts |-> <<Check("tool_called", <<"fetch">>, 0), Check("min_tool_calls", << >>, 2),
                     Check("tool_sequence_includes", <<"search", "fetch">>, 0),
                     Check("output_contains", <<"fetch">>, 0), Check("cites_data_source", << >>, 0)>>],
      [name |-> "down", turns |-> 1, runs |-> 1, mocks |-> ("search" :> 0),
       asserts |-> <<Check("no_hallucinated_stats", << >>, 0), Check("max_latency_seconds", << >>, 0),
                     Check("tool_not_called", <<"search">>, 0)>>]>>]>>
  @@ LET Cost(model) == <<[name |-> "cost", model |-> model, scenarios |->
    <<[name |-> "cheap", turns |-> 2, runs |-> 1, mocks |-> << >>,
       asserts |-> <<Check("max_cost_usd", << >>, 1), Check("max_turns", << >>, 2),
                     Check("max_tokens_used", << >>, 3), Check("no_tool_errors", << >>, 0)>>]>>]>>
     IN "thrifty" :> Cost(<< >>) @@ "unpriced" :> Cost(<< >>)
        @@ "warm" :> Cost(<<"opus">>) @@ "refused" :> Cost(<<"haiku">>)

Golden(field, file) == [type |-> "golden_file", field |-> field, expected |-> file]
MCServerSuites ==
  "store" :> <<[name |-> "items", scenarios |->
    <<[name |-> "list", asserts |-> <<Golden(".", "list.json"),
         [type |-> "range", field |-> "n", expected |-> [min |-> 1]],
         [type |-> "schema", field |-> "content", expected |-> "array"]>>],
      [name |-> "name", asserts |-> <<Golden("name", "name.json"),
         [type |-> "length", field |-> "name", expected |-> [min |-> 1, max |-> 2]],
         [type |-> "contains", field |-> "name", expected |-> "a"]>>]>>]>>

MCModelOf == "scout" :> <<"sonnet">> @@ "thrifty" :> <<"haiku">> @@ "unpriced" :> <<"new">>
  @@ "warm" :> <<"haiku", "20251001">> @@ "refused" :> <<"opus">>
MCKnownModels == {<<"sonnet">>, <<"haiku">>, <<"opus">>}
MCEvalPriced == {<<"sonnet">>, <<"haiku", "20251001">>}
MCUntunable == {<<"opus">>}
Reply(calls, numbers) == [calls |-> calls, says |-> {"fetch"}, numbers |-> numbers, tokens |-> 1]
MCReplies == {Reply(<<"search", "fetch">>, << >>), Reply(<<"fetch">>, << >>), Reply(<< >>, <<"1">>)}
MCToolResults == {[ok |-> TRUE, found |-> {"1"}]}

Value(type, n, has) == [type |-> type, n |-> n, has |-> has]
Data(n, name) == [n |-> Value("number", n, {}), name |-> name, content |-> Value("blocks", 1, {})]
MCServerData == {Data(1, Value("string", 1, {"a"})), Data(0, Value("string", 1, {"a"}))}

\* The search of a sequence is exact on every sequence of the bound.
Upto(n) == UNION {[1..k -> {"a", "b"}] : k \in 0..n}
ASSUME SequenceFoundAssumption ==
  \A s \in Upto(3) \ {<< >>}, t \in Upto(5) : SequenceFound(s, t) <=> IsSubsequence(s, t)
=============================================================================
