------------------------------ MODULE Provider ------------------------------
(***************************************************************************)
(* The model providers: how a history becomes a request, which failures    *)
(* are tried again, and how a stream of events is assembled into one       *)
(* response.  Anthropic sends content blocks one after the other, OpenAI   *)
(* deltas keyed by the index of a call, Ollama whole calls in a chunk.     *)
(*                                                                         *)
(* A turn of the model is [text, calls]: the number of its pieces of text  *)
(* and, for each tool call, the number of pieces of its arguments.         *)
(***************************************************************************)
EXTENDS Naturals, Sequences, FiniteSets, SequencesExt

CONSTANTS
  Kinds,        \* which providers
  maxRetries,   \* of Anthropic, per HTTP request and per stream
  Answers,      \* the turns of the model
  MaxTurns      \* bound: turns of one conversation

ProviderAssumption ==
  /\ Kinds \subseteq {"anthropic", "openai", "ollama"}
  /\ maxRetries \in Nat /\ MaxTurns \in Nat \ {0}
  /\ Answers \subseteq [text : Nat, calls : Seq(Nat \ {0})]
ASSUME ProviderAssumption

VARIABLES
  kind, streaming,
  pc,         \* where CreateMessage(Stream) is
  turn,       \* calls of the provider so far
  history,    \* the session's messages: "results" answer all calls before them
  request,    \* the messages as this provider's API takes them
  answer,     \* what the model says in this turn
  httpTry,    \* doRequest's attempt
  streamTry,  \* CreateMessageStream's attempt
  sent,       \* what the server has sent of its answer in this attempt
  ended,      \* history: the event that ends a stream was read
  acc,        \* what parseSSE or parseStream has assembled
  heard,      \* what the stream handler was called with: <<attempt, piece>>
  response

providerVars == <<kind, streaming, pc, turn, history, request, answer, httpTry, streamTry,
                  sent, ended, acc, heard, response>>
exchange == <<kind, streaming, turn, history, request, answer>>

Empty == [open |-> 0, parts |-> << >>, calls |-> << >>, usage |-> 0]
NothingSent == [begun |-> FALSE, open |-> "no", text |-> 0, calls |-> << >>, usage |-> FALSE]
NoResponse == [calls |-> << >>, usage |-> 0]
Whole == 2    \* usage: 0 unknown, 1 the input tokens only, 2 both

\* History: cut says that a budget stop left the calls of this message open.
Message(role, ids, cut) == [role |-> role, ids |-> ids, cut |-> cut]
UserText == Message("user", << >>, FALSE)

ProviderInit ==
  /\ kind \in Kinds /\ streaming \in BOOLEAN
  /\ pc = "idle" /\ turn = 0
  /\ history = <<UserText>> /\ request = << >>
  /\ answer \in Answers
  /\ httpTry = 0 /\ streamTry = 0
  /\ sent = NothingSent /\ ended = FALSE
  /\ acc = Empty /\ heard = << >> /\ response = NoResponse

-----------------------------------------------------------------------------
(* The request.                                                            *)

\* Ollama's calls have no ids of their own: they are numbered in a response.
CallId(i) == IF kind = "ollama" THEN <<0, i>> ELSE <<turn, i>>

\* The history as the API takes it: Anthropic's messages as they are; the
\* others want a message for each tool result, and Ollama knows no ids.
ToolMessage(id) == Message("tool", IF kind = "ollama" THEN << >> ELSE <<id>>, FALSE)

\* Slip: all results in one message.
ConvertMessageAtOnce(m) == <<m>>

ConvertMessage(m) ==
  IF kind = "anthropic" \/ m.role # "results" THEN <<m>>
  ELSE [i \in DOMAIN m.ids |-> ToolMessage(m.ids[i])]

convertMessages(ms) == FlattenSeq([i \in DOMAIN ms |-> ConvertMessage(ms[i])])

CreateMessage ==
  /\ pc = "idle" /\ turn < MaxTurns
  /\ turn' = turn + 1
  /\ request' = convertMessages(history)
  /\ answer' \in Answers
  /\ pc' = "post"
  /\ httpTry' = 0 /\ streamTry' = 0
  /\ sent' = NothingSent /\ ended' = FALSE
  /\ acc' = Empty /\ heard' = << >> /\ response' = NoResponse
  /\ UNCHANGED <<kind, streaming, history>>

-----------------------------------------------------------------------------
(* The HTTP request.                                                       *)

Retried == IF kind = "anthropic" THEN maxRetries ELSE 0

Fails ==
  /\ pc' = "error"
  /\ UNCHANGED <<exchange, httpTry, streamTry, sent, ended, acc, heard, response>>

\* 429 and 529 are tried again, by Anthropic, until the attempts are used up;
\* then that answer is an error like any other status.
Busy ==
  /\ pc = "post"
  /\ IF httpTry < Retried
       THEN /\ httpTry' = httpTry + 1
            /\ UNCHANGED <<exchange, pc, streamTry, sent, ended, acc, heard, response>>
       ELSE UNCHANGED httpTry /\ Fails

\* No connection, a timeout or another status.
Refused == pc = "post" /\ Fails

Accepted ==
  /\ pc = "post"
  /\ pc' = IF streaming THEN "stream" ELSE "body"
  /\ sent' = NothingSent /\ acc' = Empty /\ ended' = FALSE
  /\ UNCHANGED <<exchange, httpTry, streamTry, heard, response>>

-----------------------------------------------------------------------------
(* A whole body.                                                           *)

AnswerCalls == [i \in DOMAIN answer.calls |-> [id |-> CallId(i), parts |-> answer.calls[i]]]

\* It is decoded, or its end is missing.
Body ==
  /\ pc = "body"
  /\ \/ /\ pc' = "done" /\ ended' = TRUE
        /\ response' = [calls |-> AnswerCalls, usage |-> Whole]
     \/ pc' = "error" /\ UNCHANGED <<ended, response>>
  /\ UNCHANGED <<exchange, httpTry, streamTry, sent, acc, heard>>

-----------------------------------------------------------------------------
(* A stream.  The server sends its answer event by event; acc.open is the   *)
(* call, or the calls, being filled, acc.parts their arguments so far.     *)

Begun == kind = "anthropic" => sent.begun

AllSent ==
  /\ Begun /\ sent.open = "no"
  /\ sent.text = answer.text /\ sent.calls = answer.calls

Reads ==
  /\ pc = "stream" /\ ~ended
  /\ UNCHANGED <<exchange, pc, httpTry, streamTry, response>>

ReadMessageStart ==
  /\ Reads /\ kind = "anthropic" /\ ~sent.begun
  /\ sent' = [sent EXCEPT !.begun = TRUE]
  /\ acc' = [acc EXCEPT !.usage = 1]
  /\ UNCHANGED <<ended, heard>>

ReadText ==
  /\ Reads /\ sent.text < answer.text
  /\ kind = "anthropic" => sent.open = "text"
  /\ sent' = [sent EXCEPT !.text = sent.text + 1]
  /\ heard' = Append(heard, <<streamTry, sent.text + 1>>)
  /\ UNCHANGED <<ended, acc>>

\* Slip: the arguments of the call before are not reset.
StartBlockKeeps(i) ==
  [acc EXCEPT !.open = i, !.parts = IF acc.parts = << >> THEN <<0>> ELSE acc.parts]

\* Anthropic: one block of text or of a call is open at a time, and a call is
\* complete when its block ends.
StartBlock(i) == [acc EXCEPT !.open = i, !.parts = <<0>>]
StopBlock ==
  IF acc.open = 0 THEN acc
  ELSE [acc EXCEPT !.open = 0,
          !.calls = Append(acc.calls, [id |-> CallId(acc.open), parts |-> acc.parts[1]])]

ReadBlockStart ==
  /\ Reads /\ kind = "anthropic" /\ sent.begun /\ sent.open = "no" /\ ~sent.usage
  /\ \/ /\ sent' = [sent EXCEPT !.open = "text"]
        /\ UNCHANGED acc
     \/ /\ Len(sent.calls) < Len(answer.calls)
        /\ sent' = [sent EXCEPT !.open = "call", !.calls = Append(sent.calls, 0)]
        /\ acc' = StartBlock(Len(sent.calls) + 1)
  /\ UNCHANGED <<ended, heard>>

ReadBlockStop ==
  /\ Reads /\ sent.open # "no"
  /\ sent.open = "call" => Last(sent.calls) = answer.calls[Len(sent.calls)]
  /\ sent' = [sent EXCEPT !.open = "no"]
  /\ acc' = StopBlock
  /\ UNCHANGED <<ended, heard>>

\* OpenAI: calls are under way side by side, a piece says to which it belongs.
StartIndex == [acc EXCEPT !.parts = Append(acc.parts, 0)]

ReadIndex ==
  /\ Reads /\ kind = "openai" /\ Len(sent.calls) < Len(answer.calls)
  /\ sent' = [sent EXCEPT !.calls = Append(sent.calls, 0)]
  /\ acc' = StartIndex
  /\ UNCHANGED <<ended, heard>>

AddPart(i) ==
  LET j == IF kind = "anthropic" THEN 1 ELSE i
  IN [acc EXCEPT !.parts[j] = acc.parts[j] + 1]

ReadPart(i) ==
  /\ Reads /\ sent.calls[i] < answer.calls[i]
  /\ kind = "anthropic" => sent.open = "call" /\ i = Len(sent.calls)
  /\ kind # "ollama"
  /\ sent' = [sent EXCEPT !.calls[i] = sent.calls[i] + 1]
  /\ acc' = AddPart(i)
  /\ UNCHANGED <<ended, heard>>

\* Ollama: a chunk holds whole calls; the first chunk that has any counts,
\* later ones do not.
AddCalls(first, n) ==
  IF acc.open = 1 THEN acc
  ELSE [acc EXCEPT !.open = 1,
          !.calls = [i \in 1..n |-> [id |-> CallId(i), parts |-> answer.calls[first + i - 1]]]]

ReadCalls(n) ==
  /\ Reads /\ kind = "ollama"
  /\ sent' = [sent EXCEPT !.calls = SubSeq(answer.calls, 1, Len(sent.calls) + n)]
  /\ acc' = AddCalls(Len(sent.calls) + 1, n)
  /\ UNCHANGED <<ended, heard>>

\* The event with the usage comes last; it is Ollama's final chunk.
ReadUsage ==
  /\ Reads /\ AllSent /\ ~sent.usage
  /\ sent' = [sent EXCEPT !.usage = TRUE]
  /\ acc' = [acc EXCEPT !.usage = Whole]
  /\ ended' = (kind = "ollama")
  /\ UNCHANGED heard

\* message_stop and [DONE].
ReadEnd ==
  /\ Reads /\ sent.usage
  /\ ended' = TRUE
  /\ UNCHANGED <<sent, acc, heard>>

ReadEvent ==
  \/ ReadMessageStart \/ ReadText \/ ReadBlockStart \/ ReadBlockStop
  \/ ReadIndex \/ \E i \in DOMAIN sent.calls : ReadPart(i)
  \/ \E n \in 1..(Len(answer.calls) - Len(sent.calls)) : ReadCalls(n)
  \/ ReadUsage \/ ReadEnd

\* OpenAI's calls are finished when the stream is: in the order they came in.
Assembled ==
  IF kind = "openai" THEN [i \in DOMAIN acc.parts |-> [id |-> CallId(i), parts |-> acc.parts[i]]]
  ELSE acc.calls

\* The body ends.  Only Anthropic's parser asks whether anything came at all.
EndOfStream ==
  /\ pc = "stream"
  /\ IF kind = "anthropic" /\ sent = NothingSent
       THEN pc' = "error" /\ UNCHANGED response
       ELSE /\ pc' = "done"
            /\ response' = [calls |-> Assembled, usage |-> acc.usage]
  /\ UNCHANGED <<exchange, httpTry, streamTry, sent, ended, acc, heard>>

\* The connection breaks.  Anthropic's parser returns the scanner's error, the
\* others take a broken stream for a finished one.
BrokenStream ==
  /\ pc = "stream" /\ (ended => kind = "anthropic")
  /\ IF kind = "anthropic" THEN pc' = "error" /\ UNCHANGED response
       ELSE /\ pc' = "done"
            /\ response' = [calls |-> Assembled, usage |-> acc.usage]
  /\ UNCHANGED <<exchange, httpTry, streamTry, sent, ended, acc, heard>>

\* Anthropic reports an error inside the stream; only an overload is tried
\* again, and what has been streamed stays with the handler.
Overloaded ==
  /\ pc = "stream" /\ kind = "anthropic" /\ ~ended
  /\ IF streamTry < maxRetries
       THEN pc' = "post" /\ streamTry' = streamTry + 1 /\ httpTry' = 0
       ELSE pc' = "error" /\ UNCHANGED <<streamTry, httpTry>>
  /\ UNCHANGED <<exchange, sent, ended, acc, heard, response>>

StreamError ==
  /\ pc = "stream" /\ kind = "anthropic" /\ ~ended
  /\ pc' = "error"
  /\ UNCHANGED <<exchange, httpTry, streamTry, sent, ended, acc, heard, response>>

-----------------------------------------------------------------------------
(* The session keeps the answer, and answers its calls or not.             *)

Ids(calls) == [i \in DOMAIN calls |-> calls[i].id]

\* After an answer without calls SendMessage returns.  Otherwise the calls are
\* answered and the model is asked again, or that was the last iteration; when
\* the turn has exceeded the budget, it returns with the calls left open.
KeepAnswer ==
  /\ pc = "done"
  /\ \E cut \in BOOLEAN :
       LET ids == Ids(response.calls)
           said == Message("assistant", ids, cut)
       IN IF ids = << >> \/ cut
            THEN pc' = "over" /\ history' = Append(history, said)
            ELSE /\ pc' \in {"idle", "over"}
                 /\ history' = Append(Append(history, said), Message("results", ids, FALSE))
  /\ UNCHANGED <<kind, streaming, turn, request, answer, httpTry, streamTry,
                 sent, ended, acc, heard, response>>

\* The conversation goes on, after an error too.
SendMessage ==
  /\ pc \in {"over", "error"} /\ pc' = "idle"
  /\ history' = Append(history, UserText)
  /\ UNCHANGED <<kind, streaming, turn, request, answer, httpTry, streamTry,
                 sent, ended, acc, heard, response>>

Call ==
  \/ Busy \/ Refused \/ Accepted \/ Body \/ ReadEvent
  \/ EndOfStream \/ BrokenStream \/ Overloaded \/ StreamError

ProviderNext == SendMessage \/ CreateMessage \/ Call \/ KeepAnswer

ProviderSpec == ProviderInit /\ [][ProviderNext]_providerVars

-----------------------------------------------------------------------------
(* Properties.                                                             *)

\* A response never invents, repeats, reorders or mixes tool calls, whatever
\* was retried before it; if the stream was read to its end it has all of them
\* with all their arguments, and the usage.  Only OpenAI's parser hands out
\* calls with half their arguments when a stream breaks off, and only Ollama's
\* drops the calls of later chunks.  The text of the attempt that succeeded
\* reaches the handler whole, in order and once; text of an attempt that failed
\* half way stays before it and is a beginning of what it had to say.
\* (The parseSSE and parseStream functions, the retry loop around them.)
CallsWhole ==
  pc = "done" =>
    /\ IsPrefix(Ids(response.calls), Ids(AnswerCalls))
    /\ (kind = "openai" /\ ~ended) \/ IsPrefix(response.calls, AnswerCalls)
    /\ ended =>
         /\ response.usage = Whole
         /\ kind # "ollama" => response.calls = AnswerCalls
         /\ response.calls = << >> => answer.calls = << >>

HeardByAttempt ==
  /\ \A n \in DOMAIN heard :
       /\ heard[n][1] \leq streamTry /\ heard[n][2] \leq answer.text
       /\ \/ heard[n][2] = 1 /\ (n > 1 => heard[n - 1][1] < heard[n][1])
          \/ n > 1 /\ heard[n] = <<heard[n - 1][1], heard[n - 1][2] + 1>>
  /\ pc = "done" /\ ended /\ streaming =>
       IsSuffix([k \in 1..answer.text |-> <<streamTry, k>>], heard)

AnswerWhole == CallsWhole /\ HeardByAttempt

\* In the request to OpenAI or Ollama each tool call of an assistant message is
\* answered by a message of its own, directly after it and in order - but for
\* the messages whose calls a budget stop left open, which none answers - and no
\* other tool message exists, however the turns before ended.
\* (convertMessages, SendMessage.)
ToolMessagesFollow ==
  kind # "anthropic" =>
    /\ \A p \in DOMAIN request : request[p].role = "assistant" /\ ~request[p].cut =>
         \A i \in DOMAIN request[p].ids :
           p + i \in DOMAIN request /\ request[p + i] = ToolMessage(request[p].ids[i])
    /\ \A q \in DOMAIN request : request[q].role = "tool" =>
         \E p \in 1..(q - 1) :
           /\ request[p].role = "assistant" /\ ~request[p].cut
           /\ q - p \in DOMAIN request[p].ids

=============================================================================
