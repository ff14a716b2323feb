--------------------------- MODULE PaletteClient ----------------------------
(***************************************************************************)
(* paletteclient.Client: one WebSocket connection to the palette server    *)
(* shared by goroutines - the application's sends and blocking prompts,    *)
(* the goroutine that dials and flushes the queue, one read loop per       *)
(* connection, the reconnect goroutine and Close.  The mutex mu makes one  *)
(* step of what it covers; writeMu is held across a whole flush.           *)
(*                                                                         *)
(* The application calls Connect once and does nothing else until Connect  *)
(* has returned, as palette.StartSession does; then its goroutines run     *)
(* freely.  Payloads are abstracted to the identity of a message.          *)
(***************************************************************************)
EXTENDS Naturals, SequencesExt, FiniteSets

CONSTANTS
  Messages,      \* the renders, updates and activities the application sends
  Prompts,       \* the Prompt calls it makes
  MaxConns,      \* bound: connections made; the last one does not break
  MaxAnswers     \* bound: interactions of the viewer with one prompt

ASSUME PaletteAssumption ==
  /\ MaxConns \in Nat \ {0} /\ MaxAnswers \in Nat
  /\ IsFiniteSet(Messages) /\ IsFiniteSet(Prompts)
  /\ <<"hello">> \notin Messages /\ << >> \notin Prompts

Conns == 1..MaxConns
NoConn == 0

VARIABLES
  state,           \* c.state
  conn,            \* c.conn
  messageQueue,    \* c.messageQueue
  autoReconnect,   \* c.autoReconnect
  done,            \* c.done is closed
  pendingPrompts,  \* c.pendingPrompts
  ch,              \* the reply channel of each prompt, of capacity one
  dialer,          \* where the goroutine that makes each connection is
  batch,           \* what flushQueue has still to write
  reader,          \* where the read loop of each connection is
  answering,       \* the prompt each read loop has taken and not yet answered
  sender,          \* where send is for each item
  via,             \* the connection send took for each item
  prompt,          \* where each Prompt call is
  closer,          \* where Close is, and which connection it took over
  socket,          \* each connection as the network sees it
  received,        \* history: what the server received on each connection
  answers          \* history: interactions with each prompt

clientVars == <<state, conn, messageQueue, autoReconnect, done>>
promptVars == <<pendingPrompts, ch, prompt>>
dialVars == <<dialer, batch>>
readVars == <<reader, answering>>
sendVars == <<sender, via>>
netVars == <<socket, received, answers>>
vars == <<clientVars, promptVars, dialVars, readVars, sendVars, closer, netVars>>

\* What is sent: messages, and for each prompt its render and its clear.
Render(p) == <<"render", p>>
Erase(p) == <<"clear", p>>
Item == Messages \cup { Render(p) : p \in Prompts } \cup { Erase(p) : p \in Prompts }
Hello == <<"hello">>

TypeOK ==
  /\ state \in {"disconnected", "connecting", "connected"}
  /\ conn \in Conns \cup {NoConn}
  /\ messageQueue \in Seq(Item)
  /\ autoReconnect \in BOOLEAN /\ done \in BOOLEAN
  /\ pendingPrompts \subseteq Prompts
  /\ ch \in [Prompts -> Seq({"payload", "closed"})] /\ \A p \in Prompts : Len(ch[p]) <= 1
  /\ dialer \in [Conns -> {"none", "dialing", "hello", "flush", "flushing", "connected",
                           "failed", "backoff", "ended"}]
  /\ batch \in Seq(Item)
  /\ reader \in [Conns -> {"none", "reading", "leaving", "ended"}]
  /\ answering \in [Conns -> Prompts \cup {<< >>}]
  /\ sender \in [Item -> {"todo", "writing", "ended"}]
  /\ via \in [Item -> Conns \cup {NoConn}]
  /\ prompt \in [Prompts -> {"todo", "registered", "answered", "returned"}]
  /\ closer \in [pc : {"todo", "begun", "locked", "ended"}, conn : Conns \cup {NoConn}]
  /\ socket \in [Conns -> {"none", "open", "broken", "closed"}]
  /\ received \in [Conns -> Seq(Item \cup {Hello})]
  /\ answers \in [Prompts -> 0..MaxAnswers]

Init ==
  /\ state = "disconnected" /\ conn = NoConn
  /\ messageQueue = << >> /\ autoReconnect = TRUE /\ done = FALSE
  /\ pendingPrompts = {} /\ ch = [p \in Prompts |-> << >>]
  /\ dialer = [k \in Conns |-> "none"] /\ batch = << >>
  /\ reader = [k \in Conns |-> "none"] /\ answering = [k \in Conns |-> << >>]
  /\ sender = [i \in Item |-> "todo"] /\ via = [i \in Item |-> NoConn]
  /\ prompt = [p \in Prompts |-> "todo"]
  /\ closer = [pc |-> "todo", conn |-> NoConn]
  /\ socket = [k \in Conns |-> "none"]
  /\ received = [k \in Conns |-> << >>] /\ answers = [p \in Prompts |-> 0]

\* flushQueue holds writeMu until its last write; any other write takes it
\* for one step.
writeMuFree == \A k \in Conns : dialer[k] # "flushing"

\* A write reaches the server only on an open socket; on a broken one it may
\* fail or vanish, on a closed one it fails.
Write(k, item) ==
  received' = IF socket[k] = "open" THEN [received EXCEPT ![k] = Append(@, item)] ELSE received

Unused == { k \in Conns : dialer[k] = "none" }
NextConn == CHOOSE k \in Unused : \A j \in Unused : k <= j

-----------------------------------------------------------------------------
(* Connect, dial and flushQueue: the goroutine that makes connection k.    *)

Connect ==
  /\ dialer[1] = "none" /\ closer.pc = "todo"
  /\ state' = "connecting"
  /\ dialer' = [dialer EXCEPT ![1] = "dialing"]
  /\ UNCHANGED <<conn, messageQueue, autoReconnect, done, promptVars, batch, readVars, sendVars,
                 closer, netVars>>

\* The reconnect goroutine's timer fires, unless Close came first.
BackoffOver(k) ==
  /\ dialer[k] = "backoff"
  /\ dialer' = [dialer EXCEPT ![k] = "dialing"]
  /\ UNCHANGED <<clientVars, promptVars, batch, readVars, sendVars, closer, netVars>>

BackoffStopped(k) ==
  /\ dialer[k] = "backoff" /\ done
  /\ dialer' = [dialer EXCEPT ![k] = "ended"]
  /\ UNCHANGED <<clientVars, promptVars, batch, readVars, sendVars, closer, netVars>>

DialFails(k) ==
  /\ dialer[k] = "dialing"
  /\ state' = "disconnected"
  /\ dialer' = [dialer EXCEPT ![k] = "failed"]
  /\ UNCHANGED <<conn, messageQueue, autoReconnect, done, promptVars, batch, readVars, sendVars,
                 closer, netVars>>

DialSucceeds(k) ==
  /\ dialer[k] = "dialing"
  /\ socket' = [socket EXCEPT ![k] = "open"]
  /\ conn' = k /\ state' = "connected"
  /\ dialer' = [dialer EXCEPT ![k] = "hello"]
  /\ UNCHANGED <<messageQueue, autoReconnect, done, promptVars, batch, readVars, sendVars,
                 closer, received, answers>>

\* sendJSON takes c.conn again: Close may have cleared it meanwhile.
HelloSent(k) ==
  /\ dialer[k] = "hello" /\ writeMuFree
  /\ conn = k /\ socket[k] \in {"open", "broken"}
  /\ Write(k, Hello)
  /\ dialer' = [dialer EXCEPT ![k] = "flush"]
  /\ UNCHANGED <<clientVars, promptVars, batch, readVars, sendVars, closer, socket, answers>>

HelloFails(k) ==
  /\ dialer[k] = "hello" /\ writeMuFree
  /\ conn # k \/ socket[k] # "open"
  /\ socket' = [socket EXCEPT ![k] = "closed"]
  /\ state' = "disconnected" /\ conn' = NoConn
  /\ dialer' = [dialer EXCEPT ![k] = "failed"]
  /\ UNCHANGED <<messageQueue, autoReconnect, done, promptVars, batch, readVars, sendVars,
                 closer, received, answers>>

\* Slip: a failed reconnect is reported and not tried again.
GiveUp(k) ==
  /\ dialer[k] = "failed"
  /\ dialer' = [dialer EXCEPT ![k] = "ended"]
  /\ UNCHANGED <<clientVars, promptVars, batch, readVars, sendVars, closer, netVars>>

\* A failed reconnect is scheduled again; a failed Connect is the caller's.
\* Only a dial that got as far as a socket has used its connection up.
RetryOrGiveUp(k) ==
  /\ dialer[k] = "failed"
  /\ IF k = 1 \/ ~autoReconnect
       THEN dialer' = [dialer EXCEPT ![k] = "ended"]
       ELSE IF socket[k] = "none"
              THEN dialer' = [dialer EXCEPT ![k] = "backoff"]
              ELSE dialer' = [dialer EXCEPT ![k] = "ended", ![NextConn] = "backoff"]
  /\ UNCHANGED <<clientVars, promptVars, batch, readVars, sendVars, closer, netVars>>

\* Slip: the queue is written and not emptied.
TakeQueueCopy(k) ==
  /\ dialer[k] = "flush"
  /\ IF conn = NoConn
       THEN dialer' = [dialer EXCEPT ![k] = "connected"] /\ UNCHANGED batch
       ELSE dialer' = [dialer EXCEPT ![k] = "flushing"] /\ batch' = messageQueue
  /\ UNCHANGED <<clientVars, promptVars, readVars, sendVars, closer, netVars>>

\* flushQueue takes the whole queue, even when Close has cleared the connection.
TakeQueue(k) ==
  /\ dialer[k] = "flush"
  /\ messageQueue' = << >>
  /\ IF conn = NoConn
       THEN dialer' = [dialer EXCEPT ![k] = "connected"] /\ UNCHANGED batch
       ELSE dialer' = [dialer EXCEPT ![k] = "flushing"] /\ batch' = messageQueue
  /\ UNCHANGED <<state, conn, autoReconnect, done, promptVars, readVars, sendVars, closer, netVars>>

\* A write that fails ends the flush and drops what is left of it.
FlushOne(k) ==
  /\ dialer[k] = "flushing" /\ batch # << >>
  /\ \/ socket[k] # "closed" /\ Write(k, Head(batch)) /\ batch' = Tail(batch) /\ UNCHANGED dialer
     \/ socket[k] # "open" /\ batch' = << >> /\ UNCHANGED <<dialer, received>>
  /\ UNCHANGED <<clientVars, promptVars, readVars, sendVars, closer, socket, answers>>

\* Slip: the early return after a failed write does not unlock writeMu.
FlushEndsUnlocked(k) ==
  /\ dialer[k] = "flushing" /\ batch = << >> /\ socket[k] = "open"
  /\ dialer' = [dialer EXCEPT ![k] = "connected"]
  /\ UNCHANGED <<clientVars, promptVars, batch, readVars, sendVars, closer, netVars>>

FlushEnds(k) ==
  /\ dialer[k] = "flushing" /\ batch = << >>
  /\ dialer' = [dialer EXCEPT ![k] = "connected"]
  /\ UNCHANGED <<clientVars, promptVars, batch, readVars, sendVars, closer, netVars>>

\* The connected handlers have run; the read loop gets its own connection.
StartReadLoop(k) ==
  /\ dialer[k] = "connected"
  /\ dialer' = [dialer EXCEPT ![k] = "ended"]
  /\ reader' = [reader EXCEPT ![k] = "reading"]
  /\ UNCHANGED <<clientVars, promptVars, batch, answering, sendVars, closer, netVars>>

-----------------------------------------------------------------------------
(* send, Prompt and Close.                                                 *)

\* The application's goroutines are not there while Connect runs.
AppRuns == dialer[1] \in {"none", "ended"}

\* A prompt's render is sent once it is registered, its clear once answered.
MaySend(item) ==
  \A p \in Prompts : /\ item = Render(p) => prompt[p] = "registered"
                     /\ item = Erase(p) => prompt[p] = "answered"

SendOrQueue(item) ==
  /\ AppRuns /\ sender[item] = "todo" /\ MaySend(item)
  /\ IF state = "connected" /\ conn # NoConn
       THEN /\ sender' = [sender EXCEPT ![item] = "writing"]
            /\ via' = [via EXCEPT ![item] = conn]
            /\ UNCHANGED messageQueue
       ELSE /\ sender' = [sender EXCEPT ![item] = "ended"]
            /\ messageQueue' = Append(messageQueue, item)
            /\ UNCHANGED via
  /\ UNCHANGED <<state, conn, autoReconnect, done, promptVars, dialVars, readVars, closer, netVars>>

\* The connection may have been lost since it was looked up.
SendWrite(item) ==
  /\ sender[item] = "writing" /\ writeMuFree
  /\ Write(via[item], item)
  /\ sender' = [sender EXCEPT ![item] = "ended"]
  /\ UNCHANGED <<clientVars, promptVars, dialVars, readVars, via, closer, socket, answers>>

RegisterPrompt(p) ==
  /\ AppRuns /\ prompt[p] = "todo"
  /\ prompt' = [prompt EXCEPT ![p] = "registered"]
  /\ pendingPrompts' = pendingPrompts \cup {p}
  /\ UNCHANGED <<clientVars, ch, dialVars, readVars, sendVars, closer, netVars>>

\* Prompt's select: the reply, the caller's context, or Close.
Waiting(p) == prompt[p] = "registered" /\ sender[Render(p)] = "ended"

TakeReply(p) ==
  /\ Waiting(p) /\ ch[p] # << >>
  /\ ch' = [ch EXCEPT ![p] = Tail(@)]
  /\ prompt' = [prompt EXCEPT ![p] = IF Head(ch[p]) = "payload" THEN "answered" ELSE "returned"]
  /\ UNCHANGED <<clientVars, pendingPrompts, dialVars, readVars, sendVars, closer, netVars>>

Timeout(p) ==
  /\ Waiting(p)
  /\ prompt' = [prompt EXCEPT ![p] = "returned"]
  /\ pendingPrompts' = pendingPrompts \ {p}
  /\ UNCHANGED <<clientVars, ch, dialVars, readVars, sendVars, closer, netVars>>

SeeClosed(p) ==
  /\ Waiting(p) /\ done
  /\ prompt' = [prompt EXCEPT ![p] = "returned"]
  /\ UNCHANGED <<clientVars, pendingPrompts, ch, dialVars, readVars, sendVars, closer, netVars>>

ReturnPayload(p) ==
  /\ prompt[p] = "answered" /\ sender[Erase(p)] = "ended"
  /\ prompt' = [prompt EXCEPT ![p] = "returned"]
  /\ UNCHANGED <<clientVars, pendingPrompts, ch, dialVars, readVars, sendVars, closer, netVars>>

CloseBegins ==
  /\ AppRuns /\ closer.pc = "todo"
  /\ done' = TRUE /\ closer' = [closer EXCEPT !.pc = "begun"]
  /\ UNCHANGED <<state, conn, messageQueue, autoReconnect, promptVars, dialVars, readVars,
                 sendVars, netVars>>

\* Pending prompts are rejected under mu, so a full reply channel would stop
\* every goroutine of the client.
CloseLocked ==
  /\ closer.pc = "begun"
  /\ \A p \in pendingPrompts : ch[p] = << >>
  /\ closer' = [pc |-> "locked", conn |-> conn]
  /\ autoReconnect' = FALSE /\ conn' = NoConn /\ state' = "disconnected"
  /\ ch' = [p \in Prompts |-> IF p \in pendingPrompts THEN <<"closed">> ELSE ch[p]]
  /\ pendingPrompts' = {}
  /\ UNCHANGED <<messageQueue, done, prompt, dialVars, readVars, sendVars, netVars>>

CloseSocket ==
  /\ closer.pc = "locked" /\ (closer.conn # NoConn => writeMuFree)
  /\ closer' = [closer EXCEPT !.pc = "ended"]
  /\ socket' = [k \in Conns |-> IF k = closer.conn THEN "closed" ELSE socket[k]]
  /\ UNCHANGED <<clientVars, promptVars, dialVars, readVars, sendVars, received, answers>>

-----------------------------------------------------------------------------
(* The read loop of connection k, the viewer and the network.              *)

\* Slip: an answer leaves its prompt pending.
InteractionKeepsPending(k, p) ==
  /\ reader[k] = "reading" /\ answering[k] = << >> /\ socket[k] = "open"
  /\ \E j \in Conns : Contains(received[j], Render(p))
  /\ answers[p] < MaxAnswers
  /\ answers' = [answers EXCEPT ![p] = @ + 1]
  /\ answering' = [answering EXCEPT ![k] = IF p \in pendingPrompts THEN p ELSE << >>]
  /\ UNCHANGED <<clientVars, promptVars, dialVars, reader, sendVars, closer, socket, received>>

\* The viewer answers a prompt it was shown: the first answer that finds it
\* pending claims it, any other goes to the interaction handlers.
Interaction(k, p) ==
  /\ reader[k] = "reading" /\ answering[k] = << >> /\ socket[k] = "open"
  /\ \E j \in Conns : Contains(received[j], Render(p))
  /\ answers[p] < MaxAnswers
  /\ answers' = [answers EXCEPT ![p] = @ + 1]
  /\ pendingPrompts' = pendingPrompts \ {p}
  /\ answering' = [answering EXCEPT ![k] = IF p \in pendingPrompts THEN p ELSE << >>]
  /\ UNCHANGED <<clientVars, ch, prompt, dialVars, reader, sendVars, closer, socket, received>>

Reply(k, p) ==
  /\ answering[k] = p /\ ch[p] = << >>
  /\ ch' = [ch EXCEPT ![p] = Append(@, "payload")]
  /\ answering' = [answering EXCEPT ![k] = << >>]
  /\ UNCHANGED <<clientVars, pendingPrompts, prompt, dialVars, reader, sendVars, closer, netVars>>

\* ReadMessage failed: the loop's deferred tear-down, if it is still current.
TearDown(k) ==
  /\ reader[k] = "reading" /\ answering[k] = << >> /\ socket[k] # "open"
  /\ reader' = [reader EXCEPT ![k] =
                  IF conn = k /\ state = "connected" THEN "leaving" ELSE "ended"]
  /\ IF conn = k THEN conn' = NoConn /\ state' = "disconnected" ELSE UNCHANGED <<conn, state>>
  /\ socket' = [socket EXCEPT ![k] = "closed"]
  /\ UNCHANGED <<messageQueue, autoReconnect, done, promptVars, dialVars, answering, sendVars,
                 closer, received, answers>>

\* scheduleReconnect: the next connection's goroutine sleeps first.
ScheduleReconnect(k) ==
  /\ reader[k] = "leaving"
  /\ reader' = [reader EXCEPT ![k] = "ended"]
  /\ dialer' = IF autoReconnect THEN [dialer EXCEPT ![NextConn] = "backoff"] ELSE dialer
  /\ UNCHANGED <<clientVars, promptVars, batch, answering, sendVars, closer, netVars>>

Break(k) ==
  /\ socket[k] = "open" /\ k < MaxConns
  /\ socket' = [socket EXCEPT ![k] = "broken"]
  /\ UNCHANGED <<clientVars, promptVars, dialVars, readVars, sendVars, closer, received, answers>>

-----------------------------------------------------------------------------
Dialing(k) ==
  \/ BackoffOver(k) \/ BackoffStopped(k) \/ DialFails(k) \/ DialSucceeds(k)
  \/ HelloSent(k) \/ HelloFails(k) \/ RetryOrGiveUp(k)
  \/ TakeQueue(k) \/ FlushOne(k) \/ FlushEnds(k) \/ StartReadLoop(k)

Sending(item) == SendOrQueue(item) \/ SendWrite(item)

Prompting(p) == TakeReply(p) \/ Timeout(p) \/ SeeClosed(p) \/ ReturnPayload(p)

Closing == CloseBegins \/ CloseLocked \/ CloseSocket

Next ==
  \/ Connect \/ Closing
  \/ \E k \in Conns : \/ Dialing(k) \/ TearDown(k) \/ ScheduleReconnect(k) \/ Break(k)
                      \/ \E p \in Prompts : Interaction(k, p) \/ Reply(k, p)
  \/ \E item \in Item : Sending(item)
  \/ \E p \in Prompts : RegisterPrompt(p) \/ Prompting(p)

Spec == Init /\ [][Next]_vars

\* The scheduler runs every goroutine that can run, a write ends, and the
\* context of a prompt expires.
FairSpec ==
  /\ Spec
  /\ \A k \in Conns : WF_vars(Dialing(k))
  /\ \A item \in Item : WF_vars(Sending(item))
  /\ \A p \in Prompts : WF_vars(Prompting(p))

-----------------------------------------------------------------------------
(* Properties.                                                             *)

(***************************************************************************)
(* A prompt that can still be claimed has an empty reply channel and no    *)
(* answer under way: the read loop and Close, which replies while it holds *)
(* mu, never block on it.  Until Close a prompt is claimable only while    *)
(* its caller waits.  (client.go handleInteraction, Prompt, Close.)        *)
(***************************************************************************)
ReplyNeverBlocks ==
  /\ \A p \in pendingPrompts : ch[p] = << >> /\ \A k \in Conns : answering[k] # p
  /\ \A k \in Conns : answering[k] # << >> => ch[answering[k]] = << >>
  /\ ~done => \A p \in pendingPrompts : prompt[p] = "registered"

(***************************************************************************)
(* A message is never left in the queue of a connected client - whoever is *)
(* connecting still has to flush it - and none reaches the server twice,   *)
(* over however many connections, or while it is still queued.             *)
(* (client.go send, flushQueue.)                                           *)
(***************************************************************************)
QueueIsFlushed ==
  messageQueue # << >> /\ state = "connected" => dialer[conn] \in {"hello", "flush"}

DeliveredOnce ==
  \A item \in Item :
    Cardinality({ d \in { <<k, n>> : k \in Conns, n \in 1..(2 * Cardinality(Item)) } :
                    d[2] \in DOMAIN received[d[1]] /\ received[d[1]][d[2]] = item })
      <= IF Contains(messageQueue \o batch, item) THEN 0 ELSE 1

QueueDelivered == QueueIsFlushed /\ DeliveredOnce

(***************************************************************************)
(* Exactly one goroutine looks after the link of a client that was         *)
(* connected once: a read loop, or the one that connects again.  It is     *)
(* never stranded without one, and no two of them compete; Close leaves at *)
(* most one.  (client.go readLoop, scheduleReconnect.)                     *)
(***************************************************************************)
Keepers ==
  { k \in Conns : dialer[k] \notin {"none", "ended"} \/ reader[k] \in {"reading", "leaving"} }

OneKeeper ==
  /\ Cardinality(Keepers) <= 1
  /\ reader[1] # "none" /\ autoReconnect /\ ~done => Keepers # {}

(***************************************************************************)
(* A prompt returns: answered, expired or closed.                          *)
(***************************************************************************)
PromptReturns == \A p \in Prompts : prompt[p] = "registered" ~> prompt[p] = "returned"

=============================================================================
