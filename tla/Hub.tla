-------------------------------- MODULE Hub --------------------------------
(***************************************************************************)
(* The dashboard's event hub: one goroutine that takes registrations,      *)
(* departures and events from three channels, a reader and a writer for    *)
(* every WebSocket client, and the chat handlers that publish what their   *)
(* agents do.  An event is [type, seq].                                    *)
(***************************************************************************)
EXTENDS Naturals, Sequences, FiniteSets, Functions

CONSTANTS
  Clients,
  Topics,      \* what each client has asked for; {} for everything
  Chats,       \* chat handlers
  EventTypes,  \* what an agent's turn brings
  Broadcast,   \* capacity of the hub's channel: 256 in the code
  SendBuffer,  \* capacity of a client's channel: 256 in the code
  MaxEvents    \* bound: events published

ASSUME HubAssumption ==
  /\ Broadcast \in Nat \ {0} /\ SendBuffer \in Nat \ {0} /\ MaxEvents \in Nat

VARIABLES
  run,        \* Run: at its select, or delivering an event to those of todo
  clients,    \* the registered ones
  broadcast,
  log,        \* history: the events that Run has taken
  send,       \* each client's channel
  closed,     \* those of them that are closed
  reader,     \* a client's handler: "new", "registering", "reading", "unregistering", "gone"
  writer,     \* "none", "writing", "gone"
  conn,       \* "open", "closed"
  got,        \* what the browser has received
  since,      \* history: length of log at the registration
  chat,       \* a chat handler: "idle", "running", and the event it wants to publish
  panic

vars == <<run, clients, broadcast, log, send, closed, reader, writer, conn, got, since, chat, panic>>
hub == <<run, clients, broadcast, log>>
pumps == <<reader, writer, conn, got>>

Init ==
  /\ run = [pc |-> "select", event |-> [type |-> "", seq |-> 0], todo |-> {}]
  /\ clients = {} /\ broadcast = << >> /\ log = << >>
  /\ send = [c \in Clients |-> << >>] /\ closed = {}
  /\ reader = [c \in Clients |-> "new"] /\ writer = [c \in Clients |-> "none"]
  /\ conn = [c \in Clients |-> "open"] /\ got = [c \in Clients |-> << >>]
  /\ since = [c \in Clients |-> 0]
  /\ chat = [p \in Chats |-> [pc |-> "idle", event |-> ""]]
  /\ panic = FALSE

isSubscribed(c, type) == Topics[c] = {} \/ type \in Topics[c]
Published == Len(log) + Len(broadcast)

-----------------------------------------------------------------------------
(* The chats.  A message's events are published in order, each when there  *)
(* is room; the first and the last are those of the session.               *)

HandleChat(p) ==
  /\ chat[p].pc = "idle" /\ Published < MaxEvents
  /\ chat' = [chat EXCEPT ![p] = [pc |-> "running", event |-> "session:start"]]
  /\ UNCHANGED <<hub, send, closed, pumps, since, panic>>

\* The agent's turn brings the next event; session:end ends the message.
AgentEvent(p) == \E type \in EventTypes \cup {"session:end"} :
  /\ chat[p].pc = "running" /\ chat[p].event = ""
  /\ Published < MaxEvents
  /\ chat' = [chat EXCEPT ![p].event = type]
  /\ UNCHANGED <<hub, send, closed, pumps, since, panic>>

Publish(p) ==
  /\ chat[p].event # "" /\ Len(broadcast) < Broadcast
  /\ broadcast' = Append(broadcast, [type |-> chat[p].event, seq |-> Published + 1])
  /\ chat' = [chat EXCEPT ![p] = [pc |-> IF @.event = "session:end" THEN "idle" ELSE "running", event |-> ""]]
  /\ UNCHANGED <<run, clients, log, send, closed, pumps, since, panic>>

-----------------------------------------------------------------------------
(* Run.                                                                    *)

\* Register: the handler waits for Run's select, then starts both pumps.
Connect(c) ==
  /\ reader[c] = "new" /\ reader' = [reader EXCEPT ![c] = "registering"]
  /\ UNCHANGED <<hub, send, closed, writer, conn, got, since, chat, panic>>

Register(c) ==
  /\ run.pc = "select" /\ reader[c] = "registering"
  /\ clients' = clients \cup {c} /\ since' = [since EXCEPT ![c] = Len(log)]
  /\ reader' = [reader EXCEPT ![c] = "reading"] /\ writer' = [writer EXCEPT ![c] = "writing"]
  /\ UNCHANGED <<run, broadcast, log, send, closed, conn, got, chat, panic>>

Close(c) == closed' = closed \cup {c} /\ panic' = (panic \/ c \in closed)

\* Slip: the channel is closed without a look at whether it still is there.
ForgetUnseen(c) == clients' = clients \ {c} /\ Close(c)
Forget(c) ==
  IF c \in clients THEN clients' = clients \ {c} /\ Close(c) ELSE UNCHANGED <<clients, closed, panic>>

Unregister(c) ==
  /\ run.pc = "select" /\ reader[c] = "unregistering"
  /\ Forget(c)
  /\ reader' = [reader EXCEPT ![c] = "gone"] /\ conn' = [conn EXCEPT ![c] = "closed"]
  /\ UNCHANGED <<run, broadcast, log, send, writer, got, since, chat>>

TakeEvent ==
  /\ run.pc = "select" /\ broadcast # << >>
  /\ run' = [pc |-> "deliver", event |-> Head(broadcast), todo |-> clients]
  /\ broadcast' = Tail(broadcast) /\ log' = Append(log, Head(broadcast))
  /\ UNCHANGED <<clients, send, closed, pumps, since, chat, panic>>

\* Slips: a client that cannot take the event misses it; the hub asks itself
\* to unregister the client.
Skip(c) == UNCHANGED <<clients, closed, panic>> /\ run' = [run EXCEPT !.todo = @ \ {c}]
EvictBySelf(c) == UNCHANGED <<clients, closed, panic>> /\ run' = [run EXCEPT !.pc = "unregister"]

\* Run is the only one that takes the hub's lock, so that to give it up in
\* the middle of the iteration lets nobody in.
Evict(c) ==
  /\ clients' = clients \ {c} /\ Close(c)
  /\ run' = [run EXCEPT !.todo = @ \ {c}]

Deliver(c) ==
  /\ run.pc = "deliver" /\ c \in run.todo /\ isSubscribed(c, run.event.type)
  /\ IF Len(send[c]) < SendBuffer
     THEN /\ send' = [send EXCEPT ![c] = Append(@, run.event)]
          /\ run' = [run EXCEPT !.todo = @ \ {c}]
          /\ panic' = (panic \/ c \in closed) /\ UNCHANGED <<clients, closed>>
     ELSE Evict(c) /\ UNCHANGED send
  /\ UNCHANGED <<broadcast, log, pumps, since, chat>>

NotSubscribed(c) ==
  /\ run.pc = "deliver" /\ c \in run.todo /\ ~isSubscribed(c, run.event.type)
  /\ run' = [run EXCEPT !.todo = @ \ {c}]
  /\ UNCHANGED <<clients, broadcast, log, send, closed, pumps, since, chat, panic>>

Delivered ==
  /\ run.pc = "deliver" /\ run.todo = {} /\ run' = [run EXCEPT !.pc = "select"]
  /\ UNCHANGED <<clients, broadcast, log, send, closed, pumps, since, chat, panic>>

Loop == TakeEvent \/ Delivered \/ \E c \in Clients : Deliver(c) \/ NotSubscribed(c)

-----------------------------------------------------------------------------
(* The pumps.                                                              *)

\* The browser leaves, or no pong has come in time.
PeerLeaves(c) ==
  /\ reader[c] = "reading" /\ conn[c] = "open" /\ conn' = [conn EXCEPT ![c] = "closed"]
  /\ UNCHANGED <<hub, send, closed, reader, writer, got, since, chat, panic>>

ReadFails(c) ==
  /\ reader[c] = "reading" /\ conn[c] = "closed"
  /\ reader' = [reader EXCEPT ![c] = "unregistering"]
  /\ UNCHANGED <<hub, send, closed, writer, conn, got, since, chat, panic>>

\* A write succeeds, or fails on a closed connection, or by its deadline.
Write(c) == \E ok \in BOOLEAN :
  /\ writer[c] = "writing" /\ send[c] # << >> /\ (ok => conn[c] = "open")
  /\ send' = [send EXCEPT ![c] = Tail(@)]
  /\ IF ok THEN got' = [got EXCEPT ![c] = Append(@, Head(send[c]))] /\ UNCHANGED <<writer, conn>>
     ELSE writer' = [writer EXCEPT ![c] = "gone"] /\ conn' = [conn EXCEPT ![c] = "closed"] /\ UNCHANGED got
  /\ UNCHANGED <<hub, closed, reader, since, chat, panic>>

\* The channel is closed and empty, or a ping cannot be written: the writer
\* closes the connection.
WriterEnds(c) ==
  /\ writer[c] = "writing"
  /\ (c \in closed /\ send[c] = << >>) \/ conn[c] = "closed"
  /\ writer' = [writer EXCEPT ![c] = "gone"] /\ conn' = [conn EXCEPT ![c] = "closed"]
  /\ UNCHANGED <<hub, send, closed, reader, got, since, chat, panic>>

Next ==
  \/ Loop
  \/ \E c \in Clients : \/ Connect(c) \/ Register(c) \/ Unregister(c)
                        \/ PeerLeaves(c) \/ ReadFails(c) \/ Write(c) \/ WriterEnds(c)
  \/ \E p \in Chats : HandleChat(p) \/ AgentEvent(p) \/ Publish(p)

\* Go's select is fair among the channels that are ready; the pumps run.
\* Nothing makes a browser read, or an agent end its turn.
Fairness ==
  /\ WF_vars(Loop) /\ SF_vars(TakeEvent)
  /\ \A c \in Clients : /\ SF_vars(Register(c) \/ Unregister(c))
                        /\ WF_vars(ReadFails(c)) /\ WF_vars(WriterEnds(c))
  /\ \A p \in Chats : SF_vars(Publish(p))

Spec == Init /\ [][Next]_vars
FairSpec == Spec /\ Fairness

-----------------------------------------------------------------------------

\* No channel is closed twice and nothing is sent on a closed one, though a
\* slow client is removed by the delivery and again when its reader ends: a
\* panic here takes the whole dashboard down (Hub.Run).
NeverPanics == ~panic

\* A client has received, or has in its channel, every event of its topics
\* since it registered, in order and without a gap, up to the one that it was
\* too slow for (Run, writePump).  seq numbers the events as Run takes them.
NoGaps ==
  /\ \A i \in DOMAIN log : log[i].seq = i
  /\ \A c \in Clients : writer[c] = "writing" /\ c \notin run.todo =>
       LET has == got[c] \o send[c]
       IN /\ \A i, j \in DOMAIN has : i < j => has[i].seq < has[j].seq
          /\ \E n \in since[c]..Len(log) :
               /\ c \in clients => n = Len(log)
               /\ Range(has) = { log[i] : i \in { k \in since[c] + 1..n : isSubscribed(c, log[k].type) } }

\* Whoever publishes goes on, and a client whose connection is lost is
\* forgotten by all three goroutines, whatever the others do: the hub never
\* waits for a client or for itself.
HubServes ==
  /\ \A p \in Chats : chat[p].event # "" ~> chat[p].event = ""
  /\ \A c \in Clients : conn[c] = "closed" ~> reader[c] = "gone" /\ writer[c] = "gone" /\ c \notin clients
=============================================================================
