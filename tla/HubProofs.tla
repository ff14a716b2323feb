------------------------------ MODULE HubProofs ------------------------------
(***************************************************************************)
(* Proofs about Hub, for any clients, chats, topics and channel sizes: the *)
(* hub never panics, and what a client gets of its topics has no gap.      *)
(* And about Evaluation, for any suites, servers and commands: the         *)
(* verdicts count the stored results, and the snapshots hold.              *)
(***************************************************************************)
EXTENDS Hub, Evaluation, SequenceTheorems, Sums, TLAPS

-----------------------------------------------------------------------------
(* The inductive invariant.                                                *)

Types == EventTypes \cup {"", "session:start", "session:end"}
Event == [type : Types, seq : Nat]
RunState == [pc : {"select", "deliver"}, event : Event, todo : SUBSET Clients]
ChatState == [pc : {"idle", "running"}, event : Types]

TypeOK ==
  /\ run \in RunState
  /\ clients \subseteq Clients /\ closed \subseteq Clients
  /\ broadcast \in Seq(Event) /\ log \in Seq(Event)
  /\ send \in [Clients -> Seq(Event)] /\ got \in [Clients -> Seq(Event)]
  /\ reader \in [Clients -> {"new", "registering", "reading", "unregistering", "gone"}]
  /\ writer \in [Clients -> {"none", "writing", "gone"}]
  /\ conn \in [Clients -> {"open", "closed"}]
  /\ since \in [Clients -> Nat]
  /\ chat \in [Chats -> ChatState]
  /\ panic \in BOOLEAN

\* Events keep the numbers under which they were published.
Numbered ==
  /\ \A i \in 1..Len(log) : log[i].seq = i
  /\ \A i \in 1..Len(broadcast) : broadcast[i].seq = Len(log) + i

\* Run delivers the last event that it took, to registered clients only.
RunInv ==
  /\ run.todo \subseteq clients
  /\ run.pc = "select" => run.todo = {}
  /\ run.pc = "deliver" => Len(log) > 0 /\ run.event = log[Len(log)]

\* A channel is closed when its client is forgotten, never before.
Registered(c) ==
  /\ c \in clients => reader[c] \in {"reading", "unregistering"} /\ c \notin closed
  /\ reader[c] \in {"new", "registering"} =>
       c \notin closed /\ got[c] = << >> /\ send[c] = << >> /\ writer[c] = "none"

Has(c) == got[c] \o send[c]

\* The positions in the log of what is due to c among the first n events.
Due(c, n) == { k \in since[c] + 1..n : isSubscribed(c, log[k].type) }

\* c has what was due to it, up to now or up to when it was evicted.
Fed(c) ==
  /\ \A i, j \in DOMAIN Has(c) : i < j => Has(c)[i].seq < Has(c)[j].seq
  /\ \E n \in since[c]..Len(log) :
       /\ c \in clients => n = IF c \in run.todo THEN Len(log) - 1 ELSE Len(log)
       /\ Range(Has(c)) = { log[i] : i \in Due(c, n) }

IInv ==
  /\ TypeOK /\ Numbered /\ RunInv /\ ~panic
  /\ \A c \in Clients : Registered(c) /\ (writer[c] = "writing" => Fed(c))

-----------------------------------------------------------------------------
(* The actions.                                                            *)

\* What the chats and the pumps do without Run, but for the writing.
Aside(c) == Connect(c) \/ PeerLeaves(c) \/ ReadFails(c) \/ WriterEnds(c)

(***************************************************************************)
(* The actions, one case of every proof below.                             *)
(***************************************************************************)
LEMMA Cases ==
  ASSUME [Next]_vars
  PROVE  \/ TakeEvent \/ Delivered
         \/ \E c \in Clients : \/ Deliver(c) \/ NotSubscribed(c) \/ Register(c)
                              \/ Unregister(c) \/ Aside(c) \/ Write(c)
         \/ \E p \in Chats : HandleChat(p) \/ AgentEvent(p) \/ Publish(p)
         \/ UNCHANGED vars
BY DEF Next, Loop, Aside

-----------------------------------------------------------------------------
(* Types and numbers.                                                      *)

(***************************************************************************)
(* The parts of a step that the types speak of, action by action.          *)
(***************************************************************************)
LEMMA TypesStep == IInv /\ [Next]_vars => TypeOK'
<1> SUFFICES ASSUME TypeOK, RunInv, [Next]_vars PROVE TypeOK'
  BY DEF IInv
<1> USE DEF TypeOK, hub, pumps
<1>1. CASE TakeEvent
  <2>1. Head(broadcast) \in Event /\ Tail(broadcast) \in Seq(Event)
    BY <1>1 DEF TakeEvent
  <2>2. Append(log, Head(broadcast)) \in Seq(Event)
    BY <2>1
  <2>3. [pc |-> "deliver", event |-> Head(broadcast), todo |-> clients] \in RunState
    BY <2>1 DEF RunState
  <2> QED BY <1>1, <2>1, <2>2, <2>3 DEF TakeEvent
<1>2. CASE Delivered
  <2>1. [run EXCEPT !.pc = "select"] \in RunState
    BY DEF RunState
  <2> QED BY <1>2, <2>1 DEF Delivered
<1>3. ASSUME NEW c \in Clients PROVE [run EXCEPT !.todo = @ \ {c}] \in RunState
  BY DEF RunState
<1>4. ASSUME NEW c \in Clients, Deliver(c) PROVE TypeOK'
  <2>1. run' \in RunState
    BY <1>3, <1>4 DEF Deliver, Evict
  <2>2. Append(send[c], run.event) \in Seq(Event)
    BY DEF RunState
  <2>3. send' \in [Clients -> Seq(Event)]
    BY <1>4, <2>2 DEF Deliver
  <2>4. clients' \subseteq Clients /\ closed' \subseteq Clients /\ panic' \in BOOLEAN
    <3>1. CASE Len(send[c]) < SendBuffer
      BY <1>4, <3>1 DEF Deliver
    <3>2. CASE ~ (Len(send[c]) < SendBuffer)
      <4>1. clients' = clients \ {c} /\ closed' = closed \cup {c}
        BY <1>4, <3>2 DEF Deliver, Evict, Close
      <4>2. panic' = (panic \/ c \in closed)
        BY <1>4, <3>2 DEF Deliver, Evict, Close
      <4> QED BY <4>1, <4>2
    <3> QED BY <3>1, <3>2
  <2>5. UNCHANGED <<broadcast, log, pumps, since, chat>>
    BY <1>4 DEF Deliver
  <2> QED BY <2>1, <2>3, <2>4, <2>5
<1>5. ASSUME NEW c \in Clients, NotSubscribed(c) PROVE TypeOK'
  BY <1>3, <1>5 DEF NotSubscribed
<1>6. ASSUME NEW c \in Clients, Register(c) PROVE TypeOK'
  <2>1. Len(log) \in Nat
    OBVIOUS
  <2> QED BY <1>6, <2>1 DEF Register
<1>7. ASSUME NEW c \in Clients, Unregister(c) PROVE TypeOK'
  <2>1. clients' \subseteq Clients /\ closed' \subseteq Clients
    BY <1>7 DEF Unregister, Forget, Close
  <2>2. panic' \in BOOLEAN
    BY <1>7 DEF Unregister, Forget, Close
  <2> QED BY <1>7, <2>1, <2>2 DEF Unregister
<1>8. ASSUME NEW c \in Clients, Aside(c) PROVE TypeOK'
  BY <1>8 DEF Aside, Connect, PeerLeaves, ReadFails, WriterEnds
<1>9. ASSUME NEW c \in Clients, Write(c) PROVE TypeOK'
  <2>1. Head(send[c]) \in Event /\ Tail(send[c]) \in Seq(Event)
    BY <1>9 DEF Write
  <2>2. Append(got[c], Head(send[c])) \in Seq(Event)
    BY <2>1
  <2>3. got' \in [Clients -> Seq(Event)] /\ send' \in [Clients -> Seq(Event)]
    <3>1. /\ send' = [send EXCEPT ![c] = Tail(send[c])]
          /\ got' = [got EXCEPT ![c] = Append(got[c], Head(send[c]))] \/ got' = got
      BY <1>9 DEF Write
    <3>2. send' \in [Clients -> Seq(Event)]
      BY <2>1, <3>1
    <3>3. got' \in [Clients -> Seq(Event)]
      BY <2>2, <3>1
    <3> QED BY <3>2, <3>3
  <2>4. /\ writer' \in [Clients -> {"none", "writing", "gone"}]
        /\ conn' \in [Clients -> {"open", "closed"}]
        /\ UNCHANGED <<hub, closed, reader, since, chat, panic>>
    BY <1>9 DEF Write
  <2> QED BY <2>3, <2>4
<1>10. ASSUME NEW p \in Chats, HandleChat(p) \/ AgentEvent(p) \/ Publish(p) PROVE TypeOK'
  <2>1. chat' \in [Chats -> ChatState]
    <3>1. CASE HandleChat(p)
      BY <3>1 DEF HandleChat, ChatState, Types
    <3>2. CASE AgentEvent(p)
      <4>1. PICK type \in EventTypes \cup {"session:end"} : chat' = [chat EXCEPT ![p].event = type]
        BY <3>2 DEF AgentEvent
      <4>2. type \in Types
        BY DEF Types
      <4> QED BY <4>1, <4>2 DEF ChatState
    <3>3. CASE Publish(p)
      <4>1. PICK pc \in {"idle", "running"} : chat' = [chat EXCEPT ![p] = [pc |-> pc, event |-> ""]]
        BY <3>3 DEF Publish
      <4>2. [pc |-> pc, event |-> ""] \in ChatState
        BY DEF ChatState, Types
      <4> QED BY <4>1, <4>2
    <3> QED BY <1>10, <3>1, <3>2, <3>3
  <2>2. broadcast' \in Seq(Event)
    <3>1. Published + 1 \in Nat
      BY DEF Published
    <3>2. [type |-> chat[p].event, seq |-> Published + 1] \in Event
      BY <3>1 DEF Event, ChatState
    <3>3. Append(broadcast, [type |-> chat[p].event, seq |-> Published + 1]) \in Seq(Event)
      BY <3>2
    <3> QED BY <1>10, <3>3 DEF HandleChat, AgentEvent, Publish
  <2>3. UNCHANGED <<run, clients, log, send, closed, pumps, since, panic>>
    BY <1>10 DEF HandleChat, AgentEvent, Publish
  <2> QED BY <2>1, <2>2, <2>3
<1>11. CASE UNCHANGED vars
  BY <1>11 DEF vars
<1> QED BY <1>1, <1>2, <1>3, <1>4, <1>5, <1>6, <1>7, <1>8, <1>9, <1>10, <1>11, Cases

(***************************************************************************)
(* Only two actions touch the log or the channel of the hub.               *)
(***************************************************************************)
LEMMA QueueKept ==
  [Next]_vars => \/ TakeEvent \/ \E p \in Chats : Publish(p)
                 \/ UNCHANGED <<log, broadcast>>
BY Cases DEF Delivered, Deliver, NotSubscribed, Register, Unregister, Aside, Connect, PeerLeaves,
   ReadFails, WriterEnds, Write, HandleChat, AgentEvent, vars, hub

(***************************************************************************)
(* Every step keeps the numbers.                                           *)
(***************************************************************************)
LEMMA NumberedStep == TypeOK /\ Numbered /\ [Next]_vars => Numbered'
<1> SUFFICES ASSUME TypeOK, Numbered, [Next]_vars PROVE Numbered'
  OBVIOUS
<1>0. /\ log \in Seq(Event) /\ broadcast \in Seq(Event)
      /\ Len(log) \in Nat /\ Len(broadcast) \in Nat
  BY DEF TypeOK
<1>1. CASE TakeEvent
  <2>1. /\ broadcast # << >> /\ broadcast' = Tail(broadcast)
        /\ log' = Append(log, Head(broadcast))
    BY <1>1 DEF TakeEvent
  <2>2. /\ Len(log') = Len(log) + 1 /\ log'[Len(log) + 1] = broadcast[1]
        /\ \A i \in 1..Len(log) : log'[i] = log[i]
    BY <1>0, <2>1
  <2>3. /\ Len(broadcast) > 0 /\ Len(broadcast') = Len(broadcast) - 1
        /\ \A i \in 1..Len(broadcast') : broadcast'[i] = broadcast[i + 1]
    BY <1>0, <2>1
  <2>4. \A i \in 1..Len(log') : log'[i].seq = i
    BY <1>0, <2>2, <2>3 DEF Numbered
  <2>5. ASSUME NEW i \in 1..Len(broadcast') PROVE broadcast'[i].seq = Len(log') + i
    <3>1. broadcast'[i] = broadcast[i + 1] /\ i + 1 \in 1..Len(broadcast)
      BY <1>0, <2>3
    <3>2. broadcast[i + 1].seq = Len(log) + (i + 1)
      BY <3>1 DEF Numbered
    <3> QED BY <1>0, <2>2, <3>1, <3>2
  <2> QED BY <2>4, <2>5 DEF Numbered
<1>2. ASSUME NEW p \in Chats, Publish(p) PROVE Numbered'
  <2> DEFINE e == [type |-> chat[p].event, seq |-> Published + 1]
  <2>1. broadcast' = Append(broadcast, e) /\ log' = log /\ e.seq = Len(log) + Len(broadcast) + 1
    BY <1>0, <1>2 DEF Publish, Published
  <2> HIDE DEF e
  <2>2. /\ Len(broadcast') = Len(broadcast) + 1 /\ broadcast'[Len(broadcast) + 1] = e
        /\ \A i \in 1..Len(broadcast) : broadcast'[i] = broadcast[i]
    BY <1>0, <2>1
  <2>3. ASSUME NEW i \in 1..Len(broadcast') PROVE broadcast'[i].seq = Len(log) + i
    <3>1. CASE i \in 1..Len(broadcast)
      BY <2>2, <3>1 DEF Numbered
    <3>2. CASE i = Len(broadcast) + 1
      BY <1>0, <2>1, <2>2, <3>2
    <3> QED BY <1>0, <2>2, <3>1, <3>2
  <2> QED BY <2>1, <2>3 DEF Numbered
<1>3. CASE UNCHANGED <<log, broadcast>>
  BY <1>3 DEF Numbered
<1> QED BY <1>1, <1>2, <1>3, QueueKept


-----------------------------------------------------------------------------
(* Run and its clients.                                                    *)

(***************************************************************************)
(* Every step keeps what Run knows, and does not panic: a channel that it  *)
(* closes or sends on belongs to a registered client.                      *)
(***************************************************************************)
LEMMA RunStep == IInv /\ [Next]_vars => RunInv' /\ ~panic'
<1> SUFFICES ASSUME TypeOK, RunInv, ~panic, \A c \in Clients : Registered(c), [Next]_vars
             PROVE  RunInv' /\ ~panic'
  BY DEF IInv
<1>0. /\ clients \subseteq Clients /\ run \in RunState /\ log \in Seq(Event)
      /\ broadcast \in Seq(Event) /\ clients \cap closed = {}
  BY DEF TypeOK, Registered
<1>1. CASE TakeEvent
  <2>1. /\ run'.pc = "deliver" /\ run'.event = Head(broadcast) /\ run'.todo = clients
        /\ clients' = clients /\ log' = Append(log, Head(broadcast)) /\ panic' = panic
    BY <1>1 DEF TakeEvent
  <2>2. Len(log') = Len(log) + 1 /\ log'[Len(log) + 1] = Head(broadcast) /\ Len(log) \in Nat
    BY <1>0, <2>1
  <2> QED BY <2>1, <2>2 DEF RunInv
<1>2. CASE Delivered
  BY <1>0, <1>2 DEF Delivered, RunInv, RunState
<1>3. ASSUME NEW c \in Clients, Deliver(c) \/ NotSubscribed(c) PROVE RunInv' /\ ~panic'
  <2>1. /\ c \in clients /\ run.pc = "deliver" /\ log' = log
        /\ run' = [run EXCEPT !.todo = @ \ {c}]
        /\ clients' \in {clients, clients \ {c}}
    BY <1>3 DEF Deliver, NotSubscribed, Evict, RunInv
  <2>2. /\ run'.pc = "deliver" /\ run'.event = run.event /\ run'.todo = run.todo \ {c}
    BY <1>0, <2>1 DEF RunState
  <2>3. RunInv'
    BY <2>1, <2>2 DEF RunInv
  <2>4. panic' \in {panic, panic \/ c \in closed}
    BY <1>3 DEF Deliver, NotSubscribed, Evict, Close
  <2> QED BY <1>0, <2>1, <2>3, <2>4
<1>4. ASSUME NEW c \in Clients, Register(c) PROVE RunInv' /\ ~panic'
  BY <1>4 DEF Register, RunInv
<1>5. ASSUME NEW c \in Clients, Unregister(c) PROVE RunInv' /\ ~panic'
  <2>1. run.todo = {} /\ run.pc = "select" /\ run' = run
    BY <1>5 DEF Unregister, RunInv
  <2>2. RunInv'
    BY <2>1 DEF RunInv
  <2>3. CASE c \in clients
    <3>1. panic' = (panic \/ c \in closed)
      BY <1>5, <2>3 DEF Unregister, Forget, Close
    <3> QED BY <1>0, <2>2, <2>3, <3>1
  <2>4. CASE c \notin clients
    BY <1>5, <2>2, <2>4 DEF Unregister, Forget
  <2> QED BY <2>3, <2>4
<1>6. CASE UNCHANGED <<run, clients, log, panic>>
  BY <1>6 DEF RunInv
<1> QED BY <1>1, <1>2, <1>3, <1>4, <1>5, <1>6, Cases
        DEF Aside, Connect, PeerLeaves, ReadFails, WriterEnds, Write, HandleChat, AgentEvent,
            Publish, hub, vars

(***************************************************************************)
(* Every step keeps the channel of a registered client open, and that of   *)
(* one that is not registered yet unused.                                  *)
(***************************************************************************)
LEMMA RegisteredStep ==
  ASSUME IInv, [Next]_vars, NEW c \in Clients
  PROVE  Registered(c)'
<1>0. Registered(c) /\ RunInv /\ TypeOK
  BY DEF IInv
<1> USE DEF TypeOK, hub, pumps
<1>1. ASSUME NEW d \in Clients, Deliver(d) PROVE Registered(c)'
  <2>1. d \in clients
    BY <1>0, <1>1 DEF Deliver, RunInv
  <2>2. UNCHANGED <<reader, got, writer>>
    BY <1>1 DEF Deliver
  <2>3. \/ /\ send' = [send EXCEPT ![d] = Append(@, run.event)]
           /\ UNCHANGED <<clients, closed>>
        \/ send' = send /\ clients' = clients \ {d} /\ closed' = closed \cup {d}
    BY <1>1 DEF Deliver, Evict, Close
  <2> QED BY <1>0, <2>1, <2>2, <2>3 DEF Registered
<1>2. ASSUME NEW d \in Clients, Register(d) PROVE Registered(c)'
  BY <1>0, <1>2 DEF Register, Registered
<1>3. ASSUME NEW d \in Clients, Unregister(d) PROVE Registered(c)'
  <2>1. /\ UNCHANGED <<send, got, writer>> /\ reader[d] = "unregistering"
        /\ reader' = [reader EXCEPT ![d] = "gone"]
    BY <1>3 DEF Unregister
  <2>2. \/ clients' = clients \ {d} /\ closed' = closed \cup {d}
        \/ d \notin clients /\ UNCHANGED <<clients, closed>>
    BY <1>3 DEF Unregister, Forget, Close
  <2> QED BY <1>0, <2>1, <2>2 DEF Registered
<1>4. ASSUME NEW d \in Clients, Aside(d) PROVE Registered(c)'
  BY <1>0, <1>4 DEF Aside, Connect, PeerLeaves, ReadFails, WriterEnds, Registered
<1>5. ASSUME NEW d \in Clients, Write(d) PROVE Registered(c)'
  <2>1. /\ UNCHANGED <<clients, closed, reader>> /\ writer[d] = "writing"
        /\ \A x \in Clients : x # d => /\ got'[x] = got[x] /\ send'[x] = send[x]
                                      /\ writer'[x] = writer[x]
    <3>1. writer' \in {writer, [writer EXCEPT ![d] = "gone"]}
      BY <1>5 DEF Write
    <3>2. got' \in {got, [got EXCEPT ![d] = Append(@, Head(send[d]))]}
      BY <1>5 DEF Write
    <3>3. /\ send' = [send EXCEPT ![d] = Tail(@)] /\ UNCHANGED <<clients, closed, reader>>
          /\ writer[d] = "writing"
      BY <1>5 DEF Write
    <3> QED BY <1>0, <3>1, <3>2, <3>3
  <2> QED BY <1>0, <2>1 DEF Registered
<1>6. CASE UNCHANGED <<clients, closed, reader, got, send, writer>>
  BY <1>6, <1>0 DEF Registered
<1> QED BY <1>1, <1>2, <1>3, <1>4, <1>5, <1>6, Cases
        DEF TakeEvent, Delivered, NotSubscribed, HandleChat, AgentEvent, Publish, vars

-----------------------------------------------------------------------------
(* What a client gets.                                                     *)

(***************************************************************************)
(* Appending an event with a larger number to an ordered list.             *)
(***************************************************************************)
LEMMA AppendOrdered ==
  ASSUME NEW h \in Seq(Event), NEW e \in Event, NEW g, g = Append(h, e),
         \A i, j \in DOMAIN h : i < j => h[i].seq < h[j].seq,
         \A i \in DOMAIN h : h[i].seq < e.seq
  PROVE  /\ \A i, j \in DOMAIN g : i < j => g[i].seq < g[j].seq
         /\ Range(g) = Range(h) \cup {e}
<1>1. /\ Len(h) \in Nat /\ Len(g) = Len(h) + 1 /\ DOMAIN h = 1..Len(h) /\ DOMAIN g = 1..Len(g)
      /\ g[Len(h) + 1] = e /\ \A i \in 1..Len(h) : g[i] = h[i]
  OBVIOUS
<1>2. ASSUME NEW i \in DOMAIN g, NEW j \in DOMAIN g, i < j PROVE g[i].seq < g[j].seq
  <2>1. i \in DOMAIN h /\ g[i] = h[i]
    BY <1>1, <1>2
  <2>2. (j \in DOMAIN h /\ g[j] = h[j]) \/ g[j] = e
    BY <1>1
  <2> QED BY <1>2, <2>1, <2>2
<1>3. Range(g) = Range(h) \cup {e}
  BY <1>1 DEF Range
<1> QED BY <1>2, <1>3

(***************************************************************************)
(* Steps that change neither what c has nor the log, nor what Run still    *)
(* owes it.                                                                *)
(***************************************************************************)
LEMMA FedKept ==
  ASSUME NEW c \in Clients, Fed(c), Has(c)' = Has(c), since'[c] = since[c], log' = log,
         c \in clients' => c \in clients /\ (c \in run'.todo <=> c \in run.todo)
  PROVE  Fed(c)'
<1>1. \A n \in Nat : Due(c, n)' = Due(c, n)
  BY DEF Due, isSubscribed
<1>2. PICK n \in since[c]..Len(log) :
        /\ c \in clients => n = IF c \in run.todo THEN Len(log) - 1 ELSE Len(log)
        /\ Range(Has(c)) = { log[i] : i \in Due(c, n) }
  BY DEF Fed
<1>3. Due(c, n)' = Due(c, n)
  BY DEF Due, isSubscribed
<1>4. Range(Has(c)') = { log'[i] : i \in Due(c, n)' }
  BY <1>2, <1>3
<1> QED BY <1>2, <1>4 DEF Fed


(***************************************************************************)
(* The writer passes an event from the channel on: together they hold the  *)
(* same.                                                                   *)
(***************************************************************************)
LEMMA Passed ==
  ASSUME NEW g \in Seq(Event), NEW q \in Seq(Event), q # << >>
  PROVE  Append(g, Head(q)) \o Tail(q) = g \o q
<1> DEFINE a == Append(g, Head(q)) \o Tail(q)
           b == g \o q
<1>1. /\ Head(q) \in Event /\ Head(q) = q[1] /\ Tail(q) \in Seq(Event) /\ Len(Tail(q)) = Len(q) - 1
      /\ \A i \in 1..Len(Tail(q)) : Tail(q)[i] = q[i + 1]
  BY HeadTailProperties
<1>2. a \in Seq(Event) /\ b \in Seq(Event)
  BY <1>1
<1>3. Len(g) \in Nat /\ Len(q) \in Nat /\ Len(q) > 0 /\ Len(Append(g, Head(q))) = Len(g) + 1
  OBVIOUS
<1>4. Len(a) = Len(b)
  BY <1>1, <1>3
<1>5. ASSUME NEW i \in 1..Len(a) PROVE a[i] = b[i]
  <2>1. CASE i <= Len(g)
    BY <1>1, <1>3, <1>4, <2>1
  <2>2. CASE i = Len(g) + 1
    BY <1>1, <1>3, <1>4, <2>2
  <2>3. CASE i > Len(g) + 1
    <3>1. a[i] = Tail(q)[i - (Len(g) + 1)]
      BY <1>1, <1>3, <1>4, <2>3
    <3>2. i - (Len(g) + 1) \in 1..Len(Tail(q))
      BY <1>1, <1>3, <1>4, <2>3
    <3>3. b[i] = q[i - Len(g)]
      BY <1>3, <1>4, <2>3
    <3> HIDE DEF a, b
    <3> QED BY <1>1, <1>3, <3>1, <3>2, <3>3
  <2> QED BY <1>3, <2>1, <2>2, <2>3
<1> HIDE DEF a, b
<1>6. a = b
  BY <1>2, <1>4, <1>5, SeqEqual
<1> QED BY <1>6 DEF a, b

(***************************************************************************)
(* Run takes an event: it is the only one that the registered clients miss.*)
(***************************************************************************)
LEMMA FedTakeEvent ==
  ASSUME IInv, TakeEvent, NEW c \in Clients, Fed(c)
  PROVE  Fed(c)'
<1>0. log \in Seq(Event) /\ broadcast \in Seq(Event) /\ since[c] \in Nat /\ run.todo = {}
  BY DEF IInv, TypeOK, TakeEvent, RunInv
<1>1. PICK n \in since[c]..Len(log) :
        /\ c \in clients => n = IF c \in run.todo THEN Len(log) - 1 ELSE Len(log)
        /\ Range(Has(c)) = { log[i] : i \in Due(c, n) }
  BY DEF Fed
<1>2. /\ UNCHANGED <<clients, send, got, since>> /\ run'.todo = clients
      /\ log' = Append(log, Head(broadcast))
  BY DEF TakeEvent, pumps
<1>3. /\ Len(log) \in Nat /\ Len(log') = Len(log) + 1 /\ n \in Nat
      /\ \A i \in 1..Len(log) : log'[i] = log[i]
  BY <1>0, <1>1, <1>2
<1>4. \A k \in since[c] + 1..n : log'[k] = log[k]
  BY <1>0, <1>1, <1>3
<1>5. Due(c, n)' = Due(c, n)
  BY <1>2, <1>4 DEF Due, isSubscribed
<1>6. { log'[i] : i \in Due(c, n)' } = { log[i] : i \in Due(c, n) }
  BY <1>4, <1>5 DEF Due
<1>7. Has(c)' = Has(c)
  BY <1>2 DEF Has
<1>8. n \in since'[c]..Len(log')
  BY <1>0, <1>1, <1>2, <1>3
<1>9. c \in clients' => n = IF c \in run'.todo THEN Len(log') - 1 ELSE Len(log')
  BY <1>0, <1>1, <1>2, <1>3
<1> QED BY <1>1, <1>6, <1>7, <1>8, <1>9 DEF Fed

(***************************************************************************)
(* Run delivers the event to c, evicts it, or passes it over.              *)
(***************************************************************************)
LEMMA FedDeliver ==
  ASSUME IInv, NEW c \in Clients, Fed(c), Deliver(c) \/ NotSubscribed(c)
  PROVE  Fed(c)'
<1> DEFINE n == Len(log)
<1>0. /\ log \in Seq(Event) /\ since[c] \in Nat /\ c \in run.todo /\ c \in clients
      /\ run.event = log[n] /\ n > 0 /\ n \in Nat /\ run \in RunState
      /\ got[c] \in Seq(Event) /\ send[c] \in Seq(Event) /\ run.event \in Event
  BY DEF IInv, TypeOK, RunInv, Deliver, NotSubscribed, RunState
<1>1. n - 1 \in since[c]..n /\ Range(Has(c)) = { log[i] : i \in Due(c, n - 1) }
  BY <1>0 DEF Fed
<1>2. UNCHANGED <<log, got, since>>
  BY DEF Deliver, NotSubscribed, pumps
<1>3. Due(c, n)' = Due(c, n)
  BY <1>2 DEF Due, isSubscribed
<1>4. CASE Deliver(c) /\ Len(send[c]) < SendBuffer
  <2>1. /\ send' = [send EXCEPT ![c] = Append(@, run.event)] /\ c \notin run'.todo
        /\ isSubscribed(c, log[n].type)
    BY <1>0, <1>4 DEF Deliver, RunState
  <2>2. Has(c)' = Append(Has(c), run.event) /\ Has(c) \in Seq(Event)
    <3>1. Has(c)' = got[c] \o Append(send[c], run.event)
      BY <1>2, <2>1 DEF Has, IInv, TypeOK
    <3> DEFINE g == got[c]
               s == send[c]
               e == run.event
    <3>2. g \in Seq(Event) /\ s \in Seq(Event) /\ e \in Event
      BY <1>0
    <3> HIDE DEF g, s, e
    <3>3. <<e>> \in Seq(Event) /\ g \o s \in Seq(Event)
      BY <3>2
    <3>4. Append(s, e) = s \o <<e>> /\ Append(g \o s, e) = (g \o s) \o <<e>>
      BY <3>2, <3>3, AppendIsConcat
    <3>5. g \o Append(s, e) = Append(g \o s, e)
      BY <3>2, <3>3, <3>4, ConcatAssociative
    <3> QED BY <3>1, <3>3, <3>5 DEF Has, g, s, e
  <2>3. run.event.seq = n /\ \A i \in Due(c, n - 1) : log[i].seq < n
    BY <1>0 DEF IInv, Numbered, Due
  <2>4. \A i \in DOMAIN Has(c) : Has(c)[i].seq < run.event.seq
    <3> SUFFICES ASSUME NEW i \in DOMAIN Has(c) PROVE Has(c)[i].seq < run.event.seq
      OBVIOUS
    <3>1. Has(c)[i] \in Range(Has(c))
      BY DEF Range
    <3> QED BY <1>1, <2>3, <3>1
  <2>5. /\ \A i, j \in DOMAIN Has(c)' : i < j => Has(c)'[i].seq < Has(c)'[j].seq
        /\ Range(Has(c)') = Range(Has(c)) \cup {run.event}
    <3>1. \A i, j \in DOMAIN Has(c) : i < j => Has(c)[i].seq < Has(c)[j].seq
      BY DEF Fed
    <3> QED BY <1>0, <2>2, <2>4, <3>1, AppendOrdered
  <2>6. Due(c, n) = Due(c, n - 1) \cup {n}
    BY <1>0, <1>1, <2>1 DEF Due
  <2>7. Range(Has(c)') = { log'[i] : i \in Due(c, n)' }
    BY <1>0, <1>1, <1>2, <1>3, <2>5, <2>6
  <2>8. n \in since'[c]..Len(log') /\ n = Len(log')
    BY <1>0, <1>1, <1>2
  <2> QED BY <2>1, <2>5, <2>7, <2>8 DEF Fed
<1>5. CASE Deliver(c) /\ ~ (Len(send[c]) < SendBuffer)
  <2>1. send' = send /\ clients' = clients \ {c}
    BY <1>5 DEF Deliver, Evict
  <2>2. Has(c)' = Has(c) /\ c \notin clients'
    BY <1>2, <2>1 DEF Has
  <2> QED BY <1>2, <2>2, FedKept
<1>6. CASE NotSubscribed(c)
  <2>1. send' = send /\ c \notin run'.todo /\ ~ isSubscribed(c, log[n].type)
    BY <1>0, <1>6 DEF NotSubscribed, RunState
  <2>2. Has(c)' = Has(c)
    BY <1>2, <2>1 DEF Has
  <2>3. Due(c, n) = Due(c, n - 1)
    BY <1>0, <1>1, <2>1 DEF Due
  <2>4. Range(Has(c)') = { log'[i] : i \in Due(c, n)' }
    BY <1>1, <1>2, <1>3, <2>2, <2>3
  <2>5. n \in since'[c]..Len(log') /\ n = Len(log')
    BY <1>0, <1>1, <1>2
  <2> QED BY <2>1, <2>2, <2>4, <2>5 DEF Fed
<1> QED BY <1>4, <1>5, <1>6

(***************************************************************************)
(* A client that registers has nothing, and nothing is due to it.          *)
(***************************************************************************)
LEMMA FedRegister ==
  ASSUME IInv, NEW c \in Clients, Register(c)
  PROVE  Fed(c)'
<1> PICK n \in Nat : n = Len(log)
  BY DEF IInv, TypeOK
<1>0. /\ log \in Seq(Event) /\ since'[c] = n /\ log' = log /\ run' = run
      /\ run.todo = {} /\ got'[c] = << >> /\ send'[c] = << >>
  BY DEF IInv, TypeOK, RunInv, Registered, Register
<1>1. Has(c)' = << >>
  BY <1>0 DEF Has
<1>2. Due(c, n)' = {}
  BY <1>0 DEF Due
<1>3. Range(Has(c)') = {} /\ DOMAIN Has(c)' = {}
  BY <1>1 DEF Range
<1>4. n \in since'[c]..Len(log') /\ Range(Has(c)') = { log'[i] : i \in Due(c, n)' }
  BY <1>0, <1>2, <1>3
<1>5. c \in clients' => n = IF c \in run'.todo THEN Len(log') - 1 ELSE Len(log')
  BY <1>0
<1> QED BY <1>3, <1>4, <1>5 DEF Fed

(***************************************************************************)
(* Every step keeps a client fed as long as its writer runs.               *)
(***************************************************************************)
LEMMA FedStep ==
  ASSUME IInv, [Next]_vars, NEW c \in Clients, writer'[c] = "writing"
  PROVE  Fed(c)'
<1>0. TypeOK /\ RunInv /\ (writer[c] = "writing" => Fed(c))
  BY DEF IInv
<1> USE DEF hub, pumps
<1>1. CASE TakeEvent
  <2>1. writer[c] = "writing"
    BY <1>1 DEF TakeEvent
  <2> QED BY <1>0, <1>1, <2>1, FedTakeEvent
<1>2. CASE Delivered
  <2>1. writer[c] = "writing" /\ UNCHANGED <<clients, send, got, since, log>> /\ run'.todo = run.todo
    BY <1>0, <1>2 DEF Delivered, TypeOK, RunState
  <2>2. Has(c)' = Has(c)
    BY <2>1 DEF Has
  <2> QED BY <1>0, <2>1, <2>2, FedKept
<1>3. ASSUME NEW d \in Clients, Deliver(d) \/ NotSubscribed(d) PROVE Fed(c)'
  <2>1. writer[c] = "writing" /\ UNCHANGED <<got, since, log>>
    BY <1>3 DEF Deliver, NotSubscribed
  <2>2. CASE c = d
    BY <1>0, <1>3, <2>1, <2>2, FedDeliver
  <2>3. CASE c # d
    <3>1. /\ send'[c] = send[c] /\ clients' \subseteq clients
          /\ run' = [run EXCEPT !.todo = @ \ {d}]
      BY <1>0, <1>3, <2>3 DEF Deliver, NotSubscribed, Evict, TypeOK
    <3>2. c \in run'.todo <=> c \in run.todo
      BY <1>0, <2>3, <3>1 DEF TypeOK, RunState
    <3> QED BY <1>0, <2>1, <3>1, <3>2, FedKept DEF Has
  <2> QED BY <2>2, <2>3
<1>4. ASSUME NEW d \in Clients, Register(d) PROVE Fed(c)'
  <2>1. CASE c = d
    BY <1>4, <2>1, FedRegister
  <2>2. CASE c # d
    <3>1. writer[c] = "writing" /\ UNCHANGED <<got, send, log, run>>
          /\ since'[c] = since[c] /\ clients' = clients \cup {d}
      BY <1>0, <1>4, <2>2 DEF Register, TypeOK
    <3> QED BY <1>0, <2>2, <3>1, FedKept DEF Has
  <2> QED BY <2>1, <2>2
<1>5. ASSUME NEW d \in Clients, Unregister(d) PROVE Fed(c)'
  <2>1. /\ writer[c] = "writing" /\ UNCHANGED <<got, send, since, log, run>>
        /\ clients' \subseteq clients
    BY <1>5 DEF Unregister, Forget
  <2> QED BY <1>0, <2>1, FedKept DEF Has
<1>6. ASSUME NEW d \in Clients, Aside(d) PROVE Fed(c)'
  <2>1. writer[c] = "writing" /\ UNCHANGED <<got, send, since, log, run, clients>>
    BY <1>0, <1>6 DEF Aside, Connect, PeerLeaves, ReadFails, WriterEnds, TypeOK
  <2> QED BY <1>0, <2>1, FedKept DEF Has
<1>7. ASSUME NEW d \in Clients, Write(d) PROVE Fed(c)'
  <2>1. /\ UNCHANGED <<since, log, run, clients>> /\ send[d] # << >>
        /\ send' = [send EXCEPT ![d] = Tail(@)]
        /\ \/ writer' = writer /\ got' = [got EXCEPT ![d] = Append(@, Head(send[d]))]
           \/ writer' = [writer EXCEPT ![d] = "gone"] /\ got' = got
    BY <1>7 DEF Write
  <2>2. CASE c = d
    <3>1. /\ writer' = writer /\ got'[c] = Append(got[c], Head(send[c])) /\ send'[c] = Tail(send[c])
          /\ got[c] \in Seq(Event) /\ send[c] \in Seq(Event)
      BY <1>0, <2>1, <2>2 DEF TypeOK
    <3>2. Has(c)' = Has(c)
      BY <2>1, <2>2, <3>1, Passed DEF Has
    <3> QED BY <1>0, <2>1, <3>1, <3>2, FedKept
  <2>3. CASE c # d
    <3>1. writer[c] = "writing" /\ got'[c] = got[c] /\ send'[c] = send[c]
      BY <1>0, <2>1, <2>3 DEF TypeOK
    <3> QED BY <1>0, <2>1, <3>1, FedKept DEF Has
  <2> QED BY <2>2, <2>3
<1>8. CASE UNCHANGED <<writer, got, send, since, log, run, clients>>
  BY <1>0, <1>8, FedKept DEF Has
<1> QED BY <1>1, <1>2, <1>3, <1>4, <1>5, <1>6, <1>7, <1>8, Cases
        DEF HandleChat, AgentEvent, Publish, vars

(***************************************************************************)
(* In the beginning nobody is registered and nothing is published.         *)
(***************************************************************************)
LEMMA InitInv == Init => IInv
<1> SUFFICES ASSUME Init PROVE IInv
  OBVIOUS
<1>1. << >> \in Seq(Event) /\ Len(<< >>) = 0
  OBVIOUS
<1>2. TypeOK
  <2>1. [pc |-> "select", event |-> [type |-> "", seq |-> 0], todo |-> {}] \in RunState
    BY DEF RunState, Event, Types
  <2>2. [pc |-> "idle", event |-> ""] \in ChatState
    BY DEF ChatState, Types
  <2> QED BY <1>1, <2>1, <2>2 DEF Init, TypeOK
<1>3. Numbered /\ RunInv /\ ~panic
  <2>1. Numbered
    <3>1. log = << >> /\ broadcast = << >>
      BY DEF Init
    <3>2. 1..Len(log) = {} /\ 1..Len(broadcast) = {}
      BY <1>1, <3>1
    <3> QED BY <3>2 DEF Numbered
  <2>2. run.pc = "select" /\ run.todo = {} /\ ~panic
    BY DEF Init
  <2> QED BY <2>1, <2>2 DEF RunInv
<1>4. \A c \in Clients : Registered(c) /\ writer[c] # "writing"
  BY DEF Init, Registered
<1> QED BY <1>2, <1>3, <1>4 DEF IInv

-----------------------------------------------------------------------------
(* The theorems.                                                           *)

(***************************************************************************)
(* The invariant: a registered client has an open channel and everything   *)
(* that was due to it, but for the event under delivery.                   *)
(***************************************************************************)
THEOREM HubSound == Spec => []IInv
<1>1. IInv /\ [Next]_vars => IInv'
  BY TypesStep, NumberedStep, RunStep, RegisteredStep, FedStep DEF IInv
<1> QED BY InitInv, <1>1, PTL DEF Spec

(***************************************************************************)
(* The hub neither closes a channel twice nor sends on a closed one,       *)
(* whoever leaves or is evicted when (hub.go Run).                         *)
(***************************************************************************)
THEOREM HubNeverPanics == Spec => []NeverPanics
<1>1. IInv => NeverPanics
  BY DEF IInv, NeverPanics
<1> QED BY HubSound, <1>1, PTL

(***************************************************************************)
(* What a client has received and has in its channel are the events of its *)
(* topics since it registered, in their order and without a gap, up to now *)
(* or to the one it was too slow for (hub.go Run, client.go writePump).    *)
(***************************************************************************)
THEOREM EventsWithoutGaps == Spec => []NoGaps
<1>1. IInv => NoGaps
  <2> SUFFICES ASSUME IInv PROVE NoGaps
    OBVIOUS
  <2>1. \A i \in DOMAIN log : log[i].seq = i
    BY DEF IInv, TypeOK, Numbered
  <2> SUFFICES ASSUME NEW c \in Clients, writer[c] = "writing", c \notin run.todo
               PROVE  /\ \A i, j \in DOMAIN Has(c) : i < j => Has(c)[i].seq < Has(c)[j].seq
                      /\ \E n \in since[c]..Len(log) :
                           /\ c \in clients => n = Len(log)
                           /\ Range(Has(c)) = { log[i] : i \in Due(c, n) }
    BY <2>1 DEF NoGaps, Has, Due
  <2> QED BY DEF IInv, Fed
<1> QED BY HubSound, <1>1, PTL

-----------------------------------------------------------------------------
(* Evaluation: what its verdicts count and what its snapshots hold *)

\* The suites of an agent or a server, and what is named.
SuitesOf(target) == IF target \in DOMAIN AgentSuites THEN AgentSuites[target] ELSE ServerSuites[target]
AllSuites == UNION { ToSet(SuitesOf(target)) : target \in Targets }
AllScenarios == UNION { ToSet(s.scenarios) : s \in AllSuites }
Texts == Targets \cup { s.name : s \in AllSuites } \cup { s.name : s \in AllScenarios }

\* The commands, the rows of eval_runs and the results in them.
Statuses == {"passed", "failed", "error"}
Result == Texts \X Statuses
EvalRow ==
  [target : Texts, agent : BOOLEAN, suite : Texts, status : {"running", "error", "passed", "failed"},
   total : Nat, passed : Nat, failed : Nat, skipped : Nat, results : Seq(Result), whole : BOOLEAN]
Command ==
  [target : Targets \cup {""}, agent : BOOLEAN, runs : Nat, baselines : BOOLEAN, snapshots : BOOLEAN, at : Nat,
   pc : {"none", "suite", "scenario", "turn", "baselines", "snapshots", "updated", "report"},
   failed : BOOLEAN, exit : {"none", "ok", "failed", "killed"}, rows : SUBSET Nat]

\* The types of what the verdicts depend on.
EvalTypes ==
  /\ runs \in Seq(EvalRow)
  /\ cmd \in Command
  /\ DOMAIN live = DOMAIN NoRun /\ live.row \in Nat /\ live.sc \in Nat /\ live.results \in Seq(Result)

\* A command has a target and goes through its suites.
InCommand ==
  /\ cmd.pc # "none" =>
       /\ cmd.target \in IF cmd.agent THEN DOMAIN AgentSuites ELSE DOMAIN ServerSuites
       /\ cmd.exit = "none" /\ (cmd.agent => ~cmd.snapshots)
  /\ cmd.exit = "ok" => cmd.pc = "none" /\ ~cmd.failed
  /\ cmd.pc \notin {"none", "suite"} => cmd.at \in DOMAIN suites
  /\ cmd.rows \subseteq DOMAIN runs

\* While a suite runs its row has the results so far, unless one was not
\* stored; a server's has one for each scenario that is over.
InSuite ==
  /\ cmd.pc \in {"scenario", "turn"} =>
       /\ live.row \in cmd.rows /\ runs[live.row].status = "running"
       /\ (runs[live.row].whole => runs[live.row].results = live.results)
       /\ (~cmd.agent => runs[live.row].total = Len(suite.scenarios))
  /\ cmd.pc = "turn" => cmd.agent /\ live.sc \in DOMAIN suite.scenarios
  /\ cmd.pc \notin {"none", "suite"} /\ ~cmd.agent =>
       /\ live.sc \in 1..Len(suite.scenarios) + 1 /\ Len(live.results) = live.sc - 1
       /\ (cmd.pc # "scenario" => live.sc = Len(suite.scenarios) + 1)

\* What the server returned for each scenario that is over.
DataKept ==
  cmd.pc \notin {"none", "suite"} /\ ~cmd.agent =>
    /\ \A i \in DOMAIN suite.scenarios : i < live.sc => suite.scenarios[i].name \in DOMAIN live.data
    /\ \A n \in DOMAIN live.data : live.data[n] = Null \/ \E data \in ServerData : live.data[n] = Whole(data)

\* The rows that are over have the counters of their results.
RowCounted(row) ==
  row.status \in {"passed", "failed"} /\ row.whole =>
    /\ row.total = Len(row.results)
    /\ row.passed = CountIn(row.results, "passed")
    /\ row.failed + row.skipped = CountIn(row.results, "failed") + CountIn(row.results, "error")
    /\ row.status = "passed" <=> CountIn(row.results, "passed") = Len(row.results)
\* All of them are.
RowsCounted == \A i \in DOMAIN runs : RowCounted(runs[i])

\* A command that has not failed has rows that passed, but the one it is at.
OwnRows ==
  cmd.pc # "none" \/ cmd.exit = "ok" =>
    \A i \in cmd.rows : \/ i = live.row /\ cmd.pc \in {"scenario", "turn"}
                        \/ cmd.failed
                        \/ (runs[i].whole => runs[i].status = "passed")

\* The inductive invariant.
EvalInv == EvalTypes /\ InCommand /\ InSuite /\ DataKept /\ RowsCounted /\ OwnRows

-----------------------------------------------------------------------------

(***************************************************************************)
(* What a suite that runs is, by the assumption about the files.           *)
(***************************************************************************)
LEMMA SuiteTyped ==
  ASSUME EvalAssumption, EvalTypes, InCommand, cmd.pc # "none", cmd.at \in DOMAIN suites
  PROVE  /\ suite.name \in Texts /\ Len(suite.scenarios) \in Nat
         /\ DOMAIN suite.scenarios = 1..Len(suite.scenarios)
         /\ \A i \in DOMAIN suite.scenarios : suite.scenarios[i].name \in Texts /\ IsList(suite.scenarios[i].asserts)
<1>1. cmd.target \in Targets /\ suites = SuitesOf(cmd.target)
  BY DEF InCommand, EvalAssumption, Targets, suites, SuitesOf
<1>2. suite \in ToSet(suites) /\ suite \in AllSuites
  BY <1>1 DEF suite, AllSuites, ToSet
<1>3. IsList(suite.scenarios) /\ \A i \in DOMAIN suite.scenarios : IsList(suite.scenarios[i].asserts)
  BY DEF InCommand, EvalAssumption, suites, suite
<1>4. \A i \in DOMAIN suite.scenarios : suite.scenarios[i] \in AllScenarios
  BY <1>2 DEF AllScenarios, ToSet
<1>5. suite.name \in Texts /\ \A i \in DOMAIN suite.scenarios : suite.scenarios[i].name \in Texts
  BY <1>2, <1>4 DEF Texts
<1>6. Len(suite.scenarios) \in Nat /\ DOMAIN suite.scenarios = 1..Len(suite.scenarios)
  BY <1>3 DEF IsList
<1> QED BY <1>3, <1>5, <1>6

(***************************************************************************)
(* A command that stays at its suite has the same suite.                   *)
(***************************************************************************)
LEMMA SameSuite ==
  ASSUME cmd'.at = cmd.at, cmd'.target = cmd.target, cmd'.agent = cmd.agent
  PROVE  suites' = suites /\ suite' = suite
BY DEF suites, suite

(***************************************************************************)
(* Every result passed, failed or is an error: the three counts add up to  *)
(* the number of results.                                                  *)
(***************************************************************************)
LEMMA CountAll ==
  ASSUME NEW results \in Seq(Result)
  PROVE  /\ \A status : CountIn(results, status) \in Nat
         /\ CountIn(results, "passed") + CountIn(results, "failed") + CountIn(results, "error") = Len(results)
<1> DEFINE In(status) == {j \in DOMAIN results : results[j][2] = status}
<1>1. Len(results) \in Nat /\ DOMAIN results = 1..Len(results) /\ IsFiniteSet(DOMAIN results) /\ Cardinality(DOMAIN results) = Len(results)
  <2>1. Len(results) \in Nat /\ DOMAIN results = 1..Len(results)
    OBVIOUS
  <2>2. Len(results) \in Int /\ 1 \in Int /\ (1 > Len(results) => Len(results) = 0) /\ Len(results) - 1 + 1 = Len(results)
    BY <2>1
  <2>3. IsFiniteSet(1..Len(results)) /\ Cardinality(1..Len(results)) = Len(results)
    BY <2>2, FS_Interval
  <2> QED BY <2>1, <2>3
<1>2. \A status : In(status) \subseteq DOMAIN results /\ IsFiniteSet(In(status)) /\ Cardinality(In(status)) \in Nat
  BY <1>1, FS_Subset, FS_CardinalityType
<1>3. \A j \in DOMAIN results : results[j][2] \in Statuses
  BY DEF Result
<1>4. DOMAIN results = (In("passed") \cup In("failed")) \cup In("error")
  BY <1>3 DEF Statuses
<1>5. In("passed") \cap In("failed") = {} /\ (In("passed") \cup In("failed")) \cap In("error") = {}
  OBVIOUS
<1> HIDE DEF In
<1>6. /\ IsFiniteSet(In("passed") \cup In("failed"))
      /\ Cardinality(In("passed") \cup In("failed")) = Cardinality(In("passed")) + Cardinality(In("failed"))
  <2>1. Cardinality(In("passed") \cap In("failed")) = 0
    BY <1>5, FS_EmptySet
  <2>2. Cardinality(In("passed") \cup In("failed")) =
          Cardinality(In("passed")) + Cardinality(In("failed")) - Cardinality(In("passed") \cap In("failed"))
    BY <1>2, FS_Union
  <2> QED BY <1>2, <2>1, <2>2, FS_Union
<1>7. Cardinality(DOMAIN results) = Cardinality(In("passed") \cup In("failed")) + Cardinality(In("error"))
  <2>1. Cardinality((In("passed") \cup In("failed")) \cap In("error")) = 0
    BY <1>5, FS_EmptySet
  <2>2. Cardinality((In("passed") \cup In("failed")) \cup In("error")) =
          Cardinality(In("passed") \cup In("failed")) + Cardinality(In("error"))
             - Cardinality((In("passed") \cup In("failed")) \cap In("error"))
    BY <1>2, <1>6, FS_Union
  <2> QED BY <1>2, <1>4, <1>6, <2>1, <2>2
<1>8. \A status : CountIn(results, status) = Cardinality(In(status))
  BY DEF CountIn, In
<1> QED BY <1>1, <1>2, <1>6, <1>7, <1>8

(***************************************************************************)
(* No command has run yet.                                                 *)
(***************************************************************************)
LEMMA EvalInitInv == EvalInit => EvalInv
<1> SUFFICES ASSUME EvalInit PROVE EvalInv
  OBVIOUS
<1>1. runs = << >> /\ cmd = NoCommand /\ live = NoRun
  BY DEF EvalInit
<1>2. EvalTypes
  <2>1. NoCommand \in Command
    BY DEF NoCommand, Command
  <2>2. NoRun.row \in Nat /\ NoRun.sc \in Nat /\ NoRun.results = << >>
    BY DEF NoRun
  <2>3. << >> \in Seq(EvalRow) /\ << >> \in Seq(Result)
    OBVIOUS
  <2> QED BY <1>1, <2>1, <2>2, <2>3 DEF EvalTypes
<1>3. cmd.pc = "none" /\ cmd.exit = "none" /\ cmd.rows = {}
  BY <1>1 DEF NoCommand
<1> QED BY <1>1, <1>2, <1>3 DEF EvalInv, InCommand, InSuite, DataKept, RowsCounted, OwnRows

(***************************************************************************)
(* A new command has no rows of its own and has not failed.                *)
(***************************************************************************)
LEMMA InvokeStep ==
  ASSUME EvalAssumption, EvalInv, NEW target \in Targets, AgentEval(target) \/ ServerEval(target) \/ ReportLast(target)
  PROVE  EvalInv'
<1>1. UNCHANGED <<runs, live>> /\ EvalTypes
  BY DEF AgentEval, ServerEval, ReportLast, EvalInv
<1>2. /\ cmd' \in Command /\ cmd'.pc \in {"none", "suite"} /\ cmd'.rows = {} /\ ~cmd'.failed
      /\ cmd'.pc = "suite" => /\ cmd'.exit = "none" /\ (cmd'.agent => ~cmd'.snapshots)
                              /\ cmd'.target \in IF cmd'.agent THEN DOMAIN AgentSuites ELSE DOMAIN ServerSuites
  <2>1. CASE AgentEval(target)
    <3>1. target \in DOMAIN AgentSuites /\ Overrides \subseteq Nat
      BY <2>1 DEF AgentEval, EvalAssumption
    <3>2. PICK rs \in Overrides :
            \/ cmd' = [NoCommand EXCEPT !.target = target, !.agent = TRUE, !.runs = rs, !.pc = "suite"]
            \/ cmd' = [NoCommand EXCEPT !.target = target, !.exit = "failed"]
      BY <2>1 DEF AgentEval
    <3>3. rs \in Nat
      BY <3>1, <3>2
    <3>4. CASE cmd' = [NoCommand EXCEPT !.target = target, !.agent = TRUE, !.runs = rs, !.pc = "suite"]
      BY <3>1, <3>3, <3>4 DEF NoCommand, Command
    <3>5. CASE cmd' = [NoCommand EXCEPT !.target = target, !.exit = "failed"]
      BY <3>5 DEF NoCommand, Command
    <3> QED BY <3>2, <3>4, <3>5
  <2>2. CASE ServerEval(target)
    <3>1. target \in DOMAIN ServerSuites
      BY <2>2 DEF ServerEval
    <3>2. PICK b \in BOOLEAN, g \in BOOLEAN :
            cmd' = [NoCommand EXCEPT !.target = target, !.baselines = b, !.snapshots = g, !.pc = "suite"]
      BY <2>2 DEF ServerEval
    <3> QED BY <3>1, <3>2 DEF NoCommand, Command
  <2>3. CASE ReportLast(target)
    <3>1. PICK exit \in {"ok", "failed"} : cmd' = [NoCommand EXCEPT !.target = target, !.exit = exit]
      BY <2>3 DEF ReportLast
    <3> QED BY <3>1 DEF NoCommand, Command
  <2> QED BY <2>1, <2>2, <2>3
<1>3. EvalTypes'
  BY <1>1, <1>2 DEF EvalTypes
<1>4. InCommand'
  BY <1>1, <1>2 DEF InCommand
<1>5. InSuite' /\ DataKept' /\ OwnRows'
  BY <1>2 DEF InSuite, DataKept, OwnRows
<1>6. RowsCounted'
  BY <1>1 DEF EvalInv, RowsCounted
<1> QED BY <1>3, <1>4, <1>5, <1>6 DEF EvalInv

(***************************************************************************)
(* A suite starts with a new row, which is running, or fails to, which     *)
(* fails the command, or the last one is over.                             *)
(***************************************************************************)
LEMMA StartSuiteStep == ASSUME EvalAssumption, EvalInv, StartSuite PROVE EvalInv'
<1>1. PICK stored \in BOOLEAN, started \in BOOLEAN :
        IF ~stored
        THEN NextSuite(TRUE) /\ started /\ UNCHANGED <<runs, live>>
        ELSE /\ (cmd.agent => started)
             /\ live' = [NoRun EXCEPT !.row = Len(runs) + 1]
             /\ IF started
                THEN CreateRun("running") /\ cmd' = [cmd EXCEPT !.pc = "scenario", !.rows = @ \cup {Len(runs) + 1}]
                ELSE /\ \E s \in {"error", "running"} : CreateRun(s)
                     /\ NextSuite(TRUE)
  BY DEF StartSuite
<1>2. /\ cmd.pc = "suite" /\ cmd.at \in DOMAIN suites /\ EvalTypes /\ InCommand /\ RowsCounted /\ OwnRows /\ cmd \in Command
      /\ runs \in Seq(EvalRow) /\ Len(runs) \in Nat /\ DOMAIN runs = 1..Len(runs) /\ cmd.rows \subseteq DOMAIN runs
  BY DEF StartSuite, EvalInv, EvalTypes, InCommand
<1>3. /\ suite.name \in Texts /\ Len(suite.scenarios) \in Nat
      /\ DOMAIN suite.scenarios = 1..Len(suite.scenarios) /\ cmd.target \in Texts
  <2>1. cmd.target \in Texts
    BY <1>2 DEF InCommand, Texts, Targets
  <2> QED BY <1>2, <2>1, SuiteTyped
<1>4. /\ << >> \in Seq(Result)
      /\ [NoRun EXCEPT !.row = Len(runs) + 1].row = Len(runs) + 1
      /\ [NoRun EXCEPT !.row = Len(runs) + 1].sc = 1
      /\ [NoRun EXCEPT !.row = Len(runs) + 1].results = << >>
      /\ [NoRun EXCEPT !.row = Len(runs) + 1].data = << >>
      /\ DOMAIN [NoRun EXCEPT !.row = Len(runs) + 1] = DOMAIN NoRun
  BY <1>2 DEF NoRun
<1>5. ASSUME NextSuite(TRUE), \A i \in DOMAIN runs : i \in DOMAIN runs' /\ runs'[i] = runs[i],
             runs' \in Seq(EvalRow), RowsCounted', DOMAIN live' = DOMAIN NoRun /\ live'.row \in Nat /\ live'.sc \in Nat /\ live'.results \in Seq(Result)
      PROVE  EvalInv'
  <2>1. cmd' = [cmd EXCEPT !.at = cmd.at + 1, !.pc = "suite", !.failed = TRUE]
    BY <1>2, <1>5 DEF NextSuite, Command
  <2>2. /\ cmd' \in Command /\ cmd'.pc = "suite" /\ cmd'.failed /\ cmd'.rows = cmd.rows /\ cmd'.exit = cmd.exit
        /\ cmd'.target = cmd.target /\ cmd'.agent = cmd.agent /\ cmd'.snapshots = cmd.snapshots
    <3>a. cmd \in Command
      BY <1>2
    <3>b. cmd.at \in Nat
      BY <3>a DEF Command
    <3>0. cmd \in Command /\ cmd.at + 1 \in Nat
      BY <3>a, <3>b
    <3>1. cmd' \in Command
      BY <2>1, <3>0 DEF Command
    <3>2. cmd'.pc = "suite" /\ cmd'.failed /\ cmd'.rows = cmd.rows /\ cmd'.exit = cmd.exit
      BY <1>2, <2>1 DEF Command
    <3>3. cmd'.target = cmd.target /\ cmd'.agent = cmd.agent /\ cmd'.snapshots = cmd.snapshots
      BY <1>2, <2>1 DEF Command
    <3> QED BY <3>1, <3>2, <3>3
  <2>3. InCommand'
    BY <1>2, <1>5, <2>2 DEF InCommand
  <2>4. InSuite' /\ DataKept' /\ OwnRows'
    BY <2>2 DEF InSuite, DataKept, OwnRows
  <2> QED BY <1>5, <2>2, <2>3, <2>4 DEF EvalInv, EvalTypes
<1>6. ASSUME NEW status \in {"running", "error"}, CreateRun(status)
      PROVE  /\ runs' \in Seq(EvalRow) /\ Len(runs') = Len(runs) + 1 /\ DOMAIN runs' = 1..Len(runs) + 1
             /\ \A i \in DOMAIN runs : i \in DOMAIN runs' /\ runs'[i] = runs[i]
             /\ runs'[Len(runs) + 1].status = status /\ runs'[Len(runs) + 1].results = << >>
             /\ (~cmd.agent => runs'[Len(runs) + 1].total = Len(suite.scenarios))
             /\ RowsCounted'
  <2> DEFINE row == NewRow(status)
  <2>1. row \in EvalRow /\ row.status = status /\ row.results = << >> /\ (~cmd.agent => row.total = Len(suite.scenarios))
    <3>1. cmd.agent \in BOOLEAN
      BY <1>2 DEF Command
    <3>2. << >> \in Seq(Result)
      OBVIOUS
    <3> QED BY <1>3, <3>1, <3>2 DEF NewRow, EvalRow
  <2>2. runs' = Append(runs, row)
    BY <1>6 DEF CreateRun
  <2> HIDE DEF row
  <2>3. /\ runs' \in Seq(EvalRow) /\ Len(runs') = Len(runs) + 1 /\ DOMAIN runs' = 1..Len(runs) + 1
        /\ \A i \in DOMAIN runs : i \in DOMAIN runs' /\ runs'[i] = runs[i]
        /\ runs'[Len(runs) + 1] = row
    BY <1>2, <2>1, <2>2
  <2>4. RowCounted(row)
    BY <2>1 DEF RowCounted
  <2>5. \A i \in DOMAIN runs' : RowCounted(runs'[i])
    <3> SUFFICES ASSUME NEW i \in DOMAIN runs' PROVE RowCounted(runs'[i])
      OBVIOUS
    <3>1. i \in DOMAIN runs \/ i = Len(runs) + 1
      BY <1>2, <2>3
    <3> QED BY <1>2, <2>3, <2>4, <3>1 DEF RowsCounted
  <2> QED BY <2>1, <2>3, <2>5 DEF RowsCounted
<1>7. CASE ~stored
  <2>1. runs' = runs /\ live' = live /\ RowsCounted'
    BY <1>1, <1>2, <1>7 DEF RowsCounted
  <2> QED BY <1>1, <1>2, <1>5, <1>7, <2>1 DEF EvalTypes
<1>8. CASE stored /\ ~started
  <2>1. PICK status \in {"running", "error"} : CreateRun(status)
    BY <1>1, <1>8
  <2>2. live' = [NoRun EXCEPT !.row = Len(runs) + 1] /\ NextSuite(TRUE)
    BY <1>1, <1>8
  <2>3. DOMAIN live' = DOMAIN NoRun /\ live'.row \in Nat /\ live'.sc \in Nat /\ live'.results \in Seq(Result)
    <3>1. Len(runs) + 1 \in Nat
      BY <1>2
    <3>2. /\ DOMAIN live' = DOMAIN NoRun /\ live'.row = Len(runs) + 1 /\ live'.sc = 1 /\ live'.results = << >>
      BY <1>4, <2>2
    <3> QED BY <1>4, <3>1, <3>2
  <2> QED BY <1>5, <1>6, <2>1, <2>2, <2>3
<1>9. CASE stored /\ started
  <2>1. /\ CreateRun("running") /\ cmd' = [cmd EXCEPT !.pc = "scenario", !.rows = @ \cup {Len(runs) + 1}]
        /\ live' = [NoRun EXCEPT !.row = Len(runs) + 1]
    BY <1>1, <1>9
  <2>2. /\ runs' \in Seq(EvalRow) /\ Len(runs') = Len(runs) + 1 /\ DOMAIN runs' = 1..Len(runs) + 1
        /\ \A i \in DOMAIN runs : i \in DOMAIN runs' /\ runs'[i] = runs[i]
        /\ runs'[Len(runs) + 1].status = "running" /\ runs'[Len(runs) + 1].results = << >>
        /\ (~cmd.agent => runs'[Len(runs) + 1].total = Len(suite.scenarios))
        /\ RowsCounted'
    BY <1>6, <2>1
  <2>3. /\ cmd' \in Command /\ cmd'.pc = "scenario" /\ cmd'.failed = cmd.failed /\ cmd'.rows = cmd.rows \cup {Len(runs) + 1}
        /\ cmd'.exit = cmd.exit /\ cmd'.target = cmd.target /\ cmd'.agent = cmd.agent /\ cmd'.snapshots = cmd.snapshots
        /\ cmd'.at = cmd.at
    <3>0. cmd' = [cmd EXCEPT !.pc = "scenario", !.rows = cmd.rows \cup {Len(runs) + 1}]
      BY <1>2, <2>1 DEF Command
    <3>a. cmd \in Command /\ cmd.rows \cup {Len(runs) + 1} \in SUBSET Nat
      BY <1>2
    <3>1. cmd' \in Command
      BY <3>0, <3>a DEF Command
    <3>2. cmd'.pc = "scenario" /\ cmd'.failed = cmd.failed /\ cmd'.rows = cmd.rows \cup {Len(runs) + 1} /\ cmd'.exit = cmd.exit
      BY <1>2, <3>0 DEF Command
    <3>3. cmd'.target = cmd.target /\ cmd'.agent = cmd.agent /\ cmd'.snapshots = cmd.snapshots /\ cmd'.at = cmd.at
      BY <1>2, <3>0 DEF Command
    <3> QED BY <3>1, <3>2, <3>3
  <2>4. live'.row = Len(runs) + 1 /\ live'.sc = 1 /\ live'.results = << >> /\ live'.data = << >> /\ DOMAIN live' = DOMAIN NoRun
    BY <1>4, <2>1
  <2>5. suite' = suite /\ suites' = suites
    BY <2>3, SameSuite
  <2>6. EvalTypes'
    BY <1>2, <2>2, <2>3, <2>4 DEF EvalTypes
  <2>7. InCommand'
    BY <1>2, <2>2, <2>3, <2>5 DEF InCommand
  <2>8. InSuite'
    BY <1>3, <2>2, <2>3, <2>4, <2>5 DEF InSuite
  <2>9. DataKept'
    BY <1>3, <2>3, <2>4, <2>5 DEF DataKept
  <2>10. OwnRows'
    <3>1. \A i \in cmd.rows : cmd.failed \/ (runs[i].whole => runs[i].status = "passed")
      BY <1>2 DEF OwnRows
    <3> QED BY <1>2, <2>2, <2>3, <2>4, <3>1 DEF OwnRows
  <2> QED BY <2>2, <2>6, <2>7, <2>8, <2>9, <2>10 DEF EvalInv
<1> QED BY <1>7, <1>8, <1>9

(***************************************************************************)
(* A result goes to the row and to the results of the suite; only when it  *)
(* is not stored does the row stay behind.                                 *)
(***************************************************************************)
LEMMA StoreStep ==
  ASSUME EvalAssumption, EvalInv, NEW status \in Statuses, NEW stored \in BOOLEAN, NEW next, Store(status, stored, next),
         cmd.pc \in {"scenario", "turn"}, live.sc \in DOMAIN suite.scenarios,
         DOMAIN next = DOMAIN NoRun, next.row = live.row, next.results = live.results, next.sc \in Nat,
         ~cmd.agent =>
           /\ cmd.pc = "scenario" /\ next.sc = live.sc + 1
           /\ \A i \in DOMAIN suite.scenarios : i < next.sc => suite.scenarios[i].name \in DOMAIN next.data
           /\ \A n \in DOMAIN next.data : next.data[n] = Null \/ \E data \in ServerData : next.data[n] = Whole(data)
  PROVE  EvalInv'
<1>1. /\ EvalTypes /\ InCommand /\ InSuite /\ RowsCounted /\ OwnRows /\ cmd \in Command
      /\ runs \in Seq(EvalRow) /\ DOMAIN runs = 1..Len(runs) /\ cmd.rows \subseteq DOMAIN runs
      /\ live.row \in cmd.rows /\ live.row \in DOMAIN runs /\ live.row \in Nat /\ live.results \in Seq(Result)
  BY DEF EvalInv, EvalTypes, InCommand, InSuite
<1> DEFINE result == <<scenario.name, status>>
<1>2. /\ Len(suite.scenarios) \in Nat /\ DOMAIN suite.scenarios = 1..Len(suite.scenarios)
      /\ result \in Result /\ live.sc \in 1..Len(suite.scenarios)
  <2>1. cmd.pc # "none" /\ cmd.at \in DOMAIN suites
    BY <1>1 DEF InCommand
  <2>2. /\ Len(suite.scenarios) \in Nat /\ DOMAIN suite.scenarios = 1..Len(suite.scenarios)
        /\ \A i \in DOMAIN suite.scenarios : suite.scenarios[i].name \in Texts
    BY <1>1, <2>1, SuiteTyped
  <2> QED BY <2>2 DEF scenario, Result
<1>3. /\ cmd' = [cmd EXCEPT !.pc = "scenario"]
      /\ runs' = [runs EXCEPT ![live.row] =
                    IF stored THEN [runs[live.row] EXCEPT !.results = Append(runs[live.row].results, result)]
                    ELSE [runs[live.row] EXCEPT !.whole = FALSE]]
      /\ live' = [next EXCEPT !.results = Append(@, result), !.turn = 1, !.iter = 0,
                              !.calls = << >>, !.output = NoRun.output, !.tokens = 0]
  BY DEF Store, CreateResult
<1> HIDE DEF result
<1>4. cmd' \in Command /\ cmd'.pc = "scenario"
  BY <1>1, <1>3 DEF Command
<1>5. /\ cmd'.failed = cmd.failed /\ cmd'.rows = cmd.rows /\ cmd'.exit = cmd.exit /\ cmd'.target = cmd.target
      /\ cmd'.agent = cmd.agent /\ cmd'.snapshots = cmd.snapshots /\ cmd'.at = cmd.at
  BY <1>1, <1>3 DEF Command
<1>6. /\ DOMAIN live' = DOMAIN NoRun /\ live'.row = live.row /\ live'.sc = next.sc /\ live'.data = next.data
      /\ live'.results = Append(live.results, result)
  BY <1>3 DEF NoRun
<1>7. live'.results \in Seq(Result) /\ Len(live'.results) = Len(live.results) + 1
  BY <1>1, <1>2, <1>6
<1> DEFINE old == runs[live.row]
           new == runs'[live.row]
<1>8. old \in EvalRow
  BY <1>1
<1>9. /\ new \in EvalRow /\ new.status = old.status /\ new.total = old.total
      /\ new.whole => old.whole /\ new.results = Append(old.results, result)
  <2>1. CASE stored
    <3>1. new = [old EXCEPT !.results = Append(old.results, result)]
      BY <1>1, <1>3, <2>1
    <3>2. old.results \in Seq(Result)
      BY <1>8 DEF EvalRow
    <3>3. Append(old.results, result) \in Seq(Result)
      BY <1>2, <3>2
    <3> HIDE DEF old, new
    <3> QED BY <1>8, <3>1, <3>3 DEF EvalRow
  <2>2. CASE ~stored
    <3>1. new = [old EXCEPT !.whole = FALSE]
      BY <1>1, <1>3, <2>2
    <3> HIDE DEF old, new
    <3> QED BY <1>8, <3>1 DEF EvalRow
  <2> QED BY <2>1, <2>2
<1>10. /\ DOMAIN runs' = DOMAIN runs /\ runs' \in Seq(EvalRow)
       /\ \A i \in DOMAIN runs : i # live.row => runs'[i] = runs[i]
  <2>1. runs' = [runs EXCEPT ![live.row] = new]
    BY <1>1, <1>3
  <2> HIDE DEF new
  <2> QED BY <1>1, <1>9, <2>1
<1>11. old.status = "running" /\ (old.whole => old.results = live.results) /\ (~cmd.agent => old.total = Len(suite.scenarios))
  BY <1>1 DEF InSuite
<1> HIDE DEF old, new
<1>12. new.status = "running" /\ (new.whole => new.results = live'.results) /\ (~cmd.agent => new.total = Len(suite.scenarios))
  BY <1>6, <1>9, <1>11
<1>13. suite' = suite /\ suites' = suites
  BY <1>5, SameSuite
<1>14. EvalTypes'
  BY <1>1, <1>4, <1>6, <1>7, <1>10 DEF EvalTypes
<1>15. InCommand'
  BY <1>1, <1>4, <1>5, <1>10, <1>13 DEF InCommand
<1>16. InSuite'
  <2>1. live'.row \in cmd'.rows /\ runs'[live'.row] = new
    BY <1>1, <1>5, <1>6 DEF new
  <2>2. ~cmd.agent => live'.sc \in 1..Len(suite.scenarios) + 1 /\ Len(live'.results) = live'.sc - 1
    <3> SUFFICES ASSUME ~cmd.agent PROVE live'.sc \in 1..Len(suite.scenarios) + 1 /\ Len(live'.results) = live'.sc - 1
      OBVIOUS
    <3>1. cmd.pc = "scenario" /\ live'.sc = live.sc + 1
      BY <1>6
    <3>2. Len(live.results) = live.sc - 1
      BY <1>1, <3>1 DEF InSuite
    <3> QED BY <1>2, <1>7, <3>1, <3>2
  <2> QED BY <1>4, <1>5, <1>12, <1>13, <2>1, <2>2 DEF InSuite
<1>17. DataKept'
  BY <1>4, <1>5, <1>6, <1>13 DEF DataKept
<1>18. RowsCounted'
  <2>1. runs'[live.row] = new
    BY DEF new
  <2> QED BY <1>1, <1>10, <1>12, <2>1 DEF RowsCounted, RowCounted
<1>19. OwnRows'
  BY <1>1, <1>4, <1>5, <1>6, <1>10 DEF OwnRows
<1> QED BY <1>14, <1>15, <1>16, <1>17, <1>18, <1>19 DEF EvalInv

(***************************************************************************)
(* The turns of an agent's scenario leave the row alone until its result is*)
(* stored.                                                                 *)
(***************************************************************************)
LEMMA AgentScenarioStep ==
  ASSUME EvalAssumption, EvalInv, StartRun \/ ModelCall \/ ModelFails \/ EndRun
  PROVE  EvalInv'
<1>1. EvalTypes /\ InCommand /\ InSuite /\ DataKept /\ RowsCounted /\ OwnRows /\ cmd \in Command /\ DOMAIN live = DOMAIN NoRun
      /\ live.sc \in Nat
  BY DEF EvalInv, EvalTypes
<1>2. ASSUME UNCHANGED runs, cmd' = [cmd EXCEPT !.pc = "turn"], cmd.pc \in {"scenario", "turn"}, cmd.agent, live.sc \in DOMAIN suite.scenarios,
             DOMAIN live' = DOMAIN live, live'.row = live.row, live'.sc = live.sc, live'.results = live.results
      PROVE  EvalInv'
  <2>1. cmd' \in Command /\ cmd'.pc = "turn"
    BY <1>1, <1>2 DEF Command
  <2>2. /\ cmd'.failed = cmd.failed /\ cmd'.rows = cmd.rows /\ cmd'.exit = cmd.exit /\ cmd'.target = cmd.target
        /\ cmd'.agent = cmd.agent /\ cmd'.snapshots = cmd.snapshots /\ cmd'.at = cmd.at
    BY <1>1, <1>2 DEF Command
  <2>3. suite' = suite /\ suites' = suites
    BY <2>2, SameSuite
  <2>4. EvalTypes'
    BY <1>1, <1>2, <2>1 DEF EvalTypes
  <2>5. InCommand'
    BY <1>1, <1>2, <2>1, <2>2, <2>3 DEF InCommand
  <2>6. InSuite'
    BY <1>1, <1>2, <2>1, <2>2, <2>3 DEF InSuite
  <2>7. DataKept'
    BY <1>2, <2>2 DEF DataKept
  <2>8. RowsCounted' /\ OwnRows'
    BY <1>1, <1>2, <2>1, <2>2 DEF RowsCounted, OwnRows
  <2> QED BY <2>4, <2>5, <2>6, <2>7, <2>8 DEF EvalInv
<1>3. CASE StartRun
  <2>1. /\ UNCHANGED runs /\ cmd' = [cmd EXCEPT !.pc = "turn"] /\ cmd.pc \in {"scenario", "turn"} /\ cmd.agent
        /\ live.sc \in DOMAIN suite.scenarios
    BY <1>3 DEF StartRun
  <2>2. PICK none : live' = [live EXCEPT !.failed = none]
    BY <1>3 DEF StartRun
  <2>3. DOMAIN live' = DOMAIN live /\ live'.row = live.row /\ live'.sc = live.sc /\ live'.results = live.results
    BY <1>1, <2>2 DEF NoRun
  <2> QED BY <1>2, <2>1, <2>3
<1>4. CASE ModelCall
  <2>1. /\ UNCHANGED <<runs, cmd>> /\ cmd.pc = "turn"
    BY <1>4 DEF ModelCall
  <2>2. cmd' = [cmd EXCEPT !.pc = "turn"] /\ cmd.agent /\ live.sc \in DOMAIN suite.scenarios
    BY <1>1, <2>1 DEF Command, InSuite
  <2>4. DOMAIN live' = DOMAIN live /\ live'.row = live.row /\ live'.sc = live.sc /\ live'.results = live.results
    BY <1>1, <1>4 DEF ModelCall, NoRun
  <2> QED BY <1>2, <2>1, <2>2, <2>4
<1>5. CASE ModelFails \/ EndRun
  <2>1. cmd.pc = "turn"
    BY <1>5 DEF ModelFails, EndRun
  <2>2. PICK status \in Statuses, stored \in BOOLEAN : Store(status, stored, NextRepetition)
    BY <1>5 DEF ModelFails, EndRun, Statuses
  <2>3. cmd.agent /\ live.sc \in DOMAIN suite.scenarios
    BY <1>1, <2>1 DEF InSuite
  <2>4. /\ DOMAIN NextRepetition = DOMAIN NoRun /\ NextRepetition.row = live.row
        /\ NextRepetition.results = live.results /\ NextRepetition.sc \in Nat
    BY <1>1 DEF NextRepetition, NoRun
  <2> QED BY <2>1, <2>2, <2>3, <2>4, StoreStep
<1> QED BY <1>3, <1>4, <1>5

(***************************************************************************)
(* A server's scenario leaves a result and what the server returned.       *)
(***************************************************************************)
LEMMA ServerScenarioStep == ASSUME EvalAssumption, EvalInv, RunFails \/ RunScenario PROVE EvalInv'
<1>1. /\ EvalTypes /\ InSuite /\ DataKept /\ DOMAIN live = DOMAIN NoRun /\ live.sc \in Nat
      /\ cmd.pc = "scenario" /\ ~cmd.agent /\ live.sc \in DOMAIN suite.scenarios
  BY DEF EvalInv, EvalTypes, RunFails, RunScenario
<1>2. PICK status \in Statuses, stored \in BOOLEAN, value \in {Null} \cup {Whole(data) : data \in ServerData} :
        Store(status, stored, Returned(value))
  BY DEF RunFails, RunScenario, Statuses
<1> DEFINE next == Returned(value)
<1>3. DOMAIN next = DOMAIN NoRun /\ next.row = live.row /\ next.results = live.results /\ next.sc = live.sc + 1
      /\ next.data = Over([name \in {scenario.name} |-> value], live.data)
  BY <1>1 DEF NoRun, Returned
<1> HIDE DEF next
<1>4. /\ DOMAIN next.data = {scenario.name} \cup DOMAIN live.data
      /\ \A n \in DOMAIN next.data : next.data[n] = IF n = scenario.name THEN value ELSE live.data[n]
  BY <1>3 DEF Over
<1>5. \A i \in DOMAIN suite.scenarios : i < next.sc => suite.scenarios[i].name \in DOMAIN next.data
  <2> SUFFICES ASSUME NEW i \in DOMAIN suite.scenarios, i < live.sc + 1 PROVE suite.scenarios[i].name \in DOMAIN next.data
    BY <1>3
  <2>1. i \in Nat
    BY <1>1, SuiteTyped DEF EvalInv, InCommand
  <2>2. i = live.sc \/ i < live.sc
    BY <1>1, <2>1
  <2> QED BY <1>1, <1>4, <2>2 DEF scenario, DataKept
<1>6. \A n \in DOMAIN next.data : next.data[n] = Null \/ \E data \in ServerData : next.data[n] = Whole(data)
  BY <1>1, <1>2, <1>4 DEF DataKept
<1>7. Store(status, stored, next)
  BY <1>2 DEF next
<1> QED BY <1>1, <1>2, <1>3, <1>5, <1>6, <1>7, StoreStep

(***************************************************************************)
(* The row that a suite leaves has the counters of its results, and the    *)
(* command has failed unless all passed.                                   *)
(***************************************************************************)
LEMMA FinalizeStep == ASSUME EvalAssumption, EvalInv, Finalize PROVE EvalInv'
<1>1. /\ EvalTypes /\ InCommand /\ InSuite /\ DataKept /\ RowsCounted /\ OwnRows /\ cmd \in Command
      /\ cmd.pc = "scenario" /\ live.sc \notin DOMAIN suite.scenarios
      /\ runs \in Seq(EvalRow) /\ DOMAIN runs = 1..Len(runs) /\ cmd.rows \subseteq DOMAIN runs
      /\ live.row \in cmd.rows /\ live.row \in DOMAIN runs /\ live.results \in Seq(Result)
  BY DEF EvalInv, EvalTypes, InCommand, InSuite, Finalize
<1> DEFINE old == runs[live.row]
           failed == Count("failed") + (IF cmd.agent THEN Count("error") ELSE 0)
           skipped == IF cmd.agent THEN 0 ELSE Count("error")
           total == IF cmd.agent THEN Len(live.results) ELSE old.total
<1>2. PICK stored \in BOOLEAN :
        runs' = [runs EXCEPT ![live.row] =
          IF stored THEN [old EXCEPT !.status = Verdict, !.passed = Count("passed"), !.failed = failed,
                                     !.skipped = skipped, !.total = total]
          ELSE [old EXCEPT !.whole = FALSE]]
  BY DEF Finalize
<1>3. /\ cmd' = [cmd EXCEPT !.pc = "baselines", !.failed = cmd.failed \/ Verdict # "passed"]
      /\ live' = [live EXCEPT !.regressions = IF cmd.agent THEN {} ELSE DetectRegressions]
  BY DEF Finalize
<1>4. /\ Count("passed") \in Nat /\ Count("failed") \in Nat /\ Count("error") \in Nat /\ Len(live.results) \in Nat
      /\ Count("passed") + Count("failed") + Count("error") = Len(live.results)
  BY <1>1, CountAll DEF Count
<1>5. Verdict \in {"passed", "failed"} /\ (Verdict = "passed" <=> Count("passed") = Len(live.results))
  BY <1>4 DEF Verdict
<1>6. old \in EvalRow /\ old.total \in Nat /\ old.status = "running"
      /\ (old.whole => old.results = live.results) /\ (~cmd.agent => old.total = Len(suite.scenarios))
  <2>1. old \in EvalRow
    BY <1>1
  <2> QED BY <1>1, <2>1 DEF EvalRow, InSuite
<1>7. failed \in Nat /\ skipped \in Nat /\ total \in Nat /\ failed + skipped = Count("failed") + Count("error")
  BY <1>4, <1>6
<1>8. /\ Len(suite.scenarios) \in Nat /\ DOMAIN suite.scenarios = 1..Len(suite.scenarios)
  BY <1>1, SuiteTyped DEF InCommand
<1>9. ~cmd.agent => live.sc = Len(suite.scenarios) + 1 /\ Len(live.results) = Len(suite.scenarios)
  <2> SUFFICES ASSUME ~cmd.agent PROVE live.sc = Len(suite.scenarios) + 1 /\ Len(live.results) = Len(suite.scenarios)
    OBVIOUS
  <2>1. live.sc \in 1..Len(suite.scenarios) + 1 /\ Len(live.results) = live.sc - 1
    BY <1>1 DEF InSuite
  <2>2. live.sc = Len(suite.scenarios) + 1
    BY <1>1, <1>8, <2>1
  <2> QED BY <1>8, <2>1, <2>2
<1>10. total = Len(live.results) \/ ~ (cmd.agent \in BOOLEAN)
  BY <1>6, <1>9
<1>11. cmd.agent \in BOOLEAN
  BY <1>1 DEF Command
<1> DEFINE new == runs'[live.row]
<1>12. runs' = [runs EXCEPT ![live.row] = new]
  BY <1>1, <1>2
<1>13. /\ new \in EvalRow
       /\ new.whole => /\ new.status = Verdict /\ new.passed = Count("passed") /\ new.failed = failed
                       /\ new.skipped = skipped /\ new.total = total /\ new.results = live.results
  <2>1. CASE stored
    <3>1. new = [old EXCEPT !.status = Verdict, !.passed = Count("passed"), !.failed = failed,
                            !.skipped = skipped, !.total = total]
      BY <1>1, <1>2, <2>1
    <3> HIDE DEF old, new, failed, skipped, total
    <3> QED BY <1>4, <1>5, <1>6, <1>7, <3>1 DEF EvalRow
  <2>2. CASE ~stored
    <3>1. new = [old EXCEPT !.whole = FALSE]
      BY <1>1, <1>2, <2>2
    <3> HIDE DEF old, new
    <3> QED BY <1>6, <3>1 DEF EvalRow
  <2> QED BY <2>1, <2>2
<1> HIDE DEF old, new, failed, skipped, total
<1>14. /\ DOMAIN runs' = DOMAIN runs /\ runs' \in Seq(EvalRow)
       /\ runs'[live.row] = new /\ \A i \in DOMAIN runs : i # live.row => runs'[i] = runs[i]
  BY <1>1, <1>12, <1>13
<1>15. cmd' \in Command
  <2>1. (cmd.failed \/ Verdict # "passed") \in BOOLEAN
    OBVIOUS
  <2> QED BY <1>1, <1>3, <2>1 DEF Command
<1>16. /\ cmd'.pc = "baselines" /\ (cmd'.failed <=> cmd.failed \/ Verdict # "passed") /\ cmd'.rows = cmd.rows /\ cmd'.exit = cmd.exit
  BY <1>1, <1>3 DEF Command
<1>17. cmd'.target = cmd.target /\ cmd'.agent = cmd.agent /\ cmd'.snapshots = cmd.snapshots /\ cmd'.at = cmd.at
  BY <1>1, <1>3 DEF Command
<1>18. suite' = suite /\ suites' = suites
  BY <1>17, SameSuite
<1>19. /\ DOMAIN live' = DOMAIN NoRun /\ live'.row = live.row /\ live'.sc = live.sc /\ live'.data = live.data
       /\ live'.results = live.results
  BY <1>1, <1>3 DEF NoRun, EvalTypes
<1>20. EvalTypes'
  BY <1>1, <1>14, <1>15, <1>19 DEF EvalTypes
<1>21. InCommand'
  BY <1>1, <1>14, <1>16, <1>17, <1>18 DEF InCommand
<1>22. InSuite'
  <2>1. ~cmd.agent => live.sc \in 1..Len(suite.scenarios) + 1 /\ Len(live.results) = live.sc - 1
    BY <1>1 DEF InSuite
  <2> QED BY <1>9, <1>16, <1>17, <1>18, <1>19, <2>1 DEF InSuite
<1>23. DataKept'
  BY <1>1, <1>16, <1>17, <1>18, <1>19 DEF DataKept
<1>24. RowsCounted'
  <2>1. RowCounted(new)
    <3> SUFFICES ASSUME new.whole
                 PROVE  /\ new.total = Len(new.results)
                        /\ new.passed = CountIn(new.results, "passed")
                        /\ new.failed + new.skipped = CountIn(new.results, "failed") + CountIn(new.results, "error")
                        /\ new.status = "passed" <=> CountIn(new.results, "passed") = Len(new.results)
      BY DEF RowCounted
    <3> QED BY <1>5, <1>7, <1>10, <1>11, <1>13 DEF Count
  <2> QED BY <1>1, <1>14, <2>1 DEF RowsCounted
<1>25. OwnRows'
  <2> SUFFICES ASSUME NEW i \in cmd.rows, ~cmd.failed, Verdict = "passed", runs'[i].whole PROVE runs'[i].status = "passed"
    BY <1>16 DEF OwnRows
  <2>1. CASE i = live.row
    BY <1>13, <1>14, <2>1
  <2>2. CASE i # live.row
    BY <1>1, <1>14, <2>2 DEF OwnRows
  <2> QED BY <2>1, <2>2
<1> QED BY <1>20, <1>21, <1>22, <1>23, <1>24, <1>25 DEF EvalInv

(***************************************************************************)
(* After the verdict the rows stay as they are.                            *)
(***************************************************************************)
LEMMA EndStep ==
  ASSUME EvalAssumption, EvalInv, UpdateBaselines \/ UpdateSnapshots \/ Report \/ Exit \/ Killed
  PROVE  EvalInv'
<1>1. EvalTypes /\ InCommand /\ InSuite /\ DataKept /\ RowsCounted /\ OwnRows /\ cmd \in Command /\ UNCHANGED runs
  BY DEF EvalInv, EvalTypes, UpdateBaselines, UpdateSnapshots, Report, Exit, Killed
<1>2. RowsCounted'
  BY <1>1 DEF RowsCounted
<1>3. NoRun.row \in Nat /\ NoRun.sc \in Nat /\ NoRun.results \in Seq(Result)
  <2>1. NoRun.results = << >> /\ << >> \in Seq(Result)
    BY DEF NoRun
  <2> QED BY <2>1 DEF NoRun
<1>4. CASE UpdateBaselines \/ UpdateSnapshots
  <2>1. PICK pc \in {"snapshots", "updated", "report"} : cmd' = [cmd EXCEPT !.pc = pc]
    BY <1>4 DEF UpdateBaselines, UpdateSnapshots
  <2>2. UNCHANGED live /\ cmd.pc \in {"baselines", "snapshots"}
    BY <1>4 DEF UpdateBaselines, UpdateSnapshots
  <2>3. cmd' \in Command /\ cmd'.pc \in {"snapshots", "updated", "report"}
    BY <1>1, <2>1 DEF Command
  <2>4. /\ cmd'.failed = cmd.failed /\ cmd'.rows = cmd.rows /\ cmd'.exit = cmd.exit /\ cmd'.target = cmd.target
        /\ cmd'.agent = cmd.agent /\ cmd'.snapshots = cmd.snapshots /\ cmd'.at = cmd.at
    BY <1>1, <2>1 DEF Command
  <2>5. suite' = suite /\ suites' = suites
    BY <2>4, SameSuite
  <2>6. EvalTypes' /\ InCommand'
    BY <1>1, <2>2, <2>3, <2>4, <2>5 DEF EvalTypes, InCommand
  <2>7. InSuite'
    BY <1>1, <2>2, <2>3, <2>4, <2>5 DEF InSuite
  <2>8. DataKept'
    BY <1>1, <2>2, <2>3, <2>4, <2>5 DEF DataKept
  <2>9. OwnRows'
    BY <1>1, <2>2, <2>3, <2>4 DEF OwnRows
  <2> QED BY <1>2, <2>6, <2>7, <2>8, <2>9 DEF EvalInv
<1>5. CASE Report
  <2>a. cmd.at \in Nat /\ cmd.failed \in BOOLEAN
    BY <1>1 DEF Command
  <2>0. cmd.at + 1 \in Nat /\ cmd.failed \in BOOLEAN
    BY <2>a
  <2>1. cmd' = [cmd EXCEPT !.at = cmd.at + 1, !.pc = "suite", !.failed = cmd.failed] /\ cmd.pc \in {"updated", "report"} /\ UNCHANGED live
    BY <1>1, <1>5, <2>0 DEF Report, NextSuite
  <2>2. cmd' \in Command /\ cmd'.pc = "suite"
    <3>1. cmd \in Command
      BY <1>1
    <3>2. PICK failed \in BOOLEAN : cmd' = [cmd EXCEPT !.at = cmd.at + 1, !.pc = "suite", !.failed = failed]
      BY <2>0, <2>1
    <3> QED BY <2>0, <3>1, <3>2 DEF Command
  <2>3. /\ cmd'.failed = cmd.failed /\ cmd'.rows = cmd.rows /\ cmd'.exit = cmd.exit
    BY <1>1, <2>1 DEF Command
  <2>4. cmd'.target = cmd.target /\ cmd'.agent = cmd.agent /\ cmd'.snapshots = cmd.snapshots
    BY <1>1, <2>1 DEF Command
  <2>5. EvalTypes' /\ InCommand'
    BY <1>1, <2>1, <2>2, <2>3, <2>4 DEF EvalTypes, InCommand
  <2>6. InSuite' /\ DataKept'
    BY <2>2 DEF InSuite, DataKept
  <2>7. OwnRows'
    BY <1>1, <2>1, <2>2, <2>3 DEF OwnRows
  <2> QED BY <1>2, <2>5, <2>6, <2>7 DEF EvalInv
<1>6. CASE Exit \/ Killed
  <2>1. PICK exit \in {"ok", "failed", "killed"} :
          cmd' = [cmd EXCEPT !.pc = "none", !.exit = exit] /\ (exit = "ok" => ~cmd.failed /\ cmd.pc = "suite")
    BY <1>1, <1>6 DEF Exit, Killed, Command
  <2>2. live' = NoRun
    BY <1>6 DEF Exit, Killed
  <2>3. cmd' \in Command /\ cmd'.pc = "none" /\ cmd'.exit = exit /\ cmd'.rows = cmd.rows /\ cmd'.failed = cmd.failed
    BY <1>1, <2>1 DEF Command
  <2>4. EvalTypes'
    BY <1>1, <1>3, <2>2, <2>3 DEF EvalTypes
  <2>5. InCommand'
    BY <1>1, <2>1, <2>3 DEF InCommand
  <2>6. InSuite' /\ DataKept'
    BY <2>3 DEF InSuite, DataKept
  <2>7. OwnRows'
    BY <1>1, <2>1, <2>3 DEF OwnRows
  <2> QED BY <1>2, <2>4, <2>5, <2>6, <2>7 DEF EvalInv
<1> QED BY <1>4, <1>5, <1>6

(***************************************************************************)
(* The invariant is inductive.                                             *)
(***************************************************************************)
LEMMA EvalStep == EvalAssumption /\ EvalInv /\ [EvalNext]_evalVars => EvalInv'
<1> SUFFICES ASSUME EvalAssumption, EvalInv, [EvalNext]_evalVars PROVE EvalInv'
  OBVIOUS
<1>1. CASE UNCHANGED evalVars
  <2>1. UNCHANGED <<runs, cmd, live>>
    BY <1>1 DEF evalVars
  <2>2. suite' = suite /\ suites' = suites
    BY <2>1, SameSuite
  <2> QED BY <2>1, <2>2 DEF EvalInv, EvalTypes, InCommand, InSuite, DataKept, RowsCounted, OwnRows
<1> QED BY <1>1, InvokeStep, StartSuiteStep, AgentScenarioStep, ServerScenarioStep, FinalizeStep, EndStep DEF EvalNext

(***************************************************************************)
(* It says that the verdicts are those of the stored results.              *)
(***************************************************************************)
LEMMA VerdictsAreStored == EvalInv => VerdictsStored
<1> SUFFICES ASSUME EvalInv PROVE VerdictsStored
  OBVIOUS
<1>1. InCommand /\ RowsCounted /\ OwnRows
  BY DEF EvalInv
<1>2. cmd.exit = "ok" => \A i \in cmd.rows : runs[i].whole => runs[i].status = "passed"
  BY <1>1 DEF InCommand, OwnRows
<1> QED BY <1>1, <1>2 DEF VerdictsStored, RowsCounted, RowCounted

(***************************************************************************)
(* For all suites, targets and answers: a row of eval_runs that is over and*)
(* was stored whole has the counters and the verdict of its own results,   *)
(* and a command that exits with 0 left only rows that passed.             *)
(***************************************************************************)
THEOREM VerdictsCount == EvalSpec => []VerdictsStored
<1>1. EvalSpec => []EvalInv
  BY EvalAssumption, EvalInitInv, EvalStep, PTL DEF EvalSpec
<1> QED BY <1>1, VerdictsAreStored, PTL

-----------------------------------------------------------------------------

(***************************************************************************)
(* The places of golden_file assertions are pairs of numbers within the    *)
(* suite.                                                                  *)
(***************************************************************************)
LEMMA GoldenTyped ==
  ASSUME EvalAssumption, EvalTypes, InCommand, cmd.pc # "none", cmd.at \in DOMAIN suites
  PROVE  /\ Len(suite.scenarios) \in Nat
         /\ \A p \in GoldenFiles :
              /\ p = <<p[1], p[2]>> /\ p[1] \in Nat /\ p[2] \in Nat
              /\ p[1] \in 0..Len(suite.scenarios) /\ p[1] \in DOMAIN suite.scenarios
              /\ p[2] \in 0..Len(suite.scenarios[p[1]].asserts) /\ Len(suite.scenarios[p[1]].asserts) \in Nat
<1>1. /\ Len(suite.scenarios) \in Nat /\ DOMAIN suite.scenarios = 1..Len(suite.scenarios)
      /\ \A i \in DOMAIN suite.scenarios : IsList(suite.scenarios[i].asserts)
  BY SuiteTyped
<1>2. ASSUME NEW p \in GoldenFiles
      PROVE  /\ p = <<p[1], p[2]>> /\ p[1] \in DOMAIN suite.scenarios /\ p[2] \in DOMAIN suite.scenarios[p[1]].asserts
  <2>1. PICK i \in DOMAIN suite.scenarios :
          p \in {<<i, j>> : j \in {k \in DOMAIN suite.scenarios[i].asserts : suite.scenarios[i].asserts[k].type = "golden_file"}}
    BY <1>2 DEF GoldenFiles
  <2>2. PICK j \in DOMAIN suite.scenarios[i].asserts : p = <<i, j>>
    BY <2>1
  <2> QED BY <2>2
<1>3. ASSUME NEW p \in GoldenFiles
      PROVE  /\ p[1] \in Nat /\ p[2] \in Nat /\ p[1] \in 0..Len(suite.scenarios)
             /\ p[2] \in 0..Len(suite.scenarios[p[1]].asserts) /\ Len(suite.scenarios[p[1]].asserts) \in Nat
  <2>1. p[1] \in DOMAIN suite.scenarios /\ p[2] \in DOMAIN suite.scenarios[p[1]].asserts
    BY <1>2, <1>3
  <2>2. IsList(suite.scenarios[p[1]].asserts)
    BY <1>1, <2>1
  <2> DEFINE asserts == suite.scenarios[p[1]].asserts
  <2>3. Len(asserts) \in Nat /\ DOMAIN asserts = 1..Len(asserts)
    BY <2>2 DEF IsList
  <2>4. p[2] \in DOMAIN asserts
    BY <2>1
  <2> HIDE DEF asserts
  <2>5. p[2] \in Nat /\ p[2] \in 0..Len(asserts)
    BY <2>3, <2>4
  <2>6. p[1] \in Nat /\ p[1] \in 0..Len(suite.scenarios)
    BY <1>1, <2>1
  <2> QED BY <2>3, <2>5, <2>6 DEF asserts
<1> QED BY <1>1, <1>2, <1>3

(***************************************************************************)
(* The last place of a golden file is one that writes it.                  *)
(***************************************************************************)
LEMMA LastIsOne ==
  ASSUME EvalAssumption, EvalTypes, InCommand, cmd.pc # "none", cmd.at \in DOMAIN suites,
         NEW p \in GoldenFiles
  PROVE  LastOf(FileOf(p), GoldenFiles) \in GoldenFiles /\ FileOf(LastOf(FileOf(p), GoldenFiles)) = FileOf(p)
<1> DEFINE file == FileOf(p)
           S == { q \in GoldenFiles : FileOf(q) = file }
           I == { q[1] : q \in S }
<1>1. /\ Len(suite.scenarios) \in Nat
      /\ \A q \in GoldenFiles :
           /\ q = <<q[1], q[2]>> /\ q[1] \in Nat /\ q[2] \in Nat
           /\ q[1] \in 0..Len(suite.scenarios)
           /\ q[2] \in 0..Len(suite.scenarios[q[1]].asserts) /\ Len(suite.scenarios[q[1]].asserts) \in Nat
  BY GoldenTyped
<1>2. I \subseteq 0..Len(suite.scenarios) /\ I # {}
  BY <1>1
<1>3. PICK m \in I : \A k \in I : k <= m
  <2> HIDE DEF I
  <2> QED BY <1>1, <1>2, GreatestNumber
<1> DEFINE J == { q[2] : q \in { r \in S : r[1] = m } }
<1>4. J \subseteq 0..Len(suite.scenarios[m].asserts) /\ Len(suite.scenarios[m].asserts) \in Nat /\ J # {}
  <2>1. Len(suite.scenarios[m].asserts) \in Nat /\ J # {}
    BY <1>1, <1>3
  <2>2. ASSUME NEW q \in S, q[1] = m PROVE q[2] \in 0..Len(suite.scenarios[m].asserts)
    BY <1>1, <2>2
  <2> QED BY <2>1, <2>2
<1>5. PICK n \in J : \A k \in J : k <= n
  <2> HIDE DEF J
  <2> QED BY <1>4, GreatestNumber
<1>6. PICK last \in S : last[1] = m /\ last[2] = n
  BY <1>5
<1>7. ASSUME NEW q \in S PROVE q = last \/ Before(q, last)
  <2>1. q[1] \in I /\ q[1] <= m /\ (q[1] = m => q[2] \in J /\ q[2] <= n)
    BY <1>3, <1>5
  <2>2. q[1] \in Nat /\ q[2] \in Nat /\ last[1] \in Nat /\ last[2] \in Nat /\ q = <<q[1], q[2]>> /\ last = <<last[1], last[2]>>
    BY <1>1
  <2>3. CASE q[1] = m /\ q[2] = n
    BY <1>6, <2>2, <2>3
  <2>4. CASE q[1] < m \/ (q[1] = m /\ q[2] < n)
    BY <1>6, <2>4 DEF Before
  <2>5. q[1] < m \/ (q[1] = m /\ q[2] < n) \/ (q[1] = m /\ q[2] = n)
    BY <1>6, <2>1, <2>2
  <2> QED BY <2>3, <2>4, <2>5
<1>8. last \in GoldenFiles /\ FileOf(last) = file /\ \A q \in GoldenFiles : FileOf(q) = file => q = last \/ Before(q, last)
  BY <1>7
<1> HIDE DEF file
<1>9. LastOf(file, GoldenFiles) \in GoldenFiles /\ FileOf(LastOf(file, GoldenFiles)) = file
  BY <1>8 DEF LastOf
<1> QED BY <1>9 DEF file

(***************************************************************************)
(* A file whose last write is of the same scenario name holds what that    *)
(* scenario returned, which is what it is compared with.                   *)
(***************************************************************************)
LEMMA SnapshotsUpdated == ASSUME EvalAssumption, EvalInv, UpdateSnapshots, cmd'.pc = "updated" PROVE SnapshotsHold'
<1>1. EvalTypes /\ InCommand /\ InSuite /\ DataKept /\ cmd \in Command /\ cmd.pc = "snapshots" /\ UNCHANGED live
  BY DEF EvalInv, EvalTypes, UpdateSnapshots
<1>2. PICK places \in IF cmd.snapshots THEN SUBSET GoldenFiles ELSE {{}} :
        /\ files' = Written(places)
        /\ cmd' = [cmd EXCEPT !.pc = IF cmd.snapshots /\ (~cmd.snapshots \/ places = GoldenFiles) THEN "updated" ELSE "report"]
  BY DEF UpdateSnapshots
<1>3. cmd.snapshots /\ places = GoldenFiles /\ cmd'.target = cmd.target /\ cmd'.agent = cmd.agent /\ cmd'.at = cmd.at
  BY <1>1, <1>2 DEF Command
<1>4. suite' = suite /\ suites' = suites
  BY <1>3, SameSuite
<1>5. ~cmd.agent /\ cmd.at \in DOMAIN suites
  BY <1>1, <1>3 DEF InCommand
<1>6. files' = Written(GoldenFiles)
  BY <1>2, <1>3
<1>7. \A p \in GoldenFiles : /\ FileOf(p) \in DOMAIN files'
                             /\ files'[FileOf(p)] = DataOf(LastOf(FileOf(p), GoldenFiles))
  BY <1>6 DEF Written, Over, Latest
<1>8. GoldenFiles' = GoldenFiles /\ \A p : FileOf(p)' = FileOf(p)
  BY <1>4 DEF GoldenFiles, FileOf
<1>9. /\ live.sc = Len(suite.scenarios) + 1 /\ Len(suite.scenarios) \in Nat /\ DOMAIN suite.scenarios = 1..Len(suite.scenarios)
      /\ \A i \in DOMAIN suite.scenarios : IsList(suite.scenarios[i].asserts)
  <2>1. /\ Len(suite.scenarios) \in Nat /\ DOMAIN suite.scenarios = 1..Len(suite.scenarios)
        /\ \A i \in DOMAIN suite.scenarios : IsList(suite.scenarios[i].asserts)
    BY <1>1, <1>5, SuiteTyped
  <2> QED BY <1>1, <1>5, <2>1 DEF InSuite
<1>10. SUFFICES ASSUME NEW i \in DOMAIN suite.scenarios, live.data[suite.scenarios[i].name] # Null,
                       NEW a \in ToSet(suite.scenarios[i].asserts), a.type = "golden_file", a.field = ".",
                       \A p \in GoldenFiles : FileOf(p) = a.expected => suite.scenarios[p[1]].name = suite.scenarios[i].name
                PROVE  RunAssertion(a, live.data[suite.scenarios[i].name].of, files')
  BY <1>1, <1>4, <1>8 DEF SnapshotsHold
<1>11. PICK j \in DOMAIN suite.scenarios[i].asserts : a = suite.scenarios[i].asserts[j]
  BY DEF ToSet
<1>12. <<i, j>> \in GoldenFiles /\ FileOf(<<i, j>>) = a.expected
  BY <1>10, <1>11 DEF GoldenFiles, FileOf
<1> DEFINE last == LastOf(a.expected, GoldenFiles)
<1>13. last \in GoldenFiles /\ FileOf(last) = a.expected
  BY <1>1, <1>5, <1>12, LastIsOne
<1>14. a.expected \in DOMAIN files' /\ files'[a.expected] = DataOf(last)
  BY <1>7, <1>12
<1> HIDE DEF last
<1>15. DataOf(last) = live.data[suite.scenarios[i].name]
  BY <1>10, <1>13 DEF DataOf
<1>16. PICK data \in ServerData : live.data[suite.scenarios[i].name] = Whole(data)
  <2>1. i < live.sc
    BY <1>9
  <2> QED BY <1>1, <1>5, <1>10, <2>1 DEF DataKept
<1>17. live.data[suite.scenarios[i].name].of = data
  BY <1>16 DEF Whole
<1>18. RunAssertion(a, data, files')
  BY <1>10, <1>14, <1>15, <1>16 DEF RunAssertion, Found, resolveField, checkGoldenFile
<1> QED BY <1>17, <1>18

(***************************************************************************)
(* No other step enters the state after the update.                        *)
(***************************************************************************)
LEMMA SnapshotsStep == EvalAssumption /\ EvalInv /\ SnapshotsHold /\ [EvalNext]_evalVars => SnapshotsHold'
<1> SUFFICES ASSUME EvalAssumption, EvalInv, SnapshotsHold, [EvalNext]_evalVars PROVE SnapshotsHold'
  OBVIOUS
<1>0. cmd \in Command
  BY DEF EvalInv, EvalTypes
<1>1. CASE UNCHANGED evalVars
  <2>1. UNCHANGED <<cmd, live, files>>
    BY <1>1 DEF evalVars
  <2>2. suite' = suite
    BY <2>1, SameSuite
  <2>3. GoldenFiles' = GoldenFiles /\ \A p : FileOf(p)' = FileOf(p)
    BY <2>2 DEF GoldenFiles, FileOf
  <2> QED BY <2>1, <2>2, <2>3 DEF SnapshotsHold
<1>2. CASE UpdateSnapshots
  BY <1>2, SnapshotsUpdated DEF SnapshotsHold
<1>3. CASE cmd'.pc # "updated"
  BY <1>3 DEF SnapshotsHold
<1>4. ASSUME NEW target, AgentEval(target) \/ ServerEval(target) \/ ReportLast(target) PROVE cmd'.pc # "updated"
  BY <1>4 DEF AgentEval, ServerEval, ReportLast, NoCommand
<1>5. StartSuite => cmd'.pc # "updated"
  BY <1>0 DEF StartSuite, NextSuite, Command
<1>6. StartRun \/ ModelCall => cmd'.pc # "updated"
  BY <1>0 DEF StartRun, ModelCall, Command
<1>7. ModelFails \/ EndRun \/ RunFails \/ RunScenario => cmd'.pc # "updated"
  <2> SUFFICES ASSUME cmd' = [cmd EXCEPT !.pc = "scenario"] PROVE cmd'.pc # "updated"
    BY DEF ModelFails, EndRun, RunFails, RunScenario, Store
  <2> QED BY <1>0 DEF Command
<1>8. Finalize \/ UpdateBaselines => cmd'.pc # "updated"
  BY <1>0 DEF Finalize, UpdateBaselines, Command
<1>9. Report \/ Exit \/ Killed => cmd'.pc # "updated"
  BY <1>0 DEF Report, NextSuite, Exit, Killed, Command
<1> QED BY <1>1, <1>2, <1>3, <1>4, <1>5, <1>6, <1>7, <1>8, <1>9 DEF EvalNext

(***************************************************************************)
(* For all suites: right after --update-snapshots has written every golden *)
(* file, each assertion against a file that only its own scenario writes   *)
(* holds of what the scenario returned.                                    *)
(***************************************************************************)
THEOREM SnapshotsKeep == EvalSpec => []SnapshotsHold
<1>1. EvalInit => SnapshotsHold
  <2> SUFFICES ASSUME EvalInit PROVE SnapshotsHold
    OBVIOUS
  <2>1. cmd.pc = "none"
    BY DEF EvalInit, NoCommand
  <2> QED BY <2>1 DEF SnapshotsHold
<1> QED BY <1>1, EvalAssumption, EvalInitInv, EvalStep, SnapshotsStep, PTL DEF EvalSpec

=============================================================================
