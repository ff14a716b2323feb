------------------------- MODULE PaletteClientProofs -------------------------
(***************************************************************************)
(* Proofs about PaletteClient, for any messages and prompts and any number *)
(* of connections: replies never block, one goroutine keeps the link, and  *)
(* the queue is flushed and nothing in it delivered twice.  And about      *)
(* ToolServers, for any configuration: tools that are offered can be       *)
(* called, nothing is left behind, and child agents' spend is reported.    *)
(***************************************************************************)
EXTENDS PaletteClient, ToolServers, SequenceTheorems, FiniteSetTheorems, Sums, TLAPS

-----------------------------------------------------------------------------
(* The inductive invariant.                                                *)

\* Connections are used in order, and only the last one can be kept.
Chain ==
  \A k \in Conns :
    /\ dialer[k] = "none" => reader[k] = "none"
    /\ dialer[k] = "none" \/ k \in Keepers => \A j \in Conns : j > k => dialer[j] = "none"
    /\ reader[k] # "none" => dialer[k] = "ended"

Sockets ==
  /\ \A k \in Conns : dialer[k] \in {"none", "backoff", "dialing"} => socket[k] = "none"
  /\ conn # NoConn => socket[conn] # "none"
  /\ closer.conn # NoConn => socket[closer.conn] # "none"
  /\ socket[MaxConns] # "broken"

Closed ==
  /\ closer.pc \in {"locked", "ended"} => ~ autoReconnect
  /\ closer.pc # "todo" => done

\* Until Close, the connection that is kept is the client's, or it was lost.
Linked ==
  /\ state = "connected" => conn # NoConn
  /\ autoReconnect =>
       \A k \in Conns :
         /\ dialer[k] \in {"hello", "flush", "flushing", "connected"} \/ reader[k] = "reading" =>
              conn = k /\ state = "connected" /\ socket[k] \in {"open", "broken"}
         /\ reader[k] = "leaving" \/ (dialer[k] = "failed" /\ socket[k] # "none") => k < MaxConns

Kept == reader[1] # "none" /\ autoReconnect /\ ~done => Keepers # {}

\* A prompt is claimed by one read loop at most, and answered once.
Claims ==
  /\ \A j, k \in Conns : answering[j] = answering[k] => j = k \/ answering[j] = << >>
  /\ \A p \in Prompts : prompt[p] = "todo" =>
       p \notin pendingPrompts /\ ch[p] = << >> /\ \A k \in Conns : answering[k] # p

\* An item is in one place: with its sender, in the queue, in the flush, or
\* received on one connection.
Distinct(items) == \A m, n \in 1..Len(items) : items[m] = items[n] => m = n
Held == ToSet(messageQueue) \cup ToSet(batch)

HeldOnce ==
  /\ Distinct(messageQueue) /\ Distinct(batch)
  /\ ToSet(messageQueue) \cap ToSet(batch) = {}
  /\ \A i \in Held : sender[i] = "ended"

ReceivedOnce ==
  \A k \in Conns : \A n \in 1..Len(received[k]) :
    received[k][n] # Hello =>
      /\ sender[received[k][n]] = "ended" /\ received[k][n] \notin Held
      /\ \A j \in Conns : \A m \in 1..Len(received[j]) :
           received[j][m] = received[k][n] => j = k /\ m = n

Writing == \A i \in Item : sender[i] = "writing" => via[i] \in Conns

Once == Writing /\ HeldOnce /\ ReceivedOnce

LinkInv == Chain /\ Sockets /\ Closed /\ Linked /\ Kept
IInv == TypeOK /\ LinkInv /\ QueueIsFlushed /\ Claims /\ ReplyNeverBlocks /\ Once

-----------------------------------------------------------------------------
(* Facts about the operators.                                              *)

(***************************************************************************)
(* The actions, one case of every proof below.                             *)
(***************************************************************************)
LEMMA Cases ==
  ASSUME [Next]_vars
  PROVE  \/ Connect \/ CloseBegins \/ CloseLocked \/ CloseSocket
         \/ \E k \in Conns : \/ BackoffOver(k) \/ BackoffStopped(k) \/ DialFails(k) \/ DialSucceeds(k)
                            \/ HelloSent(k) \/ HelloFails(k) \/ RetryOrGiveUp(k)
                            \/ TakeQueue(k) \/ FlushOne(k) \/ FlushEnds(k) \/ StartReadLoop(k)
                            \/ TearDown(k) \/ ScheduleReconnect(k) \/ Break(k)
         \/ \E k \in Conns, p \in Prompts : Interaction(k, p) \/ Reply(k, p)
         \/ \E i \in Item : SendOrQueue(i) \/ SendWrite(i)
         \/ \E p \in Prompts : \/ RegisterPrompt(p) \/ TakeReply(p) \/ Timeout(p)
                              \/ SeeClosed(p) \/ ReturnPayload(p)
         \/ UNCHANGED vars
BY DEF Next, Closing, Dialing, Sending, Prompting

(***************************************************************************)
(* After the connection that is kept comes the next one in order.          *)
(***************************************************************************)
LEMMA NextInOrder ==
  ASSUME TypeOK, Chain, NEW k \in Keepers, k < MaxConns
  PROVE  NextConn = k + 1 /\ k + 1 \in Conns /\ dialer[k + 1] = "none"
<1>1. k \in Conns /\ k + 1 \in Conns /\ k \in Nat
  BY PaletteAssumption DEF Keepers, Conns
<1>2. dialer[k] # "none"
  BY <1>1 DEF Chain, Keepers
<1>3. \A j \in Conns : dialer[j] = "none" <=> j > k
  BY <1>1, <1>2 DEF Chain, Conns
<1>4. k + 1 \in Unused /\ \A j \in Unused : j \in Conns /\ k + 1 <= j
  BY <1>1, <1>3 DEF Unused, Conns
<1>5. NextConn \in Unused /\ \A j \in Unused : NextConn <= j
  BY <1>4 DEF NextConn
<1>6. NextConn = k + 1
  BY <1>4, <1>5 DEF Conns
<1> QED BY <1>4, <1>6 DEF Unused

(***************************************************************************)
(* No two connections are kept.                                            *)
(***************************************************************************)
LEMMA OneKept ==
  ASSUME TypeOK, Chain, NEW j \in Keepers, NEW k \in Keepers
  PROVE  j = k
<1>1. j \in Conns /\ k \in Conns /\ dialer[j] # "none" /\ dialer[k] # "none"
  BY DEF Keepers, Chain
<1>2. ~ (j > k) /\ ~ (k > j)
  BY <1>1 DEF Chain
<1> QED BY <1>1, <1>2, PaletteAssumption DEF Conns

-----------------------------------------------------------------------------
(* The link.                                                               *)

(***************************************************************************)
(* Every step keeps what is known about the link.                          *)
(***************************************************************************)
LEMMA LinkStep == TypeOK /\ LinkInv /\ [Next]_vars => LinkInv'
<1> SUFFICES ASSUME TypeOK, LinkInv, [Next]_vars PROVE LinkInv'
  OBVIOUS
<1>0. MaxConns \in Nat \ {0} /\ Conns = 1..MaxConns /\ 1 \in Conns /\ MaxConns \in Conns
  BY PaletteAssumption DEF Conns
<1> USE DEF LinkInv, Chain, Sockets, Closed, Linked, Kept, Keepers, NoConn, clientVars,
            promptVars, dialVars, readVars, sendVars, netVars
<1>1. CASE Connect
  BY <1>0, <1>1 DEF Connect, TypeOK
<1>2. CASE CloseBegins
  BY <1>0, <1>2 DEF CloseBegins, TypeOK
<1>3. CASE CloseLocked
  BY <1>0, <1>3 DEF CloseLocked, TypeOK
<1>4. CASE CloseSocket
  BY <1>0, <1>4 DEF CloseSocket, TypeOK
<1>5. ASSUME NEW k \in Conns, BackoffOver(k) PROVE LinkInv'
  BY <1>0, <1>5 DEF BackoffOver, TypeOK
<1>6. ASSUME NEW k \in Conns, BackoffStopped(k) PROVE LinkInv'
  BY <1>0, <1>6 DEF BackoffStopped, TypeOK
<1>7. ASSUME NEW k \in Conns, DialFails(k) PROVE LinkInv'
  BY <1>0, <1>7 DEF DialFails, TypeOK
<1>8. ASSUME NEW k \in Conns, DialSucceeds(k) PROVE LinkInv'
  <2>1. Chain'
    BY <1>0, <1>8 DEF DialSucceeds, TypeOK
  <2>2. Sockets'
    BY <1>0, <1>8 DEF DialSucceeds, TypeOK
  <2>3. Closed'
    BY <1>0, <1>8 DEF DialSucceeds, TypeOK
  <2>4. Linked'
    <3>1. k \in Keepers /\ \A j \in Conns : j # k => j \notin Keepers
      BY <1>8, OneKept DEF DialSucceeds
    <3> QED BY <1>0, <1>8, <3>1 DEF DialSucceeds, TypeOK
  <2>5. Kept'
    BY <1>0, <1>8 DEF DialSucceeds, TypeOK
  <2> QED BY <2>1, <2>2, <2>3, <2>4, <2>5
<1>9. ASSUME NEW k \in Conns, HelloSent(k) PROVE LinkInv'
  <2>1. Chain'
    BY <1>0, <1>9 DEF HelloSent, TypeOK
  <2>2. Sockets'
    BY <1>0, <1>9 DEF HelloSent, TypeOK
  <2>3. Closed'
    BY <1>0, <1>9 DEF HelloSent, TypeOK
  <2>4. Linked'
    BY <1>0, <1>9 DEF HelloSent, TypeOK
  <2>5. Kept'
    BY <1>0, <1>9 DEF HelloSent, TypeOK
  <2> QED BY <2>1, <2>2, <2>3, <2>4, <2>5
<1>10. ASSUME NEW k \in Conns, HelloFails(k) PROVE LinkInv'
  <2>1. Chain'
    BY <1>0, <1>10 DEF HelloFails, TypeOK
  <2>2. Sockets'
    BY <1>0, <1>10 DEF HelloFails, TypeOK
  <2>3. Closed'
    BY <1>0, <1>10 DEF HelloFails, TypeOK
  <2>4. Linked'
    BY <1>0, <1>10 DEF HelloFails, TypeOK
  <2>5. Kept'
    BY <1>0, <1>10 DEF HelloFails, TypeOK
  <2> QED BY <2>1, <2>2, <2>3, <2>4, <2>5
<1>11. ASSUME NEW k \in Conns, RetryOrGiveUp(k) PROVE LinkInv'
  <2>1. CASE dialer' = [dialer EXCEPT ![k] = "ended"] /\ (k = 1 \/ ~ autoReconnect)
    <3>1. UNCHANGED <<state, conn, autoReconnect, done, reader, closer, socket>>
      BY <1>11 DEF RetryOrGiveUp
    <3>2. Chain' /\ Sockets' /\ Closed' /\ Linked'
      BY <1>0, <1>11, <2>1, <3>1 DEF RetryOrGiveUp, TypeOK
    <3>3. k = 1 => reader[1] = "none"
      BY <1>0, <1>11 DEF RetryOrGiveUp, TypeOK
    <3> QED BY <2>1, <3>1, <3>2, <3>3
  <2>2. CASE dialer' = [dialer EXCEPT ![k] = "backoff"] /\ socket[k] = "none"
    BY <1>0, <1>11, <2>2 DEF RetryOrGiveUp, TypeOK
  <2>3. CASE /\ dialer' = [dialer EXCEPT ![k] = "ended", ![NextConn] = "backoff"]
             /\ socket[k] # "none" /\ autoReconnect
    <3>1. k \in Keepers /\ k < MaxConns
      BY <1>11, <2>3 DEF RetryOrGiveUp
    <3>2. NextConn = k + 1 /\ k + 1 \in Conns /\ dialer[k + 1] = "none"
      BY <3>1, NextInOrder
    <3>3. dialer' = [dialer EXCEPT ![k] = "ended", ![k + 1] = "backoff"]
      BY <2>3, <3>2
    <3>4. UNCHANGED <<state, conn, autoReconnect, done, reader, closer, socket>>
      BY <1>11 DEF RetryOrGiveUp
    <3>5. Chain'
      BY <1>0, <1>11, <2>3, <3>1, <3>2, <3>3, <3>4 DEF RetryOrGiveUp, TypeOK
    <3>6. Sockets'
      BY <1>0, <1>11, <2>3, <3>1, <3>2, <3>3, <3>4 DEF RetryOrGiveUp, TypeOK
    <3>7. Closed'
      BY <1>0, <1>11, <2>3, <3>1, <3>2, <3>3, <3>4 DEF RetryOrGiveUp, TypeOK
    <3>8. Linked'
      BY <1>0, <1>11, <2>3, <3>1, <3>2, <3>3, <3>4 DEF RetryOrGiveUp, TypeOK
    <3>9. Kept'
      <4>1. dialer'[k + 1] = "backoff"
        BY <3>2, <3>3 DEF TypeOK
      <4> QED BY <3>2, <4>1
    <3> QED BY <3>5, <3>6, <3>7, <3>8, <3>9
  <2> QED BY <1>11, <2>1, <2>2, <2>3 DEF RetryOrGiveUp
<1>12. ASSUME NEW k \in Conns, TakeQueue(k) PROVE LinkInv'
  <2>0. /\ UNCHANGED <<state, conn, autoReconnect, done, reader, closer, socket>>
        /\ dialer[k] = "flush" /\ dialer'[k] \in {"connected", "flushing"}
        /\ \A j \in Conns : j # k => dialer'[j] = dialer[j]
    <3>1. dialer \in [Conns -> {"none", "backoff", "dialing", "hello", "flush", "flushing",
                              "connected", "failed", "ended"}]
      BY DEF TypeOK
    <3> QED BY <1>12, <3>1 DEF TakeQueue
  <2>1. Chain'
    BY <1>0, <2>0
  <2>2. Sockets'
    BY <1>0, <2>0
  <2>3. Closed'
    BY <1>0, <2>0
  <2>4. Linked'
    BY <1>0, <2>0
  <2>5. Kept'
    BY <1>0, <2>0
  <2> QED BY <2>1, <2>2, <2>3, <2>4, <2>5
<1>13. ASSUME NEW k \in Conns, FlushOne(k) PROVE LinkInv'
  <2>1. Chain'
    BY <1>0, <1>13 DEF FlushOne, TypeOK
  <2>2. Sockets'
    BY <1>0, <1>13 DEF FlushOne, TypeOK
  <2>3. Closed'
    BY <1>0, <1>13 DEF FlushOne, TypeOK
  <2>4. Linked'
    BY <1>0, <1>13 DEF FlushOne, TypeOK
  <2>5. Kept'
    BY <1>0, <1>13 DEF FlushOne, TypeOK
  <2> QED BY <2>1, <2>2, <2>3, <2>4, <2>5
<1>14. ASSUME NEW k \in Conns, FlushEnds(k) PROVE LinkInv'
  <2>1. Chain'
    BY <1>0, <1>14 DEF FlushEnds, TypeOK
  <2>2. Sockets'
    BY <1>0, <1>14 DEF FlushEnds, TypeOK
  <2>3. Closed'
    BY <1>0, <1>14 DEF FlushEnds, TypeOK
  <2>4. Linked'
    BY <1>0, <1>14 DEF FlushEnds, TypeOK
  <2>5. Kept'
    BY <1>0, <1>14 DEF FlushEnds, TypeOK
  <2> QED BY <2>1, <2>2, <2>3, <2>4, <2>5
<1>15. ASSUME NEW k \in Conns, StartReadLoop(k) PROVE LinkInv'
  <2>1. Chain'
    BY <1>0, <1>15 DEF StartReadLoop, TypeOK
  <2>2. Sockets'
    BY <1>0, <1>15 DEF StartReadLoop, TypeOK
  <2>3. Closed'
    BY <1>0, <1>15 DEF StartReadLoop, TypeOK
  <2>4. Linked'
    BY <1>0, <1>15 DEF StartReadLoop, TypeOK
  <2>5. Kept'
    <3>1. reader'[k] = "reading"
      BY <1>15 DEF StartReadLoop, TypeOK
    <3> QED BY <3>1
  <2> QED BY <2>1, <2>2, <2>3, <2>4, <2>5
<1>16. ASSUME NEW k \in Conns, TearDown(k) PROVE LinkInv'
  <2>1. Chain'
    BY <1>0, <1>16 DEF TearDown, TypeOK
  <2>2. Sockets'
    BY <1>0, <1>16 DEF TearDown, TypeOK
  <2>3. Closed'
    BY <1>0, <1>16 DEF TearDown, TypeOK
  <2>4. Linked'
    BY <1>0, <1>16 DEF TearDown, TypeOK
  <2>5. Kept'
    BY <1>0, <1>16 DEF TearDown, TypeOK
  <2> QED BY <2>1, <2>2, <2>3, <2>4, <2>5
<1>17. ASSUME NEW k \in Conns, ScheduleReconnect(k) PROVE LinkInv'
  <2>1. CASE ~ autoReconnect /\ UNCHANGED dialer
    BY <1>0, <1>17, <2>1 DEF ScheduleReconnect, TypeOK
  <2>2. CASE autoReconnect /\ dialer' = [dialer EXCEPT ![NextConn] = "backoff"]
    <3>1. k \in Keepers /\ k < MaxConns
      BY <1>17, <2>2 DEF ScheduleReconnect
    <3>2. NextConn = k + 1 /\ k + 1 \in Conns /\ dialer[k + 1] = "none"
      BY <3>1, NextInOrder
    <3>3. dialer' = [dialer EXCEPT ![k + 1] = "backoff"]
      BY <2>2, <3>2
    <3>4. Chain'
      BY <1>0, <1>17, <2>2, <3>1, <3>2, <3>3 DEF ScheduleReconnect, TypeOK
    <3>5. Sockets'
      BY <1>0, <1>17, <2>2, <3>1, <3>2, <3>3 DEF ScheduleReconnect, TypeOK
    <3>6. Closed'
      BY <1>0, <1>17, <2>2, <3>1, <3>2, <3>3 DEF ScheduleReconnect, TypeOK
    <3>7. Linked'
      BY <1>0, <1>17, <2>2, <3>1, <3>2, <3>3 DEF ScheduleReconnect, TypeOK
    <3>8. Kept'
      <4>1. dialer'[k + 1] = "backoff"
        BY <3>2, <3>3 DEF TypeOK
      <4> QED BY <3>2, <4>1
    <3> QED BY <3>4, <3>5, <3>6, <3>7, <3>8
  <2> QED BY <1>17, <2>1, <2>2 DEF ScheduleReconnect
<1>18. ASSUME NEW k \in Conns, Break(k) PROVE LinkInv'
  <2>1. Chain'
    BY <1>0, <1>18 DEF Break, TypeOK
  <2>2. Sockets'
    BY <1>0, <1>18 DEF Break, TypeOK
  <2>3. Closed'
    BY <1>0, <1>18 DEF Break, TypeOK
  <2>4. Linked'
    BY <1>0, <1>18 DEF Break, TypeOK
  <2>5. Kept'
    BY <1>0, <1>18 DEF Break, TypeOK
  <2> QED BY <2>1, <2>2, <2>3, <2>4, <2>5
<1>19. ASSUME UNCHANGED <<state, conn, autoReconnect, done, dialer, reader, closer, socket>>
       PROVE  LinkInv'
  BY <1>19
<1>20. ASSUME NEW k \in Conns, NEW p \in Prompts, Interaction(k, p) \/ Reply(k, p) PROVE LinkInv'
  BY <1>19, <1>20 DEF Interaction, Reply
<1>21. ASSUME NEW i \in Item, SendOrQueue(i) \/ SendWrite(i) PROVE LinkInv'
  BY <1>19, <1>21 DEF SendOrQueue, SendWrite
<1>22. ASSUME NEW p \in Prompts,
              \/ RegisterPrompt(p) \/ TakeReply(p) \/ Timeout(p) \/ SeeClosed(p) \/ ReturnPayload(p)
       PROVE  LinkInv'
  BY <1>19, <1>22 DEF RegisterPrompt, TakeReply, Timeout, SeeClosed, ReturnPayload
<1>23. CASE UNCHANGED vars
  BY <1>19, <1>23 DEF vars
<1> QED BY <1>1, <1>2, <1>3, <1>4, <1>5, <1>6, <1>7, <1>8, <1>9, <1>10, <1>11, <1>12, <1>13,
           <1>14, <1>15, <1>16, <1>17, <1>18, <1>20, <1>21, <1>22, <1>23, Cases

-----------------------------------------------------------------------------
(* Types.                                                                  *)

(***************************************************************************)
(* Every step keeps the types.                                             *)
(***************************************************************************)
LEMMA TypesStep == TypeOK /\ Once /\ [Next]_vars => TypeOK'
<1> SUFFICES ASSUME TypeOK, Once, [Next]_vars PROVE TypeOK'
  OBVIOUS
<1> USE DEF TypeOK, clientVars, promptVars, dialVars, readVars, sendVars, netVars
<1>0. ASSUME NEW k \in Conns, NEW i \in Item \cup {Hello}, Write(k, i)
      PROVE  received' \in [Conns -> Seq(Item \cup {Hello})]
  <2>1. Append(received[k], i) \in Seq(Item \cup {Hello})
    BY AppendProperties
  <2> QED BY <1>0, <2>1 DEF Write
<1>1. CASE Connect
  BY <1>1 DEF Connect
<1>2. CASE CloseBegins
  BY <1>2 DEF CloseBegins
<1>3. CASE CloseLocked
  <2>1. ch' \in [Prompts -> Seq({"payload", "closed"})] /\ \A p \in Prompts : Len(ch'[p]) <= 1
    <3>1. <<"closed">> \in Seq({"payload", "closed"}) /\ Len(<<"closed">>) = 1
      OBVIOUS
    <3>2. \A p \in Prompts : ch'[p] = <<"closed">> \/ ch'[p] = ch[p]
      BY <1>3 DEF CloseLocked
    <3>3. ch' = [p \in Prompts |-> ch'[p]]
      BY <1>3 DEF CloseLocked
    <3>4. \A p \in Prompts : ch'[p] \in Seq({"payload", "closed"}) /\ Len(ch'[p]) <= 1
      <4>1. \A p \in Prompts : ch[p] \in Seq({"payload", "closed"}) /\ Len(ch[p]) <= 1
        OBVIOUS
      <4> HIDE DEF TypeOK
      <4> SUFFICES ASSUME NEW p \in Prompts
                   PROVE  ch'[p] \in Seq({"payload", "closed"}) /\ Len(ch'[p]) <= 1
        OBVIOUS
      <4>2. CASE ch'[p] = <<"closed">>
        BY <3>1, <4>2
      <4>3. CASE ch'[p] = ch[p]
        BY <4>1, <4>3
      <4> QED BY <3>2, <4>2, <4>3
    <3> HIDE DEF TypeOK
    <3> QED BY <3>3, <3>4
  <2> QED BY <1>3, <2>1 DEF CloseLocked
<1>4. CASE CloseSocket
  BY <1>4 DEF CloseSocket
<1>5. ASSUME NEW k \in Conns, BackoffOver(k) PROVE TypeOK'
  BY <1>5 DEF BackoffOver
<1>6. ASSUME NEW k \in Conns, BackoffStopped(k) PROVE TypeOK'
  BY <1>6 DEF BackoffStopped
<1>7. ASSUME NEW k \in Conns, DialFails(k) PROVE TypeOK'
  BY <1>7 DEF DialFails
<1>8. ASSUME NEW k \in Conns, DialSucceeds(k) PROVE TypeOK'
  BY <1>8 DEF DialSucceeds
<1>9. ASSUME NEW k \in Conns, HelloSent(k) PROVE TypeOK'
  BY <1>0, <1>9 DEF HelloSent
<1>10. ASSUME NEW k \in Conns, HelloFails(k) PROVE TypeOK'
  BY <1>10 DEF HelloFails
<1>11. ASSUME NEW k \in Conns, RetryOrGiveUp(k) PROVE TypeOK'
  BY <1>11 DEF RetryOrGiveUp
<1>12. ASSUME NEW k \in Conns, TakeQueue(k) PROVE TypeOK'
  <2>1. messageQueue' \in Seq(Item)
    BY <1>12 DEF TakeQueue
  <2> QED BY <1>12, <2>1 DEF TakeQueue
<1>13. ASSUME NEW k \in Conns, FlushOne(k) PROVE TypeOK'
  <2>1. CASE Write(k, Head(batch)) /\ batch # << >> /\ batch' = Tail(batch) /\ UNCHANGED dialer
    <3>1. Head(batch) \in Item /\ Tail(batch) \in Seq(Item)
      BY <2>1, HeadTailProperties
    <3> QED BY <1>0, <1>13, <2>1, <3>1 DEF FlushOne
  <2>2. CASE batch' = << >> /\ UNCHANGED <<dialer, received>>
    BY <1>13, <2>2 DEF FlushOne
  <2> QED BY <1>13, <2>1, <2>2 DEF FlushOne
<1>14. ASSUME NEW k \in Conns, FlushEnds(k) PROVE TypeOK'
  BY <1>14 DEF FlushEnds
<1>15. ASSUME NEW k \in Conns, StartReadLoop(k) PROVE TypeOK'
  BY <1>15 DEF StartReadLoop
<1>16. ASSUME NEW k \in Conns, TearDown(k) PROVE TypeOK'
  BY <1>16 DEF TearDown
<1>17. ASSUME NEW k \in Conns, ScheduleReconnect(k) PROVE TypeOK'
  BY <1>17 DEF ScheduleReconnect
<1>18. ASSUME NEW k \in Conns, Break(k) PROVE TypeOK'
  BY <1>18 DEF Break
<1>19. ASSUME NEW k \in Conns, NEW p \in Prompts, Interaction(k, p) PROVE TypeOK'
  <2>1. answers' \in [Prompts -> 0..MaxAnswers]
    BY <1>19, PaletteAssumption DEF Interaction
  <2>2. answering' \in [Conns -> Prompts \cup {<< >>}] /\ pendingPrompts' \subseteq Prompts
    BY <1>19 DEF Interaction
  <2> QED BY <1>19, <2>1, <2>2 DEF Interaction
<1>20. ASSUME NEW k \in Conns, NEW p \in Prompts, Reply(k, p) PROVE TypeOK'
  <2>1. Append(ch[p], "payload") \in Seq({"payload", "closed"}) /\ Len(Append(ch[p], "payload")) = 1
    BY <1>20 DEF Reply
  <2> QED BY <1>20, <2>1 DEF Reply
<1>21. ASSUME NEW i \in Item, SendOrQueue(i) PROVE TypeOK'
  <2>1. Append(messageQueue, i) \in Seq(Item)
    BY AppendProperties
  <2> QED BY <1>21, <2>1 DEF SendOrQueue, NoConn
<1>22. ASSUME NEW i \in Item, SendWrite(i) PROVE TypeOK'
  BY <1>0, <1>22 DEF SendWrite, Once, Writing
<1>23. ASSUME NEW p \in Prompts, RegisterPrompt(p) PROVE TypeOK'
  BY <1>23 DEF RegisterPrompt
<1>24. ASSUME NEW p \in Prompts, TakeReply(p) PROVE TypeOK'
  <2>1. Tail(ch[p]) \in Seq({"payload", "closed"}) /\ Len(Tail(ch[p])) <= 1
    BY <1>24, HeadTailProperties DEF TakeReply
  <2> QED BY <1>24, <2>1 DEF TakeReply
<1>25. ASSUME NEW p \in Prompts, Timeout(p) PROVE TypeOK'
  BY <1>25 DEF Timeout
<1>26. ASSUME NEW p \in Prompts, SeeClosed(p) PROVE TypeOK'
  BY <1>26 DEF SeeClosed
<1>27. ASSUME NEW p \in Prompts, ReturnPayload(p) PROVE TypeOK'
  BY <1>27 DEF ReturnPayload
<1>28. CASE UNCHANGED vars
  BY <1>28 DEF vars
<1> QED BY <1>1, <1>2, <1>3, <1>4, <1>5, <1>6, <1>7, <1>8, <1>9, <1>10, <1>11, <1>12, <1>13,
           <1>14, <1>15, <1>16, <1>17, <1>18, <1>19, <1>20, <1>21, <1>22, <1>23, <1>24, <1>25,
           <1>26, <1>27, <1>28, Cases

-----------------------------------------------------------------------------
(* The queue is flushed.                                                   *)

(***************************************************************************)
(* A connection makes the client connected before it flushes the queue.    *)
(***************************************************************************)
LEMMA FlushStep == TypeOK /\ LinkInv /\ QueueIsFlushed /\ [Next]_vars => QueueIsFlushed'
<1> SUFFICES ASSUME TypeOK, LinkInv, QueueIsFlushed, [Next]_vars PROVE QueueIsFlushed'
  OBVIOUS
<1> USE DEF QueueIsFlushed, clientVars, promptVars, dialVars, readVars, sendVars, netVars
<1>0. state = "connected" => conn \in Conns
  BY DEF LinkInv, Linked, TypeOK
<1>1. CASE Connect
  BY <1>0, <1>1 DEF Connect, TypeOK
<1>2. CASE CloseBegins
  BY <1>0, <1>2 DEF CloseBegins, TypeOK
<1>3. CASE CloseLocked
  BY <1>0, <1>3 DEF CloseLocked, TypeOK
<1>4. CASE CloseSocket
  BY <1>0, <1>4 DEF CloseSocket, TypeOK
<1>5. ASSUME NEW k \in Conns, BackoffOver(k) PROVE QueueIsFlushed'
  BY <1>0, <1>5 DEF BackoffOver, TypeOK
<1>6. ASSUME NEW k \in Conns, BackoffStopped(k) PROVE QueueIsFlushed'
  BY <1>0, <1>6 DEF BackoffStopped, TypeOK
<1>7. ASSUME NEW k \in Conns, DialFails(k) PROVE QueueIsFlushed'
  BY <1>0, <1>7 DEF DialFails, TypeOK
<1>8. ASSUME NEW k \in Conns, DialSucceeds(k) PROVE QueueIsFlushed'
  BY <1>0, <1>8 DEF DialSucceeds, TypeOK
<1>9. ASSUME NEW k \in Conns, HelloSent(k) PROVE QueueIsFlushed'
  BY <1>0, <1>9 DEF HelloSent, TypeOK
<1>10. ASSUME NEW k \in Conns, HelloFails(k) PROVE QueueIsFlushed'
  BY <1>0, <1>10 DEF HelloFails, TypeOK
<1>11. ASSUME NEW k \in Conns, RetryOrGiveUp(k) PROVE QueueIsFlushed'
  <2>1. UNCHANGED clientVars /\ dialer[k] = "failed"
    BY <1>11 DEF RetryOrGiveUp
  <2>2. CASE autoReconnect /\ socket[k] # "none" /\ k # 1
    <3>1. k \in Keepers /\ k < MaxConns
      BY <2>1, <2>2 DEF Keepers, LinkInv, Linked
    <3>2. NextConn = k + 1 /\ dialer[k + 1] = "none"
      BY <3>1, NextInOrder DEF LinkInv
    <3>3. dialer' = [dialer EXCEPT ![k] = "ended", ![k + 1] = "backoff"]
      BY <1>11, <2>2, <3>2 DEF RetryOrGiveUp
    <3> QED BY <1>0, <2>1, <3>2, <3>3 DEF TypeOK
  <2>3. CASE ~ (autoReconnect /\ socket[k] # "none" /\ k # 1)
    BY <1>0, <1>11, <2>1, <2>3 DEF RetryOrGiveUp, TypeOK
  <2> QED BY <2>2, <2>3
<1>12. ASSUME NEW k \in Conns, TakeQueue(k) PROVE QueueIsFlushed'
  BY <1>0, <1>12 DEF TakeQueue, TypeOK
<1>13. ASSUME NEW k \in Conns, FlushOne(k) PROVE QueueIsFlushed'
  BY <1>0, <1>13 DEF FlushOne, TypeOK
<1>14. ASSUME NEW k \in Conns, FlushEnds(k) PROVE QueueIsFlushed'
  BY <1>0, <1>14 DEF FlushEnds, TypeOK
<1>15. ASSUME NEW k \in Conns, StartReadLoop(k) PROVE QueueIsFlushed'
  BY <1>0, <1>15 DEF StartReadLoop, TypeOK
<1>16. ASSUME NEW k \in Conns, TearDown(k) PROVE QueueIsFlushed'
  BY <1>0, <1>16 DEF TearDown, TypeOK
<1>17. ASSUME NEW k \in Conns, ScheduleReconnect(k) PROVE QueueIsFlushed'
  <2>1. UNCHANGED clientVars /\ reader[k] = "leaving"
    BY <1>17 DEF ScheduleReconnect
  <2>2. CASE autoReconnect
    <3>1. k \in Keepers /\ k < MaxConns
      BY <2>1, <2>2 DEF Keepers, LinkInv, Linked
    <3>2. NextConn = k + 1 /\ dialer[k + 1] = "none"
      BY <3>1, NextInOrder DEF LinkInv
    <3>3. dialer' = [dialer EXCEPT ![k + 1] = "backoff"]
      BY <1>17, <2>2, <3>2 DEF ScheduleReconnect
    <3> QED BY <1>0, <2>1, <3>2, <3>3 DEF TypeOK
  <2>3. CASE ~ autoReconnect
    BY <1>17, <2>1, <2>3 DEF ScheduleReconnect
  <2> QED BY <2>2, <2>3
<1>18. ASSUME NEW k \in Conns, Break(k) PROVE QueueIsFlushed'
  BY <1>0, <1>18 DEF Break, TypeOK
<1>19. ASSUME NEW k \in Conns, NEW p \in Prompts, Interaction(k, p) PROVE QueueIsFlushed'
  BY <1>0, <1>19 DEF Interaction, TypeOK
<1>20. ASSUME NEW k \in Conns, NEW p \in Prompts, Reply(k, p) PROVE QueueIsFlushed'
  BY <1>0, <1>20 DEF Reply, TypeOK
<1>21. ASSUME NEW i \in Item, SendOrQueue(i) PROVE QueueIsFlushed'
  BY <1>0, <1>21, PaletteAssumption DEF SendOrQueue, NoConn, Conns, TypeOK
<1>22. ASSUME NEW i \in Item, SendWrite(i) PROVE QueueIsFlushed'
  BY <1>0, <1>22 DEF SendWrite, TypeOK
<1>23. ASSUME NEW p \in Prompts, RegisterPrompt(p) PROVE QueueIsFlushed'
  BY <1>0, <1>23 DEF RegisterPrompt, TypeOK
<1>24. ASSUME NEW p \in Prompts, TakeReply(p) PROVE QueueIsFlushed'
  BY <1>0, <1>24 DEF TakeReply, TypeOK
<1>25. ASSUME NEW p \in Prompts, Timeout(p) PROVE QueueIsFlushed'
  BY <1>0, <1>25 DEF Timeout, TypeOK
<1>26. ASSUME NEW p \in Prompts, SeeClosed(p) PROVE QueueIsFlushed'
  BY <1>0, <1>26 DEF SeeClosed, TypeOK
<1>27. ASSUME NEW p \in Prompts, ReturnPayload(p) PROVE QueueIsFlushed'
  BY <1>0, <1>27 DEF ReturnPayload, TypeOK
<1>28. CASE UNCHANGED vars
  BY <1>0, <1>28 DEF vars, TypeOK
<1> QED BY <1>1, <1>2, <1>3, <1>4, <1>5, <1>6, <1>7, <1>8, <1>9, <1>10, <1>11, <1>12, <1>13,
           <1>14, <1>15, <1>16, <1>17, <1>18, <1>19, <1>20, <1>21, <1>22, <1>23, <1>24, <1>25,
           <1>26, <1>27, <1>28, Cases

-----------------------------------------------------------------------------
(* Prompts.                                                                *)

(***************************************************************************)
(* Whoever answers a prompt has taken it out of pendingPrompts before.     *)
(***************************************************************************)
LEMMA ClaimStep ==
  TypeOK /\ Closed /\ Claims /\ ReplyNeverBlocks /\ [Next]_vars => Claims' /\ ReplyNeverBlocks'
<1> SUFFICES ASSUME TypeOK, Closed, Claims, ReplyNeverBlocks, [Next]_vars
             PROVE  Claims' /\ ReplyNeverBlocks'
  OBVIOUS
<1> USE DEF Claims, ReplyNeverBlocks, clientVars, promptVars, dialVars, readVars, sendVars, netVars
<1>0. << >> \notin Prompts
  BY PaletteAssumption
<1>1. CASE Connect
  BY <1>1 DEF Connect, TypeOK
<1>2. CASE CloseBegins
  BY <1>2 DEF CloseBegins, TypeOK
<1>3. CASE CloseLocked
  BY <1>0, <1>3 DEF CloseLocked, Closed, TypeOK
<1>4. CASE CloseSocket
  BY <1>4 DEF CloseSocket, TypeOK
<1>5. ASSUME NEW k \in Conns, BackoffOver(k) PROVE Claims' /\ ReplyNeverBlocks'
  BY <1>5 DEF BackoffOver, TypeOK
<1>6. ASSUME NEW k \in Conns, BackoffStopped(k) PROVE Claims' /\ ReplyNeverBlocks'
  BY <1>6 DEF BackoffStopped, TypeOK
<1>7. ASSUME NEW k \in Conns, DialFails(k) PROVE Claims' /\ ReplyNeverBlocks'
  BY <1>7 DEF DialFails, TypeOK
<1>8. ASSUME NEW k \in Conns, DialSucceeds(k) PROVE Claims' /\ ReplyNeverBlocks'
  BY <1>8 DEF DialSucceeds, TypeOK
<1>9. ASSUME NEW k \in Conns, HelloSent(k) PROVE Claims' /\ ReplyNeverBlocks'
  BY <1>9 DEF HelloSent, TypeOK
<1>10. ASSUME NEW k \in Conns, HelloFails(k) PROVE Claims' /\ ReplyNeverBlocks'
  BY <1>10 DEF HelloFails, TypeOK
<1>11. ASSUME NEW k \in Conns, RetryOrGiveUp(k) PROVE Claims' /\ ReplyNeverBlocks'
  BY <1>11 DEF RetryOrGiveUp, TypeOK
<1>12. ASSUME NEW k \in Conns, TakeQueue(k) PROVE Claims' /\ ReplyNeverBlocks'
  BY <1>12 DEF TakeQueue, TypeOK
<1>13. ASSUME NEW k \in Conns, FlushOne(k) PROVE Claims' /\ ReplyNeverBlocks'
  BY <1>13 DEF FlushOne, TypeOK
<1>14. ASSUME NEW k \in Conns, FlushEnds(k) PROVE Claims' /\ ReplyNeverBlocks'
  BY <1>14 DEF FlushEnds, TypeOK
<1>15. ASSUME NEW k \in Conns, StartReadLoop(k) PROVE Claims' /\ ReplyNeverBlocks'
  BY <1>15 DEF StartReadLoop, TypeOK
<1>16. ASSUME NEW k \in Conns, TearDown(k) PROVE Claims' /\ ReplyNeverBlocks'
  BY <1>16 DEF TearDown, TypeOK
<1>17. ASSUME NEW k \in Conns, ScheduleReconnect(k) PROVE Claims' /\ ReplyNeverBlocks'
  BY <1>17 DEF ScheduleReconnect, TypeOK
<1>18. ASSUME NEW k \in Conns, Break(k) PROVE Claims' /\ ReplyNeverBlocks'
  BY <1>18 DEF Break, TypeOK
<1>19. ASSUME NEW k \in Conns, NEW p \in Prompts, Interaction(k, p) PROVE Claims' /\ ReplyNeverBlocks'
  BY <1>0, <1>19 DEF Interaction, TypeOK
<1>20. ASSUME NEW k \in Conns, NEW p \in Prompts, Reply(k, p) PROVE Claims' /\ ReplyNeverBlocks'
  BY <1>0, <1>20 DEF Reply, TypeOK
<1>21. ASSUME NEW i \in Item, SendOrQueue(i) PROVE Claims' /\ ReplyNeverBlocks'
  BY <1>21 DEF SendOrQueue, TypeOK
<1>22. ASSUME NEW i \in Item, SendWrite(i) PROVE Claims' /\ ReplyNeverBlocks'
  BY <1>22 DEF SendWrite, TypeOK
<1>23. ASSUME NEW p \in Prompts, RegisterPrompt(p) PROVE Claims' /\ ReplyNeverBlocks'
  BY <1>23 DEF RegisterPrompt, TypeOK
<1>24. ASSUME NEW p \in Prompts, TakeReply(p) PROVE Claims' /\ ReplyNeverBlocks'
  BY <1>0, <1>24 DEF TakeReply, Waiting, TypeOK
<1>25. ASSUME NEW p \in Prompts, Timeout(p) PROVE Claims' /\ ReplyNeverBlocks'
  BY <1>0, <1>25 DEF Timeout, Waiting, TypeOK
<1>26. ASSUME NEW p \in Prompts, SeeClosed(p) PROVE Claims' /\ ReplyNeverBlocks'
  BY <1>0, <1>26 DEF SeeClosed, Waiting, TypeOK
<1>27. ASSUME NEW p \in Prompts, ReturnPayload(p) PROVE Claims' /\ ReplyNeverBlocks'
  BY <1>27 DEF ReturnPayload, TypeOK
<1>28. CASE UNCHANGED vars
  BY <1>28 DEF vars, TypeOK
<1> QED BY <1>1, <1>2, <1>3, <1>4, <1>5, <1>6, <1>7, <1>8, <1>9, <1>10, <1>11, <1>12, <1>13,
           <1>14, <1>15, <1>16, <1>17, <1>18, <1>19, <1>20, <1>21, <1>22, <1>23, <1>24, <1>25,
           <1>26, <1>27, <1>28, Cases

-----------------------------------------------------------------------------
(* Delivery.                                                               *)

(***************************************************************************)
(* What a sequence with one more element contains.                         *)
(***************************************************************************)
LEMMA AppendContains ==
  ASSUME NEW S, NEW s \in Seq(S), NEW x \in S
  PROVE  /\ ToSet(Append(s, x)) = ToSet(s) \cup {x}
         /\ Distinct(s) /\ x \notin ToSet(s) => Distinct(Append(s, x))
<1>1. /\ Append(s, x) \in Seq(S) /\ Len(s) \in Nat /\ Len(Append(s, x)) = Len(s) + 1
      /\ \A n \in 1..Len(s) : Append(s, x)[n] = s[n]
      /\ Append(s, x)[Len(s) + 1] = x
  BY AppendProperties, LenProperties
<1>2. DOMAIN s = 1..Len(s) /\ DOMAIN Append(s, x) = 1..(Len(s) + 1)
  BY <1>1, LenProperties
<1>3. ToSet(Append(s, x)) = ToSet(s) \cup {x}
  BY <1>1, <1>2 DEF ToSet
<1>4. Distinct(s) /\ x \notin ToSet(s) => Distinct(Append(s, x))
  BY <1>1, <1>2 DEF ToSet, Distinct
<1> QED BY <1>3, <1>4

(***************************************************************************)
(* The hello of a connection is not an item.                               *)
(***************************************************************************)
LEMMA ItemsAreNotHello == Hello \notin Item
<1>1. \A p : Hello[1] = "hello" /\ Render(p)[1] = "render" /\ Erase(p)[1] = "clear"
  BY DEF Hello, Render, Erase
<1>2. \A p : Hello # Render(p) /\ Hello # Erase(p)
  BY <1>1
<1> QED BY <1>2, PaletteAssumption DEF Item, Hello

(***************************************************************************)
(* What neither of two sequences contains their concatenation does not.    *)
(***************************************************************************)
LEMMA NotContained ==
  ASSUME NEW S, NEW s \in Seq(S), NEW t \in Seq(S), NEW x, x \notin ToSet(s) \cup ToSet(t)
  PROVE  ~ Contains(s \o t, x)
<1>1. /\ Len(s) \in Nat /\ Len(t) \in Nat /\ Len(s \o t) = Len(s) + Len(t)
      /\ DOMAIN s = 1..Len(s) /\ DOMAIN t = 1..Len(t)
  BY ConcatProperties, LenProperties
<1>2. ASSUME NEW n \in 1..Len(s \o t) PROVE (s \o t)[n] # x
  <2>1. CASE n <= Len(s)
    BY <1>1, <2>1, ConcatProperties DEF ToSet
  <2>2. CASE n > Len(s)
    <3>1. n - Len(s) \in 1..Len(t) /\ (s \o t)[n] = t[n - Len(s)]
      BY <1>1, <2>2, ConcatProperties
    <3> QED BY <1>1, <3>1 DEF ToSet
  <2> QED BY <1>1, <2>1, <2>2
<1> QED BY <1>2 DEF Contains

(***************************************************************************)
(* What a sequence of distinct elements without its first contains.        *)
(***************************************************************************)
LEMMA TailContains ==
  ASSUME NEW S, NEW s \in Seq(S), s # << >>, Distinct(s)
  PROVE  /\ Head(s) \in ToSet(s) /\ ToSet(Tail(s)) = ToSet(s) \ {Head(s)}
         /\ Distinct(Tail(s))
<1>1. /\ Tail(s) \in Seq(S) /\ Len(s) \in Nat /\ Len(s) > 0 /\ Len(Tail(s)) = Len(s) - 1
      /\ \A n \in 1..Len(Tail(s)) : Tail(s)[n] = s[n + 1]
      /\ Head(s) = s[1]
  BY HeadTailProperties, LenProperties, EmptySeq
<1>2. DOMAIN s = 1..Len(s) /\ DOMAIN Tail(s) = 1..(Len(s) - 1)
  BY <1>1, LenProperties
<1>3. \A n \in 1..Len(s) : n = 1 \/ (n - 1 \in 1..(Len(s) - 1) /\ Tail(s)[n - 1] = s[n])
  BY <1>1
<1>4. ToSet(Tail(s)) = ToSet(s) \ {Head(s)}
  <2>1. ASSUME NEW n \in 1..(Len(s) - 1) PROVE Tail(s)[n] \in ToSet(s) /\ Tail(s)[n] # Head(s)
    BY <1>1, <1>2 DEF ToSet, Distinct
  <2>2. ASSUME NEW n \in 1..Len(s), s[n] # Head(s) PROVE s[n] \in ToSet(Tail(s))
    BY <1>1, <1>2, <1>3, <2>2 DEF ToSet
  <2> QED BY <1>2, <2>1, <2>2 DEF ToSet
<1>5. Distinct(Tail(s))
  BY <1>1 DEF Distinct
<1>6. Head(s) \in ToSet(s)
  BY <1>1, <1>2 DEF ToSet
<1> QED BY <1>4, <1>5, <1>6

(***************************************************************************)
(* A write of an item that is nowhere else any more reaches the server     *)
(* once at most.                                                           *)
(***************************************************************************)
LEMMA WriteOnce ==
  ASSUME TypeOK, ReceivedOnce, NEW k \in Conns, NEW i \in Item \cup {Hello}, Write(k, i),
         Held' \subseteq Held, \A x \in Item : sender[x] = "ended" => sender'[x] = "ended",
         i # Hello => /\ sender'[i] = "ended" /\ i \notin Held'
                      /\ \A j \in Conns : \A n \in 1..Len(received[j]) : received[j][n] # i
  PROVE  ReceivedOnce'
<1>1. CASE received' = received
  <2>1. \A j \in Conns : \A n \in 1..Len(received[j]) : received[j][n] # Hello => received[j][n] \in Item
    BY DEF TypeOK
  <2> QED BY <1>1, <2>1 DEF ReceivedOnce
<1>2. CASE received' = [received EXCEPT ![k] = Append(@, i)]
  <2> DEFINE L == Len(received[k])
  <2>0. \A j \in Conns : received[j] \in Seq(Item \cup {Hello})
    BY DEF TypeOK
  <2>1. \A j \in Conns : \A n \in 1..Len(received[j]) : received[j][n] # Hello => received[j][n] \in Item
    BY <2>0, ElementOfSeq
  <2>2. /\ L \in Nat /\ Len(received'[k]) = L + 1 /\ received'[k][L + 1] = i
        /\ \A n \in 1..L : received'[k][n] = received[k][n]
    BY <1>2, <2>0, AppendProperties, LenProperties DEF TypeOK
  <2>3. \A j \in Conns : j # k => received'[j] = received[j]
    BY <1>2 DEF TypeOK
  <2>4. \A j \in Conns : \A n \in 1..Len(received'[j]) :
           \/ n \in 1..Len(received[j]) /\ received'[j][n] = received[j][n]
           \/ j = k /\ n = L + 1 /\ received'[j][n] = i
    BY <2>2, <2>3
  <2> HIDE DEF L
  <2> SUFFICES ASSUME NEW h \in Conns, NEW n \in 1..Len(received'[h]), received'[h][n] # Hello
               PROVE  /\ sender'[received'[h][n]] = "ended" /\ received'[h][n] \notin Held'
                      /\ \A j \in Conns : \A m \in 1..Len(received'[j]) :
                           received'[j][m] = received'[h][n] => j = h /\ m = n
    BY DEF ReceivedOnce
  <2>5. CASE h = k /\ n = L + 1 /\ received'[h][n] = i
    BY <2>4, <2>5
  <2>6. CASE n \in 1..Len(received[h]) /\ received'[h][n] = received[h][n]
    <3>1. /\ received[h][n] \in Item /\ sender[received[h][n]] = "ended" /\ received[h][n] \notin Held
          /\ \A j \in Conns : \A m \in 1..Len(received[j]) :
               received[j][m] = received[h][n] => j = h /\ m = n
      BY <2>1, <2>6 DEF ReceivedOnce
    <3> QED BY <2>4, <2>6, <3>1
  <2> QED BY <2>4, <2>5, <2>6
<1> QED BY <1>1, <1>2 DEF Write

(***************************************************************************)
(* Every step leaves each item in one place.                               *)
(***************************************************************************)
LEMMA OnceStep == TypeOK /\ Once /\ [Next]_vars => Once'
<1> SUFFICES ASSUME TypeOK, Once, [Next]_vars PROVE Once'
  OBVIOUS
<1> USE DEF clientVars, promptVars, dialVars, readVars, sendVars, netVars
<1>0. Writing /\ HeldOnce /\ ReceivedOnce
  BY DEF Once
<1>1. ASSUME UNCHANGED <<messageQueue, batch, sender, via, received>> PROVE Once'
  BY <1>0, <1>1 DEF Once, Writing, HeldOnce, ReceivedOnce, Held
<1>2. Hello \notin Item
  BY ItemsAreNotHello
<1>3. ASSUME NEW k \in Conns, HelloSent(k) PROVE Once'
  <2>1. Write(k, Hello) /\ UNCHANGED <<messageQueue, batch, sender, via>>
    BY <1>3 DEF HelloSent
  <2>2. Held' = Held
    BY <2>1 DEF Held
  <2>3. ReceivedOnce'
    BY <1>0, <2>1, <2>2, WriteOnce
  <2> QED BY <1>0, <2>1, <2>2, <2>3 DEF Once, Writing, HeldOnce
<1>4. ASSUME NEW k \in Conns, TakeQueue(k) PROVE Once'
  <2>1. messageQueue' = << >> /\ batch' \in {batch, messageQueue} /\ UNCHANGED <<sender, via, received>>
    BY <1>4 DEF TakeQueue
  <2>2. ToSet(<< >>) = {} /\ Distinct(<< >>)
    BY DEF ToSet, Distinct
  <2>3. Held' \subseteq Held /\ HeldOnce'
    BY <1>0, <2>1, <2>2 DEF Held, HeldOnce
  <2>4. ReceivedOnce'
    BY <1>0, <2>1, <2>3 DEF ReceivedOnce
  <2> QED BY <1>0, <2>1, <2>3, <2>4 DEF Once, Writing
<1>5. ASSUME NEW k \in Conns, FlushOne(k) PROVE Once'
  <2>1. batch # << >> /\ UNCHANGED <<messageQueue, sender, via>>
    BY <1>5 DEF FlushOne
  <2>2. /\ Head(batch) \in ToSet(batch) /\ ToSet(Tail(batch)) = ToSet(batch) \ {Head(batch)}
        /\ Distinct(Tail(batch)) /\ Head(batch) \in Item
    BY <1>0, <2>1, TailContains, HeadTailProperties DEF HeldOnce, TypeOK
  <2>3. CASE Write(k, Head(batch)) /\ batch' = Tail(batch)
    <3>1. Held' \subseteq Held /\ Head(batch) \notin Held' /\ HeldOnce'
      BY <1>0, <2>1, <2>2, <2>3 DEF Held, HeldOnce
    <3>2. sender[Head(batch)] = "ended"
      BY <1>0, <2>2 DEF HeldOnce, Held
    <3>3. \A j \in Conns : \A n \in 1..Len(received[j]) : received[j][n] # Head(batch)
      BY <1>0, <1>2, <2>2 DEF ReceivedOnce, Held
    <3>4. ReceivedOnce'
      BY <1>0, <2>1, <2>2, <2>3, <3>1, <3>2, <3>3, WriteOnce
    <3> QED BY <1>0, <2>1, <3>1, <3>4 DEF Once, Writing
  <2>4. CASE batch' = << >> /\ UNCHANGED received
    <3>1. ToSet(<< >>) = {} /\ Distinct(<< >>)
      BY DEF ToSet, Distinct
    <3>2. Held' \subseteq Held /\ HeldOnce'
      BY <1>0, <2>1, <2>4, <3>1 DEF Held, HeldOnce
    <3>3. ReceivedOnce'
      BY <1>0, <2>1, <2>4, <3>2 DEF ReceivedOnce
    <3> QED BY <1>0, <2>1, <3>2, <3>3 DEF Once, Writing
  <2> QED BY <1>5, <2>3, <2>4 DEF FlushOne
<1>6. ASSUME NEW i \in Item, SendOrQueue(i) PROVE Once'
  <2>1. sender[i] = "todo" /\ UNCHANGED <<batch, received>>
    BY <1>6 DEF SendOrQueue
  <2>2. i \notin Held /\ \A k \in Conns : \A n \in 1..Len(received[k]) : received[k][n] # i
    BY <1>0, <1>2, <2>1 DEF HeldOnce, ReceivedOnce
  <2>3. CASE /\ sender' = [sender EXCEPT ![i] = "writing"] /\ via' = [via EXCEPT ![i] = conn]
             /\ conn # NoConn /\ UNCHANGED messageQueue
    <3>1. Writing'
      BY <1>0, <2>3 DEF Writing, TypeOK
    <3>2. HeldOnce' /\ Held' = Held
      BY <1>0, <2>1, <2>2, <2>3 DEF HeldOnce, Held, TypeOK
    <3>3. ReceivedOnce'
      BY <1>0, <2>1, <2>2, <2>3, <3>2 DEF ReceivedOnce, TypeOK
    <3> QED BY <3>1, <3>2, <3>3 DEF Once
  <2>4. CASE /\ sender' = [sender EXCEPT ![i] = "ended"] /\ messageQueue' = Append(messageQueue, i)
             /\ UNCHANGED via
    <3>1. Writing'
      BY <1>0, <2>4 DEF Writing, TypeOK
    <3>2. ToSet(messageQueue') = ToSet(messageQueue) \cup {i} /\ Distinct(messageQueue')
      BY <1>0, <2>2, <2>4, AppendContains DEF HeldOnce, Held, TypeOK
    <3>3. HeldOnce' /\ Held' = Held \cup {i}
      BY <1>0, <2>1, <2>2, <2>4, <3>2 DEF HeldOnce, Held, TypeOK
    <3>4. ReceivedOnce'
      BY <1>0, <2>1, <2>2, <2>4, <3>3 DEF ReceivedOnce, TypeOK
    <3> QED BY <3>1, <3>3, <3>4 DEF Once
  <2> QED BY <1>6, <2>3, <2>4 DEF SendOrQueue
<1>7. ASSUME NEW i \in Item, SendWrite(i) PROVE Once'
  <2>1. /\ sender[i] = "writing" /\ Write(via[i], i) /\ sender' = [sender EXCEPT ![i] = "ended"]
        /\ UNCHANGED <<messageQueue, batch, via>>
    BY <1>7 DEF SendWrite
  <2>2. i \notin Held /\ \A k \in Conns : \A n \in 1..Len(received[k]) : received[k][n] # i
    BY <1>0, <1>2, <2>1 DEF HeldOnce, ReceivedOnce
  <2>3. Writing' /\ HeldOnce' /\ Held' = Held
    BY <1>0, <2>1, <2>2 DEF Writing, HeldOnce, Held, TypeOK
  <2>4. sender'[i] = "ended" /\ \A x \in Item : sender[x] = "ended" => sender'[x] = "ended"
    BY <2>1 DEF TypeOK
  <2>5. ReceivedOnce'
    BY <1>0, <2>1, <2>2, <2>3, <2>4, WriteOnce DEF Writing
  <2> QED BY <2>3, <2>5 DEF Once
<1>8. CASE Connect \/ CloseBegins \/ CloseLocked \/ CloseSocket
  BY <1>1, <1>8 DEF Connect, CloseBegins, CloseLocked, CloseSocket
<1>9. ASSUME NEW k \in Conns,
             \/ BackoffOver(k) \/ BackoffStopped(k) \/ DialFails(k) \/ DialSucceeds(k)
             \/ HelloFails(k) \/ RetryOrGiveUp(k) \/ FlushEnds(k) \/ StartReadLoop(k)
             \/ TearDown(k) \/ ScheduleReconnect(k) \/ Break(k)
      PROVE  Once'
  BY <1>1, <1>9 DEF BackoffOver, BackoffStopped, DialFails, DialSucceeds, HelloFails, RetryOrGiveUp,
                    FlushEnds, StartReadLoop, TearDown, ScheduleReconnect, Break
<1>10. ASSUME NEW k \in Conns, NEW p \in Prompts, Interaction(k, p) \/ Reply(k, p) PROVE Once'
  BY <1>1, <1>10 DEF Interaction, Reply
<1>11. ASSUME NEW p \in Prompts,
              \/ RegisterPrompt(p) \/ TakeReply(p) \/ Timeout(p) \/ SeeClosed(p) \/ ReturnPayload(p)
       PROVE  Once'
  BY <1>1, <1>11 DEF RegisterPrompt, TakeReply, Timeout, SeeClosed, ReturnPayload
<1>12. CASE UNCHANGED vars
  BY <1>1, <1>12 DEF vars
<1> QED BY <1>3, <1>4, <1>5, <1>6, <1>7, <1>8, <1>9, <1>10, <1>11, <1>12, Cases

-----------------------------------------------------------------------------
(* The theorems.                                                           *)

(***************************************************************************)
(* The invariant holds when the application starts.                        *)
(***************************************************************************)
LEMMA InitInv == Init => IInv
<1> SUFFICES ASSUME Init PROVE IInv
  OBVIOUS
<1>0. MaxConns \in Nat \ {0} /\ MaxAnswers \in Nat /\ Conns = 1..MaxConns /\ << >> \notin Prompts
  BY PaletteAssumption DEF Conns
<1>1. TypeOK
  <2>1. << >> \in Seq(Item) /\ << >> \in Seq(Item \cup {Hello}) /\ << >> \in Seq({"payload", "closed"})
    OBVIOUS
  <2>2. Len(<< >>) <= 1
    OBVIOUS
  <2>3. ch \in [Prompts -> Seq({"payload", "closed"})] /\ \A p \in Prompts : Len(ch[p]) <= 1
    BY <2>1, <2>2 DEF Init
  <2>4. received \in [Conns -> Seq(Item \cup {Hello})] /\ messageQueue \in Seq(Item) /\ batch \in Seq(Item)
    BY <2>1 DEF Init
  <2>5. /\ sender \in [Item -> {"todo", "writing", "ended"}] /\ via \in [Item -> Conns \cup {NoConn}]
        /\ conn \in Conns \cup {NoConn} /\ answers \in [Prompts -> 0..MaxAnswers]
    BY <1>0 DEF Init
  <2>6. closer \in [pc : {"todo", "begun", "locked", "ended"}, conn : Conns \cup {NoConn}]
    BY DEF Init
  <2> QED BY <2>3, <2>4, <2>5, <2>6 DEF Init, TypeOK
<1>2. LinkInv
  BY <1>0 DEF Init, LinkInv, Chain, Sockets, Closed, Linked, Kept, Keepers, NoConn
<1>3. QueueIsFlushed
  BY DEF Init, QueueIsFlushed
<1>4. Claims /\ ReplyNeverBlocks
  BY <1>0 DEF Init, Claims, ReplyNeverBlocks
<1>5. Once
  <2>1. ToSet(<< >>) = {} /\ Distinct(<< >>)
    BY DEF ToSet, Distinct
  <2> QED BY <2>1 DEF Init, Once, Writing, HeldOnce, Held, ReceivedOnce
<1> QED BY <1>1, <1>2, <1>3, <1>4, <1>5 DEF IInv

(***************************************************************************)
(* The inductive invariant holds of every execution.                       *)
(***************************************************************************)
THEOREM ClientSound == Spec => []IInv
<1>1. IInv /\ [Next]_vars => IInv'
  <2> SUFFICES ASSUME IInv, [Next]_vars PROVE IInv'
    OBVIOUS
  <2> QED BY TypesStep, LinkStep, FlushStep, ClaimStep, OnceStep DEF IInv, LinkInv
<1> QED BY InitInv, <1>1, PTL DEF Spec

(***************************************************************************)
(* Type correctness; in particular a reply channel never holds more than   *)
(* the one value it has room for.                                          *)
(***************************************************************************)
THEOREM TypeCorrect == Spec => []TypeOK
<1>1. IInv => TypeOK
  BY DEF IInv
<1> QED BY <1>1, ClientSound, PTL

(***************************************************************************)
(* For any prompts and connections: whoever replies to a prompt finds its  *)
(* channel empty, and is the only one to reply.                            *)
(***************************************************************************)
THEOREM RepliesNeverBlock == Spec => []ReplyNeverBlocks
<1>1. IInv => ReplyNeverBlocks
  BY DEF IInv
<1> QED BY <1>1, ClientSound, PTL

(***************************************************************************)
(* For any number of connections: never two goroutines keep the link, and  *)
(* never none while the client is to be connected again.                   *)
(***************************************************************************)
THEOREM OneKeeperOnly == Spec => []OneKeeper
<1>1. IInv => OneKeeper
  <2> SUFFICES ASSUME IInv PROVE OneKeeper
    OBVIOUS
  <2>1. TypeOK /\ Chain /\ Kept
    BY DEF IInv, LinkInv
  <2>2. Cardinality(Keepers) <= 1
    <3>1. CASE Keepers = {}
      BY <3>1, FS_EmptySet
    <3>2. CASE Keepers # {}
      <4>1. PICK k \in Keepers : TRUE
        BY <3>2
      <4>2. Keepers = {k}
        BY <2>1, <4>1, OneKept
      <4> QED BY <4>2, FS_Singleton
    <3> QED BY <3>1, <3>2
  <2> QED BY <2>1, <2>2 DEF Kept, OneKeeper
<1> QED BY <1>1, ClientSound, PTL

(***************************************************************************)
(* For any messages and connections: the queue of a connected client is    *)
(* about to be flushed, and no item reaches the server twice.              *)
(***************************************************************************)
THEOREM QueueDeliveredOnce == Spec => []QueueDelivered
<1>1. IInv => QueueDelivered
  <2> SUFFICES ASSUME IInv PROVE QueueDelivered
    OBVIOUS
  <2>1. TypeOK /\ ReceivedOnce /\ QueueIsFlushed
    BY DEF IInv, Once
  <2>2. ASSUME NEW i \in Item
        PROVE  LET D == { d \in { <<k, n>> : k \in Conns, n \in 1..(2 * Cardinality(Item)) } :
                            d[2] \in DOMAIN received[d[1]] /\ received[d[1]][d[2]] = i }
               IN  Cardinality(D) <= IF Contains(messageQueue \o batch, i) THEN 0 ELSE 1
    <3> DEFINE D == { d \in { <<k, n>> : k \in Conns, n \in 1..(2 * Cardinality(Item)) } :
                        d[2] \in DOMAIN received[d[1]] /\ received[d[1]][d[2]] = i }
    <3>1. i # Hello
      BY <2>2, ItemsAreNotHello
    <3>2. ASSUME NEW d \in D
          PROVE  /\ d = <<d[1], d[2]>> /\ d[1] \in Conns /\ d[2] \in 1..Len(received[d[1]])
                 /\ received[d[1]][d[2]] = i
      <4>1. d = <<d[1], d[2]>> /\ d[1] \in Conns
        OBVIOUS
      <4>2. DOMAIN received[d[1]] = 1..Len(received[d[1]])
        BY <2>1, <4>1 DEF TypeOK
      <4> QED BY <4>1, <4>2
    <3>3. \A d, e \in D : d = e
      <4> HIDE DEF D
      <4> SUFFICES ASSUME NEW d \in D, NEW e \in D PROVE d[1] = e[1] /\ d[2] = e[2]
        BY <3>2
      <4> QED BY <2>1, <3>1, <3>2 DEF ReceivedOnce
    <3> HIDE DEF D
    <3>4. CASE D = {}
      <4>1. Cardinality(D) = 0
        BY <3>4, FS_EmptySet
      <4> QED BY <4>1 DEF D
    <3>5. CASE D # {}
      <4>1. PICK d \in D : TRUE
        BY <3>5
      <4>2. D = {d}
        BY <3>3, <4>1
      <4>3. Cardinality(D) = 1
        BY <4>2, FS_Singleton
      <4>4. i \notin Held
        BY <2>1, <3>1, <3>2, <4>1 DEF ReceivedOnce
      <4>5. ~ Contains(messageQueue \o batch, i)
        BY <2>1, <4>4, NotContained DEF TypeOK, Held
      <4> QED BY <4>3, <4>5 DEF D
    <3> QED BY <3>4, <3>5
  <2> QED BY <2>1, <2>2 DEF QueueDelivered, DeliveredOnce
<1> QED BY <1>1, ClientSound, PTL

-----------------------------------------------------------------------------
(* The tools of an agent (ToolServers). *)

\* What can be in Manager.servers.
ServerEntries == { [ref |-> i, tools |-> Tools(refs[i])] : i \in DOMAIN refs }
\* A call.
CallState ==
  [pc : {"idle", "tool", "prompt", "children", "adding", "writing", "returning"},
   number : Nat, ref : Nat, started : Nat, used : Nat, read : Nat]

\* The types of all variables.
ToolsTyped ==
  /\ setup \in Setups
  /\ phase \in {"starting", "running", "closing", "exited"}
  /\ at \in 1..Len(refs) + 1 /\ stage \in {"none", "files", "built", "process", "failed"}
  /\ servers \in Seq(ServerEntries)
  /\ closed \in 0..Len(servers) /\ made \in 0..MaxCalls
  /\ calls \in [Callers -> CallState]
  /\ stats \in [DOMAIN refs -> Nat] /\ spent \in [DOMAIN refs -> Nat] /\ lost \in [DOMAIN refs -> Nat]

\* Where a call of a child agent can be.
WithChildren == {"children", "adding", "writing", "returning"}

\* A call of an agent knows which one.
CallsRouted ==
  \A c \in Callers : calls[c].pc \in WithChildren =>
    calls[c].ref \in DOMAIN refs /\ refs[calls[c].ref].kind = "agent"

(***************************************************************************)
(* The steps of ToolsNext, one by one.                                     *)
(***************************************************************************)
LEMMA ToolsCases ==
  ASSUME [ToolsNext]_toolsVars
  PROVE  \/ WriteFiles \/ Build \/ Spawn \/ Fail \/ Skip \/ Register \/ Ready
         \/ Quit \/ CloseViewer \/ CloseNext \/ Exit \/ ProcessEnds
         \/ \E c \in Callers : phase # "exited" /\
              (\/ Call(c) \/ ToolAnswers(c) \/ PromptEnds(c) \/ StartChildren(c) \/ RunChild(c)
               \/ ReadStats(c) \/ WriteStats(c) \/ CloseChildren(c))
         \/ UNCHANGED toolsVars
BY DEF ToolsNext, Start, End, CallStep

(***************************************************************************)
(* What the configuration is, by the assumption about it.                  *)
(***************************************************************************)
LEMMA SetupTyped ==
  ASSUME SetupsAssumption, setup \in Setups
  PROVE  /\ setup \in Setup /\ refs \in Seq(ServerRef) /\ Len(refs) \in Nat
         /\ DOMAIN refs = 1..Len(refs)
         /\ \A i \in DOMAIN refs : refs[i] \in ServerRef
<1>1. setup \in Setup
  BY DEF SetupsAssumption
<1>2. refs \in Seq(ServerRef)
  BY <1>1 DEF Setup, refs
<1> QED BY <1>1, <1>2

(***************************************************************************)
(* First is an element of the set it is taken from.                        *)
(***************************************************************************)
LEMMA FirstOf ==
  ASSUME NEW n \in Nat, NEW S, S \subseteq 1..n, S # {}
  PROVE  First(S) \in S
<1>1. PICK m \in S : \A k \in S : m <= k
  <2>1. S \subseteq 0..n
    OBVIOUS
  <2> QED BY <2>1, LeastNumber
<1> QED BY <1>1 DEF First

(***************************************************************************)
(* An entry of Manager.servers is a server of the configuration with its   *)
(* tools.                                                                  *)
(***************************************************************************)
LEMMA EntryTyped ==
  ASSUME ToolsTyped, NEW k \in DOMAIN servers
  PROVE  servers[k].ref \in DOMAIN refs /\ servers[k].tools = Tools(refs[servers[k].ref])
<1>1. servers[k] \in ServerEntries
  BY DEF ToolsTyped
<1>2. PICK i \in DOMAIN refs : servers[k] = [ref |-> i, tools |-> Tools(refs[i])]
  BY <1>1 DEF ServerEntries
<1> QED BY <1>2

(***************************************************************************)
(* A call goes to a server of the list, or to none.                        *)
(***************************************************************************)
LEMMA RouteTyped ==
  ASSUME ToolsTyped, NEW name
  PROVE  /\ Route(name).server = 0 \/ Route(name).server \in DOMAIN servers
         /\ Prefixed(name) # {} => Route(name) = [server |-> First(Prefixed(name)), tool |-> Tail(name)]
         /\ Prefixed(name) = {} /\ Listing(name) # {} =>
              Route(name) = [server |-> First(Listing(name)), tool |-> name]
         /\ Prefixed(name) # {} => First(Prefixed(name)) \in Prefixed(name)
         /\ Listing(name) # {} => First(Listing(name)) \in Listing(name)
<1>1. DOMAIN servers = 1..Len(servers) /\ Len(servers) \in Nat
  BY DEF ToolsTyped
<1>2. Prefixed(name) \subseteq DOMAIN servers /\ Listing(name) \subseteq DOMAIN servers
  BY DEF Prefixed, Listing
<1>3. /\ Prefixed(name) # {} => First(Prefixed(name)) \in Prefixed(name)
      /\ Listing(name) # {} => First(Listing(name)) \in Listing(name)
  BY <1>1, <1>2, FirstOf
<1> QED BY <1>2, <1>3 DEF Route, NotFound

(***************************************************************************)
(* A call keeps its type when some of its fields are changed to others of  *)
(* their types.                                                            *)
(***************************************************************************)
LEMMA CallUpdated ==
  ASSUME calls \in [Callers -> CallState], NEW c \in Callers
  PROVE  /\ \A n \in Nat : [calls EXCEPT ![c].started = n] \in [Callers -> CallState]
         /\ \A n \in Nat : [calls EXCEPT ![c].pc = "writing", ![c].read = n] \in [Callers -> CallState]
         /\ \A pc \in {"adding", "returning"}, n \in Nat :
              [calls EXCEPT ![c].pc = pc, ![c].used = n] \in [Callers -> CallState]
<1>0. calls[c] \in CallState /\ \A e \in CallState : [calls EXCEPT ![c] = e] \in [Callers -> CallState]
  OBVIOUS
<1>1. ASSUME NEW n \in Nat PROVE [calls EXCEPT ![c].started = n] \in [Callers -> CallState]
  <2> DEFINE e == [calls[c] EXCEPT !.started = n]
  <2>1. e \in CallState
    BY <1>0 DEF CallState
  <2>2. [calls EXCEPT ![c].started = n] = [calls EXCEPT ![c] = e]
    OBVIOUS
  <2> HIDE DEF e
  <2> QED BY <1>0, <2>1, <2>2
<1>2. ASSUME NEW n \in Nat PROVE [calls EXCEPT ![c].pc = "writing", ![c].read = n] \in [Callers -> CallState]
  <2> DEFINE e == [calls[c] EXCEPT !.pc = "writing", !.read = n]
  <2>1. e \in CallState
    BY <1>0 DEF CallState
  <2>2. [calls EXCEPT ![c].pc = "writing", ![c].read = n] = [calls EXCEPT ![c] = e]
    OBVIOUS
  <2> HIDE DEF e
  <2> QED BY <1>0, <2>1, <2>2
<1>3. ASSUME NEW pc \in {"adding", "returning"}, NEW n \in Nat
      PROVE  [calls EXCEPT ![c].pc = pc, ![c].used = n] \in [Callers -> CallState]
  <2> DEFINE e == [calls[c] EXCEPT !.pc = pc, !.used = n]
  <2>1. e \in CallState
    BY <1>0 DEF CallState
  <2>2. [calls EXCEPT ![c].pc = pc, ![c].used = n] = [calls EXCEPT ![c] = e]
    OBVIOUS
  <2> HIDE DEF e
  <2> QED BY <1>0, <2>1, <2>2
<1> QED BY <1>1, <1>2, <1>3

(***************************************************************************)
(* The types hold at the beginning.                                        *)
(***************************************************************************)
LEMMA ToolsTypesInit == SetupsAssumption /\ ToolsInit => ToolsTyped /\ CallsRouted
<1> SUFFICES ASSUME SetupsAssumption, ToolsInit PROVE ToolsTyped /\ CallsRouted
  OBVIOUS
<1>1. setup \in Setups
  BY DEF ToolsInit
<1>2. Len(refs) \in Nat
  BY <1>1, SetupTyped
<1>3. MaxCalls \in Nat
  BY DEF SetupsAssumption
<1>4. servers \in Seq(ServerEntries) /\ Len(servers) = 0
  BY DEF ToolsInit
<1>5. calls \in [Callers -> CallState]
  BY DEF ToolsInit, CallState, Idle
<1>6. stats \in [DOMAIN refs -> Nat] /\ spent \in [DOMAIN refs -> Nat] /\ lost \in [DOMAIN refs -> Nat]
  BY DEF ToolsInit
<1>7. CallsRouted
  BY DEF ToolsInit, CallsRouted, Idle, WithChildren
<1>8. phase = "starting" /\ at = 1 /\ stage = "none" /\ closed = 0 /\ made = 0
  BY DEF ToolsInit
<1> QED BY <1>1, <1>2, <1>3, <1>4, <1>5, <1>6, <1>7, <1>8 DEF ToolsTyped

(***************************************************************************)
(* Every step keeps the types, and a call of a child agent knows which.    *)
(***************************************************************************)
LEMMA ToolsTypesStep ==
  ASSUME SetupsAssumption, ToolsTyped, CallsRouted, [ToolsNext]_toolsVars
  PROVE  ToolsTyped' /\ CallsRouted'
<1> USE DEF ToolsTyped, CallsRouted, starting, calling
<1>0. setup \in Setups
  OBVIOUS
<1>1. Len(refs) \in Nat /\ DOMAIN refs = 1..Len(refs) /\ MaxCalls \in Nat /\ MaxSpend \in Nat
  BY <1>0, SetupTyped DEF SetupsAssumption
<1>s. UNCHANGED setup => refs' = refs /\ ServerEntries' = ServerEntries
  BY DEF refs, ServerEntries, Tools, FilterTools, RestrictValues, Restrict
<1>2. CASE WriteFiles \/ Build \/ Spawn \/ Fail \/ Ready \/ Quit \/ CloseViewer \/ ProcessEnds
  <2>1. UNCHANGED <<setup, servers, closed, made, calls, stats, spent, lost, at>>
        /\ phase' \in {"starting", "running", "closing", "exited"} /\ stage' \in {"none", "files", "built", "process", "failed"}
    BY <1>2 DEF WriteFiles, Build, Spawn, Fail, Ready, Quit, CloseViewer, ProcessEnds
  <2> QED BY <2>1, <1>s
<1>3. CASE Skip
  <2>1. UNCHANGED <<setup, servers, closed, made, calls, stats, spent, lost, phase>>
        /\ at \in 1..Len(refs) /\ at' = at + 1 /\ stage' = "none"
    BY <1>1, <1>3 DEF Skip, Starting
  <2>2. at' \in 1..Len(refs) + 1
    BY <1>1, <2>1
  <2> QED BY <2>1, <2>2, <1>s
<1>4. CASE Register
  <2>1. UNCHANGED <<setup, closed, made, calls, stats, spent, lost, phase>>
        /\ at \in 1..Len(refs) /\ at' = at + 1 /\ stage' = "none"
        /\ servers' = Append(servers, [ref |-> at, tools |-> Tools(refs[at])])
    BY <1>1, <1>4 DEF Register, Starting
  <2>2. at' \in 1..Len(refs) + 1
    BY <1>1, <2>1
  <2>3. [ref |-> at, tools |-> Tools(refs[at])] \in ServerEntries
    BY <1>1, <2>1 DEF ServerEntries
  <2>4. servers' \in Seq(ServerEntries) /\ Len(servers') = Len(servers) + 1 /\ Len(servers) \in Nat
    BY <2>1, <2>3
  <2>5. closed' \in 0..Len(servers')
    BY <2>1, <2>4
  <2> QED BY <2>1, <2>2, <2>4, <2>5, <1>s
<1>5. CASE CloseNext
  <2>1. UNCHANGED <<setup, servers, made, calls, stats, spent, lost, phase, at, stage>>
        /\ closed' = closed + 1 /\ closed < Len(servers) /\ Len(servers) \in Nat
    BY <1>5 DEF CloseNext
  <2>2. closed' \in 0..Len(servers)
    BY <2>1
  <2> QED BY <2>1, <2>2, <1>s
<1>6. CASE Exit
  <2>1. UNCHANGED <<setup, made, calls, stats, spent, lost, at, stage>>
        /\ closed' = 0 /\ servers' = << >> /\ phase' = "exited"
    BY <1>6 DEF Exit
  <2>2. servers' \in Seq(ServerEntries) /\ closed' \in 0..Len(servers')
    BY <2>1
  <2> QED BY <2>1, <2>2, <1>s
<1>7. ASSUME NEW c \in Callers, Call(c)
      PROVE  ToolsTyped' /\ CallsRouted'
  <2>1. UNCHANGED <<setup, servers, closed, phase, at, stage, stats, spent, lost>>
        /\ made' = made + 1 /\ made < MaxCalls
    BY <1>7 DEF Call
  <2>2. made' \in 0..MaxCalls
    BY <1>1, <2>1
  <2>3. PICK name \in Names \cup buildToolDefs, awaitInteraction \in BOOLEAN :
       LET to == Route(name)
           ref == IF to.server = 0 THEN 0 ELSE servers[to.server].ref
           kind == IF ref = 0 THEN "none" ELSE refs[ref].kind
       IN calls' = [calls EXCEPT ![c] =
            [pc |-> CASE kind = "command" -> "tool"
                      [] kind = "agent" -> "children"
                      [] kind = "palette" /\ ShouldBlock(Head(to.tool), awaitInteraction) -> "prompt"
                      [] OTHER -> "idle",
             number |-> made + 1, ref |-> ref, started |-> 0, used |-> 0, read |-> 0]]
    BY <1>7 DEF Call
  <2> DEFINE to == Route(name)
             ref == IF to.server = 0 THEN 0 ELSE servers[to.server].ref
             kind == IF ref = 0 THEN "none" ELSE refs[ref].kind
             pc == CASE kind = "command" -> "tool"
                        [] kind = "agent" -> "children"
                        [] kind = "palette" /\ ShouldBlock(Head(to.tool), awaitInteraction) -> "prompt"
                        [] OTHER -> "idle"
  <2>4. calls' = [calls EXCEPT ![c] =
          [pc |-> pc, number |-> made + 1, ref |-> ref, started |-> 0, used |-> 0, read |-> 0]]
    BY <2>3
  <2>5. to.server = 0 \/ to.server \in DOMAIN servers
    BY RouteTyped
  <2>6. ref = 0 \/ ref \in DOMAIN refs
    <3>1. CASE to.server \in DOMAIN servers
      <4> HIDE DEF to
      <4>1. servers[to.server].ref \in DOMAIN refs
        BY <3>1, EntryTyped
      <4> QED BY <4>1
    <3> QED BY <2>5, <3>1
  <2>7. pc \in {"tool", "children", "prompt", "idle"} /\ (pc = "children" => ref # 0 /\ refs[ref].kind = "agent")
    OBVIOUS
  <2> HIDE DEF to, ref, kind, pc
  <2>9. [pc |-> pc, number |-> made + 1, ref |-> ref, started |-> 0, used |-> 0, read |-> 0] \in CallState
    BY <1>1, <2>6, <2>7 DEF CallState
  <2>10. calls' \in [Callers -> CallState]
    BY <2>4, <2>9
  <2>11. CallsRouted'
    BY <1>s, <2>1, <2>4, <2>6, <2>7 DEF WithChildren
  <2> QED BY <1>s, <2>1, <2>2, <2>10, <2>11
<1>8. ASSUME NEW c \in Callers, ToolAnswers(c) \/ PromptEnds(c)
      PROVE  ToolsTyped' /\ CallsRouted'
  <2>1. UNCHANGED <<setup, servers, closed, phase, at, stage, stats, spent, lost, made>>
        /\ calls' = [calls EXCEPT ![c] = Idle]
    BY <1>8 DEF ToolAnswers, PromptEnds
  <2>2. calls' \in [Callers -> CallState]
    BY <2>1 DEF CallState, Idle
  <2>3. CallsRouted'
    BY <1>s, <2>1 DEF Idle, WithChildren
  <2>4. ToolsTyped'
    BY <1>s, <2>1, <2>2
  <2> QED BY <2>3, <2>4
<1>9. ASSUME NEW c \in Callers, StartChildren(c)
      PROVE  ToolsTyped' /\ CallsRouted'
  <2>1. UNCHANGED <<setup, servers, closed, phase, at, stage, stats, spent, lost, made>>
        /\ calls[c].pc = "children"
        /\ (calls' = [calls EXCEPT ![c] = Idle] \/ calls' = [calls EXCEPT ![c].started = @ + 1])
    BY <1>9 DEF StartChildren
  <2>2. CASE calls' = [calls EXCEPT ![c] = Idle]
    BY <1>s, <2>1, <2>2 DEF CallState, Idle, WithChildren
  <2>3. CASE calls' = [calls EXCEPT ![c].started = @ + 1]
    <3>1. calls[c].started + 1 \in Nat
      BY DEF CallState
    <3>2. calls' \in [Callers -> CallState]
      BY <2>3, <3>1, CallUpdated DEF CallState
    <3>3. CallsRouted'
      BY <1>s, <2>1, <2>3 DEF CallState, WithChildren
    <3> QED BY <1>s, <2>1, <3>2, <3>3
  <2> QED BY <2>1, <2>2, <2>3
<1>10. ASSUME NEW c \in Callers, RunChild(c)
       PROVE  ToolsTyped' /\ CallsRouted'
  <2>1. PICK n \in 0..MaxSpend, ok \in BOOLEAN :
       /\ spent' = [spent EXCEPT ![calls[c].ref] = @ + n]
       /\ lost' = [lost EXCEPT ![calls[c].ref] = IF ok THEN @ ELSE @ + n]
       /\ calls' = [calls EXCEPT ![c].pc = IF ok THEN "adding" ELSE "returning", ![c].used = n]
    BY <1>10 DEF RunChild
  <2>2. UNCHANGED <<setup, servers, closed, phase, at, stage, stats, made>> /\ calls[c].pc = "children" /\ n \in Nat
    BY <1>1, <1>10 DEF RunChild
  <2>3. PICK pc \in {"adding", "returning"} : calls' = [calls EXCEPT ![c].pc = pc, ![c].used = n]
    BY <2>1
  <2>4. calls' \in [Callers -> CallState]
    BY <2>2, <2>3, CallUpdated DEF CallState
  <2>5. CallsRouted'
    BY <1>s, <2>2, <2>3 DEF CallState, WithChildren
  <2>6. calls[c].ref \in DOMAIN refs
    BY <2>2 DEF WithChildren
  <2>7. spent' \in [DOMAIN refs -> Nat]
    BY <2>1, <2>2, <2>6
  <2>8. lost' \in [DOMAIN refs -> Nat]
    <3>1. CASE ok
      <4>1. lost' = [lost EXCEPT ![calls[c].ref] = lost[calls[c].ref]]
        BY <2>1, <3>1
      <4> QED BY <4>1
    <3>2. CASE ~ok
      <4>1. lost' = [lost EXCEPT ![calls[c].ref] = @ + n]
        BY <2>1, <3>2
      <4> QED BY <2>2, <2>6, <4>1
    <3> QED BY <3>1, <3>2
  <2> QED BY <1>s, <2>2, <2>4, <2>5, <2>7, <2>8
<1>11. ASSUME NEW c \in Callers, ReadStats(c)
       PROVE  ToolsTyped' /\ CallsRouted'
  <2>1. UNCHANGED <<setup, servers, closed, phase, at, stage, stats, spent, lost, made>> /\ calls[c].pc = "adding"
        /\ calls' = [calls EXCEPT ![c].pc = "writing", ![c].read = stats[calls[c].ref]]
    BY <1>11 DEF ReadStats
  <2>2. stats[calls[c].ref] \in Nat
    BY <2>1 DEF WithChildren
  <2>3. calls' \in [Callers -> CallState]
    BY <2>1, <2>2, CallUpdated DEF CallState
  <2>4. CallsRouted'
    BY <1>s, <2>1 DEF CallState, WithChildren
  <2> QED BY <1>s, <2>1, <2>3, <2>4
<1>12. ASSUME NEW c \in Callers, WriteStats(c)
       PROVE  ToolsTyped' /\ CallsRouted'
  <2>1. UNCHANGED <<setup, servers, closed, phase, at, stage, spent, lost, made>> /\ calls[c].pc = "writing"
        /\ calls' = [calls EXCEPT ![c].pc = "returning"]
        /\ stats' = [stats EXCEPT ![calls[c].ref] = calls[c].read + calls[c].used]
    BY <1>12 DEF WriteStats, Goto
  <2>2. calls[c].read + calls[c].used \in Nat
    BY DEF CallState
  <2> QED BY <1>s, <2>1, <2>2 DEF CallState, WithChildren
<1>13. ASSUME NEW c \in Callers, CloseChildren(c)
       PROVE  ToolsTyped' /\ CallsRouted'
  <2>0. UNCHANGED <<setup, servers, closed, phase, at, stage, stats, spent, lost, made>>
    BY <1>13 DEF CloseChildren
  <2>1. calls' = calls \/ calls' = [calls EXCEPT ![c] = Idle]
    BY <1>13 DEF CloseChildren
  <2>2. calls' \in [Callers -> CallState]
    <3>1. Idle \in CallState
      BY DEF CallState, Idle
    <3> QED BY <2>1, <3>1
  <2>3. CallsRouted'
    BY <1>s, <2>0, <2>1 DEF Idle, WithChildren
  <2> QED BY <1>s, <2>0, <2>2, <2>3
<1>14. CASE UNCHANGED toolsVars
  BY <1>14, <1>s DEF toolsVars
<1> QED BY <1>2, <1>3, <1>4, <1>5, <1>6, <1>7, <1>8, <1>9, <1>10, <1>11, <1>12, <1>13, <1>14, ToolsCases

-----------------------------------------------------------------------------

(***************************************************************************)
(* The palette's tools are names.                                          *)
(***************************************************************************)
LEMMA PaletteToolsTyped == SetupsAssumption => PaletteTools \in Seq(Name)
<1> SUFFICES ASSUME SetupsAssumption PROVE PaletteTools \in Seq(Name)
  OBVIOUS
<1> DEFINE first == [i \in DOMAIN componentTools |-> <<componentTools[i][1]>>]
           last == << <<"palette_update">>, <<"palette_clear">> >>
<1>1. DOMAIN componentTools = 1..10
  BY DEF componentTools
<1>2. ASSUME NEW x \in Parts PROVE <<x>> \in Name
  <2>1. <<x>> \in Seq(Parts) /\ <<x>> # << >>
    OBVIOUS
  <2> QED BY <2>1 DEF Name
<1>3. \A i \in 1..10 : componentTools[i][1] \in Parts
  BY <1>1 DEF SetupsAssumption, PaletteParts
<1>4. first \in [1..10 -> Name]
  BY <1>1, <1>2, <1>3
<1>5. first \in Seq(Name)
  BY <1>4
<1>6. last \in Seq(Name)
  <2>1. <<"palette_update">> \in Name /\ <<"palette_clear">> \in Name
    BY <1>2 DEF SetupsAssumption, PaletteParts
  <2> QED BY <2>1
<1> HIDE DEF first, last
<1>7. first \o last \in Seq(Name)
  BY <1>5, <1>6
<1> QED BY <1>7 DEF PaletteTools, first, last

(***************************************************************************)
(* What a server offers, filtered or not, are names.                       *)
(***************************************************************************)
LEMMA ToolsNamed ==
  ASSUME SetupsAssumption, NEW ref \in ServerRef, NEW i \in DOMAIN Tools(ref)
  PROVE  Tools(ref)[i] \in Name
<1>0. ref.offers \in Seq(Name) /\ ref.kind \in {"command", "agent", "palette"}
  BY DEF ServerRef
<1>1. CASE ref.kind = "command"
  <2>1. Tools(ref) = FilterTools(ref)
    BY <1>1 DEF Tools
  <2>2. i \in DOMAIN ref.offers /\ FilterTools(ref)[i] = ref.offers[i]
    BY <2>1 DEF FilterTools, RestrictValues, Restrict
  <2> QED BY <1>0, <2>1, <2>2
<1>2. CASE ref.kind = "palette"
  <2>1. Tools(ref) = PaletteTools
    BY <1>2 DEF Tools
  <2> QED BY <2>1, PaletteToolsTyped
<1>3. CASE ref.kind = "agent"
  <2>1. Tools(ref) = ref.offers
    BY <1>3 DEF Tools
  <2> QED BY <1>0, <2>1
<1> QED BY <1>0, <1>1, <1>2, <1>3

(***************************************************************************)
(* A name of one part in front of another name.                            *)
(***************************************************************************)
LEMMA ConcatOne ==
  ASSUME NEW S, NEW p \in Seq(S), NEW q \in Seq(S), Len(p) = 1
  PROVE  /\ p \o q \in Seq(S) /\ Len(p \o q) = 1 + Len(q) /\ (p \o q)[1] = p[1]
         /\ \A j \in 1..Len(q) : (p \o q)[j + 1] = q[j]
<1>1. p \o q \in Seq(S) /\ Len(p \o q) = Len(p) + Len(q)
  BY ConcatProperties, Zenon
<1>2. \A i \in 1 .. Len(p) + Len(q) : (p \o q)[i] = IF i <= Len(p) THEN p[i] ELSE q[i - Len(p)]
  BY ConcatProperties, Zenon
<1>3. Len(p) \in Nat /\ Len(q) \in Nat
  OBVIOUS
<1>4. ASSUME NEW j \in 1..Len(q), NEW i, i = j + 1 PROVE (p \o q)[i] = q[j]
  <2>1. i \in 1..Len(p) + Len(q) /\ ~(i <= Len(p)) /\ i - Len(p) = j
    BY <1>3, <1>4
  <2>2. (p \o q)[i] = IF i <= Len(p) THEN p[i] ELSE q[i - Len(p)]
    BY <1>2, <2>1, Zenon
  <2> QED BY <2>1, <2>2
<1> QED BY <1>1, <1>2, <1>3, <1>4

(***************************************************************************)
(* In a state of these types the names that are offered lead to their      *)
(* servers. Nothing more is needed: AllTools and CallTool read the same    *)
(* list.                                                                   *)
(***************************************************************************)
LEMMA OffersAreRouted == SetupsAssumption /\ ToolsTyped => OffersRouted
<1> SUFFICES ASSUME SetupsAssumption, ToolsTyped, NEW t \in AllTools
             PROVE  /\ PlainNames /\ (setup.namespacing = "never" => ~HasCollisions) =>
                         Route(t.name) = [server |-> t.server, tool |-> t.tool]
                    /\ Route(t.name) = NotFound => Namespaced /\ Len(NameOf(t.server)) > 1
  BY DEF OffersRouted
<1>0. setup \in Setups
  BY DEF ToolsTyped
<1>k. PICK k \in DOMAIN servers : \E tool \in ToSet(servers[k].tools) :
        t = [server |-> k, tool |-> tool, name |-> IF Namespaced THEN NameOf(k) \o tool ELSE tool]
  BY DEF AllTools
<1>1. PICK tool \in ToSet(servers[k].tools) :
        t = [server |-> k, tool |-> tool, name |-> IF Namespaced THEN NameOf(k) \o tool ELSE tool]
  BY <1>k
<1>2. PICK i \in DOMAIN servers[k].tools : tool = servers[k].tools[i]
  BY <1>1 DEF ToSet
<1>3. servers[k].ref \in DOMAIN refs /\ servers[k].tools = Tools(refs[servers[k].ref])
      /\ refs[servers[k].ref] \in ServerRef
  BY <1>0, EntryTyped, SetupTyped
<1>4. tool \in Name
  BY <1>2, <1>3, ToolsNamed
<1>5. NameOf(k) \in Name
  BY <1>3 DEF NameOf, ServerRef
<1>6. k \in Nat \ {0}
  BY DEF ToolsTyped
<1>7. k \in Listing(tool)
  BY <1>2 DEF Listing
<1> DEFINE name == t.name
<1>8. t.server = k /\ t.tool = tool /\ name = IF Namespaced THEN NameOf(k) \o tool ELSE tool
  BY <1>1
<1> HIDE DEF name
<1>9. ASSUME Namespaced, Len(NameOf(k)) = 1
      PROVE  k \in Prefixed(name) /\ Tail(name) = tool /\ NameOf(k) = <<Head(name)>>
  <2>1. NameOf(k) \in Seq(Parts) /\ tool \in Seq(Parts) /\ Len(tool) \in Nat \ {0} /\ tool # << >>
    BY <1>4, <1>5 DEF Name
  <2>2. name = NameOf(k) \o tool
    BY <1>8, <1>9
  <2>3. name \in Seq(Parts) /\ Len(name) = 1 + Len(tool) /\ name[1] = NameOf(k)[1]
        /\ \A j \in 1..Len(tool) : name[j + 1] = tool[j]
    BY <1>9, <2>1, <2>2, ConcatOne
  <2>4. Head(name) = name[1] /\ Len(name) > 1
    BY <2>1, <2>3
  <2>5. NameOf(k) = <<NameOf(k)[1]>>
    BY <1>9, <2>1
  <2>6. NameOf(k) = <<Head(name)>>
    BY <2>3, <2>4, <2>5
  <2>7. Tail(name) \in Seq(Parts) /\ Len(Tail(name)) = Len(tool) /\ \A j \in 1..Len(tool) : Tail(name)[j] = tool[j]
    BY <2>1, <2>3, <2>4
  <2>8. Tail(name) = tool
    BY <2>1, <2>7, SeqEqual
  <2> QED BY <2>4, <2>6, <2>8 DEF Prefixed
<1>10. Route(name) = NotFound => Namespaced /\ Len(NameOf(k)) > 1
  <2> SUFFICES ASSUME Route(name) = NotFound PROVE Namespaced /\ Len(NameOf(k)) > 1
    OBVIOUS
  <2>1. Prefixed(name) = {} /\ Listing(name) = {}
    <3>1. Route(name).server = 0
      BY DEF NotFound
    <3>2. \A j \in DOMAIN servers : j # 0
      BY DEF ToolsTyped
    <3>3. Prefixed(name) \subseteq DOMAIN servers /\ Listing(name) \subseteq DOMAIN servers
      BY DEF Prefixed, Listing
    <3>4. ASSUME NEW a, NEW b, NEW e, [server |-> a, tool |-> b] = e PROVE e.server = a
      BY <3>4
    <3> QED BY <3>1, <3>2, <3>3, <3>4, RouteTyped
  <2>2. Namespaced
    BY <1>7, <1>8, <2>1
  <2>3. Len(NameOf(k)) \in Nat \ {0}
    BY <1>5 DEF Name
  <2>4. Len(NameOf(k)) # 1
    BY <1>9, <2>1, <2>2
  <2>5. \A n \in Nat \ {0} : n # 1 => n > 1
    OBVIOUS
  <2> QED BY <2>2, <2>3, <2>4, <2>5
<1>11. ASSUME PlainNames, setup.namespacing = "never" => ~HasCollisions
       PROVE  Route(name) = [server |-> k, tool |-> tool]
  <2>1. CASE Namespaced
    <3>1. k \in Prefixed(name) /\ Tail(name) = tool /\ NameOf(k) = <<Head(name)>>
      BY <1>9, <1>11, <2>1 DEF PlainNames
    <3>2. First(Prefixed(name)) \in Prefixed(name) /\ Route(name) = [server |-> First(Prefixed(name)), tool |-> Tail(name)]
      BY <3>1, RouteTyped
    <3>3. \A j \in Prefixed(name) : j = k
      BY <1>11, <3>1 DEF Prefixed, PlainNames
    <3>4. First(Prefixed(name)) = k
      BY <3>2, <3>3
    <3> QED BY <3>1, <3>2, <3>4
  <2>2. CASE ~Namespaced
    <3>1. name = tool
      BY <1>8, <2>2
    <3>2. Prefixed(name) = {}
      BY <1>2, <1>11, <2>2, <3>1 DEF PlainNames
    <3>3. ~HasCollisions
      <4>1. setup.namespacing \in {"auto", "always", "never"}
        BY <1>0, SetupTyped DEF Setup
      <4> QED BY <1>11, <2>2, <4>1 DEF Namespaced
    <3>4. \A j \in Listing(name) : j = k
      <4> SUFFICES ASSUME NEW j \in Listing(name), j # k PROVE FALSE
        OBVIOUS
      <4>1. PICK l \in DOMAIN servers[j].tools : servers[j].tools[l] = tool
        BY <3>1 DEF Listing
      <4>2. <<j, l>> # <<k, i>> /\ j \in DOMAIN servers
        BY DEF Listing
      <4> QED BY <1>2, <3>3, <4>1, <4>2 DEF HasCollisions
    <3>5. First(Listing(name)) = k
      BY <1>7, <3>1, <3>4, RouteTyped
    <3> QED BY <1>7, <3>1, <3>2, <3>5, RouteTyped
  <2> QED BY <2>1, <2>2
<1> QED BY <1>8, <1>10, <1>11 DEF name

(***************************************************************************)
(* A tool that is offered to the model can be called, for every            *)
(* configuration: with plain and different server names its name leads to  *)
(* its server and tool, and a name that leads nowhere is one qualified by a*)
(* server name with a dot.                                                 *)
(***************************************************************************)
THEOREM OffersReachTheirServer == ToolsSpec => []OffersRouted
<1>1. ToolsSpec => [](ToolsTyped /\ CallsRouted)
  BY SetupsAssumption, ToolsTypesInit, ToolsTypesStep, PTL DEF ToolsSpec
<1> QED BY <1>1, SetupsAssumption, OffersAreRouted, PTL

-----------------------------------------------------------------------------

\* What StartServer has under way, and what was told to end.
StartingInOrder ==
  /\ phase \in {"starting", "running"} => closed = 0
  /\ phase = "exited" => servers = << >>
  /\ stage # "none" => Starting
  /\ stage \in {"files", "built"} => Sandboxed(at)
  /\ files = IF stage # "none" /\ Sandboxed(at) THEN Own \cup Temporary ELSE Own
  /\ stage = "failed" => ServerAt(at) \in told
  /\ \A k \in DOMAIN servers : k <= closed => ServerAt(servers[k].ref) \in told

\* Only serve's calls outlast the closing.
CallsInOrder ==
  phase = "starting" \/ (~setup.serve /\ phase \in {"closing", "exited"}) =>
    \A c \in Callers : calls[c].pc = "idle"

\* Every direct child is in use, and what is behind it, unless that was told to
\* end and is not waited for.
ProcessesOwned ==
  /\ alive \subseteq InUse
  /\ \A o \in behind : o[2] \in DOMAIN refs /\ RefOf(o).behind # "nothing"
  /\ \A o \in behind \ InUse : o \in told /\ RefOf(o).behind = "detached"

\* The inductive invariant of starting and closing.
ProcessInv == ToolsTyped /\ CallsRouted /\ StartingInOrder /\ CallsInOrder /\ ProcessesOwned

(***************************************************************************)
(* Nothing is started yet.                                                 *)
(***************************************************************************)
LEMMA ProcessesInit == SetupsAssumption /\ ToolsInit => ProcessInv
<1> SUFFICES ASSUME SetupsAssumption, ToolsInit PROVE ProcessInv
  OBVIOUS
<1> USE DEF ToolsInit
<1>1. StartingInOrder
  BY DEF StartingInOrder
<1>2. CallsInOrder
  BY DEF CallsInOrder, Idle
<1>3. ProcessesOwned
  BY DEF ProcessesOwned
<1> QED BY <1>1, <1>2, <1>3, ToolsTypesInit DEF ProcessInv

(***************************************************************************)
(* Steps of starting and closing keep the files with the server that is    *)
(* being started, and what is closed was told to end.                      *)
(***************************************************************************)
LEMMA StartStep ==
  ASSUME SetupsAssumption, ProcessInv,
         \/ WriteFiles \/ Build \/ Spawn \/ Fail \/ Skip \/ Register \/ Ready
         \/ Quit \/ CloseViewer \/ CloseNext \/ Exit \/ ProcessEnds
  PROVE  StartingInOrder' /\ CallsInOrder'
<1> USE DEF ProcessInv, ToolsTyped, starting, calling, processVars
<1>1. Len(refs) \in Nat /\ DOMAIN refs = 1..Len(refs) /\ Len(servers) \in Nat /\ DOMAIN servers = 1..Len(servers)
  BY SetupTyped
<1>2. Own \cap Temporary = {} /\ (UNCHANGED setup => refs' = refs /\ Own' = Own /\ Temporary' = Temporary)
  BY DEF Own, Temporary, refs
<1>3. UNCHANGED <<setup, calls>>
  BY DEF WriteFiles, Build, Spawn, Fail, Skip, Register, Ready, Quit, CloseViewer, CloseNext, Exit, ProcessEnds
<1>c. CallsInOrder'
  <2>1. phase' = "starting" \/ (~setup.serve /\ phase' \in {"closing", "exited"}) =>
          \/ phase = "starting" \/ (~setup.serve /\ phase \in {"closing", "exited"})
          \/ \A c \in Callers : calls[c].pc = "idle"
    BY DEF WriteFiles, Build, Spawn, Fail, Skip, Register, Ready, Quit, CloseViewer, CloseNext, Exit, ProcessEnds
  <2> QED BY <1>3, <2>1 DEF CallsInOrder
<1>4. CASE WriteFiles \/ Build \/ Spawn \/ Fail \/ ProcessEnds
  <2>1. UNCHANGED <<phase, at, servers, closed>> /\ told \subseteq told'
    BY <1>4 DEF WriteFiles, Build, Spawn, Fail, ProcessEnds, Tell
  <2>2. Starting' = Starting /\ \A i : Sandboxed(i)' = Sandboxed(i) /\ ServerAt(i)' = ServerAt(i)
    BY <1>2, <1>3, <2>1 DEF Starting, Sandboxed, ServerAt
  <2>3. CASE WriteFiles
    BY <1>2, <1>3, <1>c, <2>1, <2>2, <2>3 DEF WriteFiles, StartingInOrder
  <2>4. CASE Build
    BY <1>2, <1>3, <1>c, <2>1, <2>2, <2>4 DEF Build, StartingInOrder
  <2>5. CASE Spawn
    BY <1>2, <1>3, <1>c, <2>1, <2>2, <2>5 DEF Spawn, StartingInOrder
  <2>6. CASE Fail
    BY <1>2, <1>3, <1>c, <2>1, <2>2, <2>6 DEF Fail, Tell, StartingInOrder
  <2>7. CASE ProcessEnds
    BY <1>2, <1>3, <1>c, <2>1, <2>2, <2>7 DEF ProcessEnds, StartingInOrder
  <2> QED BY <1>4, <2>3, <2>4, <2>5, <2>6, <2>7
<1>5. CASE Skip \/ Register
  <2>1. /\ Starting /\ at' = at + 1 /\ stage' = "none" /\ FilesRemoved /\ UNCHANGED <<phase, closed, told>>
        /\ closed = 0
    BY <1>5 DEF Skip, Register, Starting, StartingInOrder
  <2>2. files' = Own
    BY <1>2, <2>1 DEF FilesRemoved, StartingInOrder
  <2>3. \A k \in DOMAIN servers' : ~(k <= closed')
    <3>1. servers' = servers \/ servers' = Append(servers, [ref |-> at, tools |-> Tools(refs[at])])
      BY <1>5 DEF Skip, Register
    <3>2. DOMAIN servers' \subseteq 1..(Len(servers) + 1)
      BY <1>1, <3>1
    <3> QED BY <1>1, <2>1, <3>2
  <2> QED BY <1>2, <1>3, <1>c, <2>1, <2>2, <2>3 DEF StartingInOrder, Starting
<1>6. CASE Ready \/ Quit \/ CloseViewer \/ CloseNext \/ Exit
  <2>1. /\ phase' # "starting" /\ UNCHANGED <<at, stage, files>> /\ told \subseteq told'
        /\ (phase' = "running" => phase = "starting" /\ closed' = closed)
    BY <1>6 DEF Ready, Quit, CloseViewer, CloseNext, Exit, Tell
  <2>2. stage = "none"
    <3>1. phase = "starting" => ~(at \in DOMAIN refs)
      BY <1>1, <1>6 DEF Ready, Quit, CloseViewer, CloseNext, Exit
    <3> QED BY <3>1 DEF StartingInOrder, Starting
  <2>3. (servers' = servers /\ phase' # "exited") \/ servers' = << >>
    BY <1>6 DEF Ready, Quit, CloseViewer, CloseNext, Exit
  <2>4. \A k \in DOMAIN servers' : k <= closed' => ServerAt(servers'[k].ref) \in told'
    <3>1. CASE servers' = << >>
      BY <3>1
    <3>2. CASE servers' = servers /\ closed' = closed
      BY <2>1, <3>2 DEF StartingInOrder
    <3>3. CASE CloseNext
      <4>1. servers' = servers /\ closed' = closed + 1 /\ ServerAt(servers[closed + 1].ref) \in told'
        BY <3>3 DEF CloseNext, Tell
      <4>2. \A k \in DOMAIN servers : k <= closed + 1 => k <= closed \/ k = closed + 1
        BY <1>1
      <4> QED BY <2>1, <4>1, <4>2 DEF StartingInOrder
    <3> QED BY <1>6, <3>1, <3>2, <3>3 DEF Ready, Quit, CloseViewer, Exit
  <2> QED BY <1>2, <1>3, <1>c, <2>1, <2>2, <2>3, <2>4 DEF StartingInOrder
<1> QED BY <1>4, <1>5, <1>6

(***************************************************************************)
(* The parts of InUse.                                                     *)
(***************************************************************************)
InList(o) == \E k \in DOMAIN servers : k >= closed /\ o = ServerAt(servers[k].ref)
InStart(o) == stage \in {"process", "failed"} /\ o = ServerAt(at)
InCall(o) == \E c \in Callers : calls[c].pc \in WithChildren /\ o \in Children(c)

LEMMA InUseParts ==
  /\ \A o : o \in InUse <=> InList(o) \/ InStart(o) \/ InCall(o)
  /\ \A o : o \in InUse' <=> InList(o)' \/ InStart(o)' \/ InCall(o)'
<1>1. \A o : o \in InUse <=> InList(o) \/ InStart(o) \/ InCall(o)
  BY DEF InUse, InList, InStart, InCall, WithChildren
<1>2. \A o : o \in InUse' <=> InList(o)' \/ InStart(o)' \/ InCall(o)'
  BY DEF InUse, InList, InStart, InCall, WithChildren
<1> QED BY <1>1, <1>2

(***************************************************************************)
(* Processes keep their owners if what is no longer in use was told to end *)
(* and has been waited for.                                                *)
(***************************************************************************)
LEMMA OwnersKept ==
  ASSUME SetupsAssumption, ToolsTyped, ProcessesOwned, UNCHANGED setup, told \subseteq told',
         \A o \in alive' : o \in alive \/ o \in InUse',
         \A o \in behind' : o \in behind \/ (o \in InUse' /\ o[2] \in DOMAIN refs /\ RefOf(o).behind # "nothing"),
         \A o \in InUse \cap (alive \cup behind) : o \in InUse' \/ (o \in told /\ Waited(o))
  PROVE  ProcessesOwned'
<1>1. refs' = refs /\ \A o : RefOf(o)' = RefOf(o)
  BY DEF refs, RefOf
<1>2. \A i \in DOMAIN refs : refs[i].behind \in {"nothing", "attached", "detached"}
  BY SetupTyped DEF ToolsTyped, ServerRef
<1>3. alive' \subseteq InUse'
  BY DEF ProcessesOwned, Waited
<1>4. \A o \in behind' : o[2] \in DOMAIN refs /\ RefOf(o).behind # "nothing"
  BY DEF ProcessesOwned
<1>5. ASSUME NEW o \in behind', o \notin InUse' PROVE o \in told' /\ RefOf(o).behind = "detached"
  <2>1. o \in behind /\ o[2] \in DOMAIN refs /\ RefOf(o).behind # "nothing"
    BY <1>4, <1>5
  <2>2. CASE o \notin InUse
    BY <2>1, <2>2 DEF ProcessesOwned
  <2>3. CASE o \in InUse
    <3>1. o \in told /\ Waited(o)
      BY <1>5, <2>3
    <3>2. RefOf(o).behind # "attached"
      BY <2>1, <3>1 DEF Waited
    <3> QED BY <1>2, <2>1, <3>1, <3>2 DEF RefOf
  <2> QED BY <2>2, <2>3
<1> QED BY <1>1, <1>3, <1>4, <1>5 DEF ProcessesOwned

(***************************************************************************)
(* Every step of starting leaves each process with its owner.              *)
(***************************************************************************)
LEMMA OwnedInStart ==
  ASSUME SetupsAssumption, ProcessInv,
         WriteFiles \/ Build \/ Spawn \/ Fail \/ Skip \/ Register \/ Ready
  PROVE  ProcessesOwned'
<1> USE DEF ProcessInv, starting, calling, processVars
<1>1. Len(refs) \in Nat /\ DOMAIN refs = 1..Len(refs) /\ Len(servers) \in Nat /\ DOMAIN servers = 1..Len(servers)
  BY SetupTyped DEF ToolsTyped
<1>2. UNCHANGED <<setup, calls>> /\ refs' = refs /\ closed = 0 /\ closed' = 0 /\ told \subseteq told'
  BY DEF WriteFiles, Build, Spawn, Fail, Skip, Register, Ready, refs, StartingInOrder, Starting, Tell
<1>3. \A o : InCall(o)' <=> InCall(o)
  BY <1>2 DEF InCall, Children, Child
<1>4. UNCHANGED servers => \A o : InList(o)' <=> InList(o)
  BY <1>2 DEF InList, ServerAt
<1>5. CASE WriteFiles \/ Build \/ Ready
  <2>1. UNCHANGED <<alive, behind, servers, at>> /\ stage \notin {"process", "failed"}
    BY <1>1, <1>5 DEF WriteFiles, Build, Ready, StartingInOrder, Starting
  <2>2. \A o : ~InStart(o)
    BY <2>1 DEF InStart
  <2>3. \A o \in InUse : o \in InUse'
    BY <1>3, <1>4, <2>1, <2>2, InUseParts
  <2> QED BY <1>2, <2>1, <2>3, OwnersKept
<1>6. CASE Spawn
  <2>1. UNCHANGED <<servers, at>> /\ at \in DOMAIN refs /\ stage \notin {"process", "failed"} /\ stage' = "process"
        /\ Spawned(ServerAt(at))
    BY <1>6 DEF Spawn, Starting
  <2>2. \A o : ~InStart(o) /\ (InStart(o)' <=> o = ServerAt(at))
    BY <2>1 DEF InStart, ServerAt
  <2>3. \A o \in InUse : o \in InUse'
    BY <1>3, <1>4, <2>1, <2>2, InUseParts
  <2>4. ServerAt(at) \in InUse'
    BY <2>2, InUseParts
  <2>5. ServerAt(at)[2] = at
    BY DEF ServerAt
  <2>6. /\ \A o \in alive' : o \in alive \/ o \in InUse'
        /\ \A o \in behind' : o \in behind \/ (o \in InUse' /\ o[2] \in DOMAIN refs /\ RefOf(o).behind # "nothing")
    BY <2>1, <2>4, <2>5 DEF Spawned
  <2> QED BY <1>2, <2>3, <2>6, OwnersKept
<1>7. CASE Fail
  <2>1. UNCHANGED <<alive, behind, servers, at>> /\ stage' = "failed"
    BY <1>7 DEF Fail
  <2>2. \A o : InStart(o) => InStart(o)'
    BY <2>1 DEF InStart, ServerAt
  <2>3. \A o \in InUse : o \in InUse'
    BY <1>3, <1>4, <2>1, <2>2, InUseParts
  <2> QED BY <1>2, <2>1, <2>3, OwnersKept
<1>8. CASE Skip
  <2>1. UNCHANGED <<alive, behind, servers>> /\ (stage = "failed" => Waited(ServerAt(at))) /\ stage # "process"
    BY <1>8 DEF Skip
  <2>2. \A o : InStart(o) => o \in told /\ Waited(o)
    BY <2>1 DEF InStart, StartingInOrder
  <2>3. \A o \in InUse : o \in InUse' \/ (o \in told /\ Waited(o))
    BY <1>3, <1>4, <2>1, <2>2, InUseParts
  <2> QED BY <1>2, <2>1, <2>3, OwnersKept
<1>9. CASE Register
  <2> DEFINE entry == [ref |-> at, tools |-> Tools(refs[at])]
  <2>1. UNCHANGED <<alive, behind>> /\ stage # "failed" /\ servers' = Append(servers, entry)
    BY <1>9 DEF Register
  <2>2. entry.ref = at
    OBVIOUS
  <2> HIDE DEF entry
  <2>3. /\ DOMAIN servers' = 1..(Len(servers) + 1)
        /\ \A k \in 1..Len(servers) : servers'[k] = servers[k]
        /\ servers'[Len(servers) + 1] = entry
    BY <1>1, <2>1 DEF ToolsTyped
  <2>4. \A o : InList(o) => InList(o)'
    BY <1>1, <1>2, <2>3 DEF InList, ServerAt
  <2>5. \A o : InStart(o) => InList(o)'
    <3>1. Len(servers) + 1 \in DOMAIN servers' /\ Len(servers) + 1 >= closed' /\ servers'[Len(servers) + 1].ref = at
      BY <1>1, <1>2, <2>2, <2>3
    <3> QED BY <3>1 DEF InStart, InList, ServerAt
  <2>6. \A o \in InUse : o \in InUse'
    BY <1>3, <2>4, <2>5, InUseParts
  <2> QED BY <1>2, <2>1, <2>6, OwnersKept
<1> QED BY <1>5, <1>6, <1>7, <1>8, <1>9

(***************************************************************************)
(* So does every step of closing, and every end of a process.              *)
(***************************************************************************)
LEMMA OwnedInEnd ==
  ASSUME SetupsAssumption, ProcessInv, Quit \/ CloseViewer \/ CloseNext \/ Exit \/ ProcessEnds
  PROVE  ProcessesOwned'
<1> USE DEF ProcessInv, starting, calling, processVars
<1>1. Len(servers) \in Nat /\ DOMAIN servers = 1..Len(servers) /\ closed \in Nat /\ closed <= Len(servers)
  BY DEF ToolsTyped
<1>2. UNCHANGED <<setup, stage, at, calls>> /\ refs' = refs /\ told \subseteq told'
      /\ alive' \subseteq alive /\ behind' \subseteq behind
  BY DEF Quit, CloseViewer, CloseNext, Exit, ProcessEnds, ChildEnds, BehindEnds, refs, Tell
<1>3. \A o : (InCall(o)' <=> InCall(o)) /\ (InStart(o)' <=> InStart(o))
  BY <1>2 DEF InCall, InStart, Children, Child, ServerAt
<1>4. \A o : InList(o) => InList(o)' \/ (o \in told /\ Waited(o))
  <2>1. CASE UNCHANGED <<servers, closed>>
    BY <2>1 DEF InList, ServerAt
  <2>2. CASE (CloseNext \/ Exit) /\ closed >= 0
    <3>0. \/ CloseNext /\ servers' = servers /\ closed' = closed + 1
          \/ closed = Len(servers)
      BY <2>2 DEF CloseNext, Exit
    <3>1. ServersWaited
      BY <2>2 DEF CloseNext, Exit
    <3>2. ASSUME NEW k \in 1..Len(servers), k = closed
          PROVE  ServerAt(servers[k].ref) \in told /\ Waited(ServerAt(servers[k].ref))
      <4>1. ServerAt(servers[k].ref) \in told
        BY <1>1, <3>2 DEF StartingInOrder
      <4>2. ServerAt(servers[k].ref)[1] = "server"
        BY DEF ServerAt
      <4> QED BY <3>1, <4>1, <4>2 DEF ServersWaited
    <3>3. ASSUME NEW k \in 1..Len(servers), k >= closed, k # closed, NEW o, o = ServerAt(servers[k].ref)
          PROVE  InList(o)'
      <4>1. closed # Len(servers) /\ k >= closed + 1
        <5>1. \A n, m \in Nat : k \in 1..n /\ k >= m /\ k # m => m # n /\ k >= m + 1
          OBVIOUS
        <5> QED BY <1>1, <3>3, <5>1
      <4>2. servers' = servers /\ closed' = closed + 1
        BY <3>0, <4>1
      <4> QED BY <1>1, <3>3, <4>1, <4>2 DEF InList, ServerAt
    <3>4. ASSUME NEW o, InList(o)
          PROVE  InList(o)' \/ (o \in told /\ Waited(o))
      <4>1. PICK k \in DOMAIN servers : k >= closed /\ o = ServerAt(servers[k].ref)
        BY <3>4 DEF InList
      <4>2. k \in 1..Len(servers)
        BY <1>1, <4>1
      <4>3. CASE k = closed
        BY <3>2, <4>1, <4>2, <4>3
      <4>4. CASE k # closed
        BY <3>3, <4>1, <4>2, <4>4
      <4> QED BY <4>3, <4>4
    <3> QED BY <3>4
  <2> QED BY <1>1, <2>1, <2>2 DEF Quit, CloseViewer, ProcessEnds
<1>5. \A o \in InUse : o \in InUse' \/ (o \in told /\ Waited(o))
  BY <1>3, <1>4, InUseParts
<1> QED BY <1>2, <1>5, OwnersKept

(***************************************************************************)
(* Calls are made and go on while the program serves them; what is left of *)
(* them after an interrupt belongs to serve.                               *)
(***************************************************************************)
LEMMA CallsInTime ==
  ASSUME CallsInOrder, NEW c \in Callers,
         \/ Call(c) \/ ToolAnswers(c) \/ PromptEnds(c) \/ StartChildren(c) \/ RunChild(c)
         \/ ReadStats(c) \/ WriteStats(c) \/ CloseChildren(c)
  PROVE  ~(phase = "starting" \/ (~setup.serve /\ phase \in {"closing", "exited"}))
<1> SUFFICES ASSUME phase = "starting" \/ (~setup.serve /\ phase \in {"closing", "exited"}) PROVE FALSE
  OBVIOUS
<1>1. calls[c].pc = "idle"
  BY DEF CallsInOrder
<1>2. ~Serving
  BY DEF Serving
<1> QED BY <1>1, <1>2 DEF Call, ToolAnswers, PromptEnds, StartChildren, RunChild, ReadStats, WriteStats, CloseChildren

(***************************************************************************)
(* A call that is made waits for a tool, an agent or the user, or is over. *)
(***************************************************************************)
LEMMA CallMade ==
  ASSUME NEW c, Call(c)
  PROVE  \E entry : calls' = [calls EXCEPT ![c] = entry] /\ entry.pc \in {"tool", "children", "prompt", "idle"}
<1>1. PICK name \in Names \cup buildToolDefs, awaitInteraction \in BOOLEAN :
     LET to == Route(name)
         ref == IF to.server = 0 THEN 0 ELSE servers[to.server].ref
         kind == IF ref = 0 THEN "none" ELSE refs[ref].kind
     IN calls' = [calls EXCEPT ![c] =
          [pc |-> CASE kind = "command" -> "tool"
                    [] kind = "agent" -> "children"
                    [] kind = "palette" /\ ShouldBlock(Head(to.tool), awaitInteraction) -> "prompt"
                    [] OTHER -> "idle",
           number |-> made + 1, ref |-> ref, started |-> 0, used |-> 0, read |-> 0]]
  BY DEF Call
<1> DEFINE to == Route(name)
           ref == IF to.server = 0 THEN 0 ELSE servers[to.server].ref
           kind == IF ref = 0 THEN "none" ELSE refs[ref].kind
           pc == CASE kind = "command" -> "tool"
                      [] kind = "agent" -> "children"
                      [] kind = "palette" /\ ShouldBlock(Head(to.tool), awaitInteraction) -> "prompt"
                      [] OTHER -> "idle"
           entry == [pc |-> pc, number |-> made + 1, ref |-> ref, started |-> 0, used |-> 0, read |-> 0]
<1>2. calls' = [calls EXCEPT ![c] = entry]
  BY <1>1
<1>3. pc \in {"tool", "children", "prompt", "idle"}
  OBVIOUS
<1> HIDE DEF pc, ref
<1>4. entry.pc \in {"tool", "children", "prompt", "idle"}
  BY <1>3
<1> HIDE DEF entry
<1> QED BY <1>2, <1>4

(***************************************************************************)
(* What a step of a call does to the call: it is made, it goes on with the *)
(* same servers, or it is over.                                            *)
(***************************************************************************)
LEMMA CallGoesOn ==
  ASSUME ToolsTyped, NEW c \in Callers,
         \/ Call(c) \/ ToolAnswers(c) \/ PromptEnds(c) \/ StartChildren(c) \/ RunChild(c)
         \/ ReadStats(c) \/ WriteStats(c) \/ CloseChildren(c)
  PROVE  /\ UNCHANGED <<setup, phase, at, stage, servers, files, closed>>
         /\ \A d \in Callers : d # c => calls'[d] = calls[d]
         /\ \/ calls[c].pc \notin WithChildren /\ UNCHANGED processVars
            \/ calls[c].pc \in WithChildren /\ calls'[c].pc \in WithChildren
               /\ calls'[c].ref = calls[c].ref /\ calls'[c].number = calls[c].number
               /\ calls'[c].started \in {calls[c].started, calls[c].started + 1}
            \/ calls'[c].pc \notin WithChildren /\ (StartChildren(c) \/ CloseChildren(c))
<1> USE DEF ToolsTyped, CallState, WithChildren, starting, calling
<1>1. CASE Call(c)
  <2>1. PICK entry : calls' = [calls EXCEPT ![c] = entry]
    BY <1>1, CallMade
  <2> QED BY <1>1, <2>1 DEF Call
<1>2. CASE ToolAnswers(c) \/ PromptEnds(c)
  BY <1>2 DEF ToolAnswers, PromptEnds
<1>3. CASE StartChildren(c)
  <2>1. UNCHANGED <<setup, phase, at, stage, servers, files, closed>> /\ calls[c].pc = "children"
    BY <1>3 DEF StartChildren
  <2>2. CASE calls' = [calls EXCEPT ![c] = Idle]
    BY <1>3, <2>1, <2>2 DEF Idle
  <2>3. CASE calls' = [calls EXCEPT ![c].started = @ + 1]
    BY <2>1, <2>3
  <2> QED BY <1>3, <2>2, <2>3 DEF StartChildren
<1>4. CASE RunChild(c)
  <2>1. PICK pc \in {"adding", "returning"}, n \in 0..MaxSpend : calls' = [calls EXCEPT ![c].pc = pc, ![c].used = n]
    BY <1>4 DEF RunChild
  <2>2. calls'[c].pc = pc /\ calls'[c].ref = calls[c].ref /\ calls'[c].number = calls[c].number /\ calls'[c].started = calls[c].started
    BY <2>1
  <2> QED BY <1>4, <2>1, <2>2 DEF RunChild
<1>5. CASE ReadStats(c)
  BY <1>5 DEF ReadStats
<1>6. CASE WriteStats(c)
  BY <1>6 DEF WriteStats, Goto
<1>7. CASE CloseChildren(c)
  <2>1. UNCHANGED <<setup, phase, at, stage, servers, files, closed>> /\ calls[c].pc = "returning"
        /\ (calls' = calls \/ calls' = [calls EXCEPT ![c] = Idle])
    BY <1>7 DEF CloseChildren
  <2> QED BY <1>7, <2>1 DEF Idle
<1> QED BY <1>1, <1>2, <1>3, <1>4, <1>5, <1>6, <1>7

(***************************************************************************)
(* A step of a call leaves the servers alone, and a call is over when its  *)
(* servers were closed and waited for.                                     *)
(***************************************************************************)
LEMMA CallKeepsProcesses ==
  ASSUME SetupsAssumption, ProcessInv, NEW c \in Callers, phase # "exited",
         \/ Call(c) \/ ToolAnswers(c) \/ PromptEnds(c) \/ StartChildren(c) \/ RunChild(c)
         \/ ReadStats(c) \/ WriteStats(c) \/ CloseChildren(c)
  PROVE  (StartingInOrder /\ CallsInOrder /\ ProcessesOwned)'
<1> USE DEF ProcessInv, starting, calling, processVars
<1>1. /\ UNCHANGED <<setup, phase, at, stage, servers, files, closed>>
      /\ \A d \in Callers : d # c => calls'[d] = calls[d]
      /\ \/ calls[c].pc \notin WithChildren /\ UNCHANGED processVars
         \/ calls[c].pc \in WithChildren /\ calls'[c].pc \in WithChildren
            /\ calls'[c].ref = calls[c].ref /\ calls'[c].number = calls[c].number
            /\ calls'[c].started \in {calls[c].started, calls[c].started + 1}
         \/ calls'[c].pc \notin WithChildren /\ (StartChildren(c) \/ CloseChildren(c))
  BY CallGoesOn
<1>2. refs' = refs /\ told \subseteq told'
  BY <1>1 DEF refs, Call, ToolAnswers, PromptEnds, StartChildren, RunChild, ReadStats, WriteStats, CloseChildren, Tell
<1>3. StartingInOrder' /\ CallsInOrder'
  <2>1. Starting' = Starting /\ Sandboxed(at)' = Sandboxed(at) /\ Own' = Own /\ Temporary' = Temporary
        /\ \A i : ServerAt(i)' = ServerAt(i)
    BY <1>1, <1>2 DEF Starting, Sandboxed, Own, Temporary, ServerAt
  <2>2. CallsInOrder'
    BY <1>1, CallsInTime DEF CallsInOrder
  <2> QED BY <1>1, <1>2, <2>1, <2>2 DEF StartingInOrder
<1>4. \A o : (InList(o)' <=> InList(o)) /\ (InStart(o)' <=> InStart(o))
  BY <1>1, <1>2 DEF InList, InStart, ServerAt
<1>5. \A d \in Callers : d # c => Children(d)' = Children(d)
  BY <1>1, <1>2 DEF Children, Child
<1>6. calls'[c].ref = calls[c].ref /\ calls'[c].number = calls[c].number
      /\ calls'[c].started \in {calls[c].started, calls[c].started + 1} =>
        /\ Children(c) \subseteq Children(c)'
        /\ calls'[c].started = calls[c].started + 1 => Child(c, calls[c].started + 1) \in Children(c)'
  <2>1. calls[c].started \in Nat
    BY DEF ToolsTyped, CallState
  <2> QED BY <1>2, <2>1 DEF Children, Child
<1>7. CASE calls[c].pc \notin WithChildren /\ UNCHANGED processVars
  <2>1. \A o : InCall(o) => InCall(o)'
    BY <1>1, <1>5, <1>7 DEF InCall
  <2>2. \A o \in InUse : o \in InUse'
    BY <1>4, <2>1, InUseParts
  <2> QED BY <1>1, <1>2, <1>3, <1>7, <2>2, OwnersKept
<1>8. CASE calls[c].pc \in WithChildren /\ calls'[c].pc \in WithChildren
           /\ calls'[c].ref = calls[c].ref /\ calls'[c].number = calls[c].number
           /\ calls'[c].started \in {calls[c].started, calls[c].started + 1}
  <2>1. \A o : InCall(o) => InCall(o)'
    BY <1>1, <1>5, <1>6, <1>8 DEF InCall
  <2>2. \A o \in InUse : o \in InUse'
    BY <1>4, <2>1, InUseParts
  <2>4. /\ \A o \in alive' : o \in alive \/ o \in InUse'
        /\ \A o \in behind' : o \in behind \/ (o \in InUse' /\ o[2] \in DOMAIN refs /\ RefOf(o).behind # "nothing")
    <3>1. CASE StartChildren(c) /\ ~ UNCHANGED processVars
      <4> DEFINE o == Child(c, calls[c].started + 1)
      <4>1. Spawned(o) /\ calls' = [calls EXCEPT ![c].started = @ + 1]
        BY <3>1 DEF StartChildren
      <4>2. calls[c].ref \in DOMAIN refs
        BY <1>8 DEF CallsRouted
      <4>3. calls'[c].started = calls[c].started + 1
        BY <4>1 DEF ToolsTyped, CallState
      <4>4. o \in InUse'
        BY <1>6, <1>8, <4>3, InUseParts DEF InCall
      <4>5. o[2] \in DOMAIN refs
        BY <4>2 DEF Child
      <4> HIDE DEF o
      <4> QED BY <4>1, <4>4, <4>5 DEF Spawned
    <3>2. CASE UNCHANGED <<alive, behind>>
      BY <3>2
    <3> QED BY <3>1, <3>2, <1>8 DEF Call, ToolAnswers, PromptEnds, StartChildren, RunChild, ReadStats, WriteStats,
                                    CloseChildren, WithChildren
  <2> QED BY <1>1, <1>2, <1>3, <2>2, <2>4, OwnersKept
<1>9. CASE calls'[c].pc \notin WithChildren /\ (StartChildren(c) \/ CloseChildren(c))
  <2>1. \A o \in Children(c) : o \in alive \cup behind => o \in told /\ Waited(o)
    <3>1. CASE StartChildren(c)
      <4>1. calls[c].pc = "children" /\ calls'[c].pc # "children"
        BY <1>9, <3>1 DEF StartChildren, WithChildren
      <4>2. calls' # [calls EXCEPT ![c].started = @ + 1]
        BY <4>1 DEF ToolsTyped, CallState
      <4>3. calls[c].started = 0
        BY <3>1, <4>2 DEF StartChildren
      <4> QED BY <4>3 DEF Children
    <3>2. CASE CloseChildren(c)
      <4>1. calls' # calls
        BY <1>9, <3>2 DEF CloseChildren, WithChildren
      <4>2. (Children(c) \cap (alive \cup behind)) \ told = {} /\ ChildrenWaited(c)
        BY <3>2, <4>1 DEF CloseChildren
      <4> QED BY <4>2 DEF ChildrenWaited
    <3> QED BY <1>9, <3>1, <3>2
  <2>2. UNCHANGED <<alive, behind>>
    <3>1. CASE StartChildren(c)
      <4>1. calls' # [calls EXCEPT ![c].started = @ + 1]
        <5>1. calls[c].pc = "children" /\ calls'[c].pc # "children"
          BY <1>9, <3>1 DEF StartChildren, WithChildren
        <5> QED BY <5>1 DEF ToolsTyped, CallState
      <4> QED BY <3>1, <4>1 DEF StartChildren
    <3> QED BY <1>9, <3>1 DEF CloseChildren
  <2>3. \A o : InCall(o) => InCall(o)' \/ o \in Children(c)
    BY <1>1, <1>5 DEF InCall
  <2>4. \A o \in InUse \cap (alive \cup behind) : o \in InUse' \/ (o \in told /\ Waited(o))
    BY <1>4, <2>1, <2>3, InUseParts
  <2> QED BY <1>1, <1>2, <1>3, <2>2, <2>4, OwnersKept
<1> QED BY <1>1, <1>7, <1>8, <1>9

(***************************************************************************)
(* The invariant of the processes is inductive.                            *)
(***************************************************************************)
LEMMA ProcessesStep == SetupsAssumption /\ ProcessInv /\ [ToolsNext]_toolsVars => ProcessInv'
<1> SUFFICES ASSUME SetupsAssumption, ProcessInv, [ToolsNext]_toolsVars PROVE ProcessInv'
  OBVIOUS
<1>1. ToolsTyped' /\ CallsRouted'
  BY ToolsTypesStep DEF ProcessInv
<1>2. CASE WriteFiles \/ Build \/ Spawn \/ Fail \/ Skip \/ Register \/ Ready
  BY <1>1, <1>2, StartStep, OwnedInStart DEF ProcessInv
<1>3. CASE Quit \/ CloseViewer \/ CloseNext \/ Exit \/ ProcessEnds
  BY <1>1, <1>3, StartStep, OwnedInEnd DEF ProcessInv
<1>4. ASSUME NEW c \in Callers, phase # "exited",
             \/ Call(c) \/ ToolAnswers(c) \/ PromptEnds(c) \/ StartChildren(c) \/ RunChild(c)
             \/ ReadStats(c) \/ WriteStats(c) \/ CloseChildren(c)
      PROVE  ProcessInv'
  BY <1>1, <1>4, CallKeepsProcesses DEF ProcessInv
<1>5. CASE UNCHANGED toolsVars
  <2>1. refs' = refs /\ Own' = Own /\ Temporary' = Temporary /\ Starting' = Starting /\ Sandboxed(at)' = Sandboxed(at)
        /\ UNCHANGED <<setup, phase, at, stage, servers, closed, alive, behind, told, files, calls>>
    BY <1>5 DEF toolsVars, processVars, refs, Own, Temporary, Starting, Sandboxed
  <2>2. StartingInOrder' /\ CallsInOrder'
    BY <2>1 DEF ProcessInv, StartingInOrder, CallsInOrder, ServerAt
  <2>3. InUse' = InUse /\ \A o : RefOf(o)' = RefOf(o)
    BY <2>1 DEF InUse, Children, Child, ServerAt, RefOf
  <2>4. ProcessesOwned'
    BY <2>1, <2>3 DEF ProcessInv, ProcessesOwned
  <2> QED BY <1>1, <2>2, <2>4 DEF ProcessInv
<1> QED BY <1>2, <1>3, <1>4, <1>5, ToolsCases

(***************************************************************************)
(* It says what is left.                                                   *)
(***************************************************************************)
LEMMA NothingLeft == SetupsAssumption /\ ProcessInv => NothingLeftBehind
<1> SUFFICES ASSUME SetupsAssumption, ProcessInv PROVE NothingLeftBehind
  OBVIOUS
<1>1. (stage = "none" => files = Own) /\ Own \subseteq files
  BY DEF ProcessInv, StartingInOrder
<1>2. phase = "exited" /\ ~setup.serve => InUse = {}
  <2> SUFFICES ASSUME phase = "exited", ~setup.serve PROVE InUse = {}
    OBVIOUS
  <2>1. servers = << >> /\ stage = "none"
    BY DEF ProcessInv, StartingInOrder, Starting
  <2>2. \A c \in Callers : calls[c].pc \notin WithChildren
    BY DEF ProcessInv, CallsInOrder, WithChildren
  <2>3. \A o : ~InList(o) /\ ~InStart(o) /\ ~InCall(o)
    BY <2>1, <2>2 DEF InList, InStart, InCall
  <2> QED BY <2>3, InUseParts
<1> QED BY <1>1, <1>2 DEF ProcessInv, ProcessesOwned, NothingLeftBehind

(***************************************************************************)
(* No direct child and no temporary file outlives its use, and what is     *)
(* behind it only if it was told to end and is not waited for, for every   *)
(* configuration, any callers and any number of calls.                     *)
(***************************************************************************)
THEOREM NothingIsLeft == ToolsSpec => []NothingLeftBehind
<1>1. ToolsSpec => []ProcessInv
  BY SetupsAssumption, ProcessesInit, ProcessesStep, PTL DEF ToolsSpec
<1> QED BY <1>1, SetupsAssumption, NothingLeft, PTL

-----------------------------------------------------------------------------

\* What a run has spent and not yet written into the counter of its agent.
Unwritten(i) ==
  [c \in Callers |-> IF calls[c].pc \in {"adding", "writing"} /\ calls[c].ref = i THEN calls[c].used ELSE 0]

\* All of it, for one agent.
Pending(i) == SumFunctionOnSet(Unwritten(i), Callers)

\* What was read, and what is in the counter, with what was lost and what is
\* still to be written.
SpendUpperBound ==
  /\ \A i \in DOMAIN refs : stats[i] + lost[i] + Pending(i) <= spent[i]
  /\ \A c \in Callers : \A i \in DOMAIN refs : calls[c].pc = "writing" /\ calls[c].ref = i =>
       calls[c].read + lost[i] + Pending(i) <= spent[i]

\* One call at a time.
SpendExact ==
  ~setup.parallel =>
    /\ \A c, d \in Callers : calls[c].pc # "idle" /\ calls[d].pc # "idle" => c = d
    /\ \A i \in DOMAIN refs : stats[i] + lost[i] + Pending(i) = spent[i]
    /\ \A c \in Callers : \A i \in DOMAIN refs : calls[c].pc = "writing" /\ calls[c].ref = i => calls[c].read = stats[i]

\* The summary is made of the counters, when they are complete.
SpendShown ==
  /\ phase = "starting" => shown = 0 /\ \A i \in DOMAIN refs : spent[i] = 0 /\ lost[i] = 0
  /\ phase = "closing" /\ ~setup.serve /\ ~setup.parallel =>
       shown \in Nat /\ shown + AggregateChildStats(lost) = AggregateChildStats(spent)

\* The inductive invariant of the counters.
SpendInv == ProcessInv /\ SpendUpperBound /\ SpendExact /\ SpendShown

(***************************************************************************)
(* What is pending is a number, and nothing when there are no calls.       *)
(***************************************************************************)
LEMMA PendingType ==
  ASSUME SetupsAssumption, ToolsTyped, NEW i
  PROVE  /\ \A c \in Callers : Unwritten(i)[c] \in Nat
         /\ Pending(i) \in Nat
         /\ (\A c \in Callers : calls[c].pc = "idle") => Pending(i) = 0
<1>1. IsFiniteSet(Callers)
  BY DEF SetupsAssumption
<1>2. \A c \in Callers : Unwritten(i)[c] \in Nat
  BY DEF Unwritten, ToolsTyped, CallState
<1>3. Pending(i) \in Nat
  BY <1>1, <1>2, SumNat DEF Pending
<1>4. ASSUME \A c \in Callers : calls[c].pc = "idle" PROVE Pending(i) = 0
  <2>1. \A c \in Callers : Unwritten(i)[c] = 0
    BY <1>4 DEF Unwritten
  <2> QED BY <1>1, <2>1, SumZero DEF Pending
<1> QED BY <1>2, <1>3, <1>4

(***************************************************************************)
(* A step of one call changes its own part of what is pending.             *)
(***************************************************************************)
LEMMA PendingStep ==
  ASSUME SetupsAssumption, ToolsTyped, ToolsTyped', NEW c \in Callers,
         \A d \in Callers : d # c => calls'[d] = calls[d], NEW i
  PROVE  Pending(i)' = Pending(i) + Unwritten(i)'[c] - Unwritten(i)[c]
<1>1. IsFiniteSet(Callers)
  BY DEF SetupsAssumption
<1>2. \A d \in Callers : Unwritten(i)[d] \in Nat
  BY PendingType
<1>3. \A d \in Callers : Unwritten(i)'[d] \in Nat
  BY DEF Unwritten, ToolsTyped, CallState
<1>4. \A d \in Callers \ {c} : Unwritten(i)'[d] = Unwritten(i)[d]
  BY DEF Unwritten
<1>5. SumFunctionOnSet(Unwritten(i)', Callers) = SumFunctionOnSet(Unwritten(i), Callers) + Unwritten(i)'[c] - Unwritten(i)[c]
  BY <1>1, <1>2, <1>3, <1>4, SumUpdate
<1> QED BY <1>5 DEF Pending

(***************************************************************************)
(* One call's part is part of what is pending.                             *)
(***************************************************************************)
LEMMA PendingOthers ==
  ASSUME SetupsAssumption, ToolsTyped, NEW c \in Callers, NEW i
  PROVE  Pending(i) - Unwritten(i)[c] \in Nat
<1>1. IsFiniteSet(Callers) /\ IsFiniteSet(Callers \ {c})
  BY FS_Subset DEF SetupsAssumption
<1>2. \A d \in Callers : Unwritten(i)[d] \in Nat
  BY PendingType
<1>3. SumFunctionOnSet(Unwritten(i), Callers) = Unwritten(i)[c] + SumFunctionOnSet(Unwritten(i), Callers \ {c})
  BY <1>1, <1>2, SumRemove
<1>4. SumFunctionOnSet(Unwritten(i), Callers \ {c}) \in Nat
  BY <1>1, <1>2, SumNat
<1> QED BY <1>2, <1>3, <1>4 DEF Pending

(***************************************************************************)
(* The sum over the agents in the list adds up.                            *)
(***************************************************************************)
Adds(h, f, g) == \A i \in DOMAIN refs : f[i] \in Nat /\ g[i] \in Nat /\ h[i] = f[i] + g[i]

LEMMA AggregateAdds ==
  ASSUME SetupsAssumption, ToolsTyped, NEW f, NEW g, NEW h, Adds(h, f, g)
  PROVE  /\ AggregateChildStats(h) = AggregateChildStats(f) + AggregateChildStats(g)
         /\ AggregateChildStats(f) \in Nat /\ AggregateChildStats(g) \in Nat
<1> DEFINE Of(counter) == [k \in DOMAIN servers |-> IF refs[servers[k].ref].kind = "agent" THEN counter[servers[k].ref] ELSE 0]
<1>1. IsFiniteSet(DOMAIN servers)
  BY FS_Interval DEF ToolsTyped
<1>2. \A k \in DOMAIN servers : servers[k].ref \in DOMAIN refs
  BY EntryTyped
<1>3. \A k \in DOMAIN servers : Of(f)[k] \in Nat /\ Of(g)[k] \in Nat /\ Of(h)[k] = Of(f)[k] + Of(g)[k]
  BY <1>2 DEF Adds
<1>4. \A counter : AggregateChildStats(counter) = SumFunctionOnSet(Of(counter), DOMAIN servers)
  BY DEF AggregateChildStats, SumFunction
<1> HIDE DEF Of
<1>5. /\ SumFunctionOnSet(Of(h), DOMAIN servers) = SumFunctionOnSet(Of(f), DOMAIN servers) + SumFunctionOnSet(Of(g), DOMAIN servers)
      /\ SumFunctionOnSet(Of(f), DOMAIN servers) \in Nat /\ SumFunctionOnSet(Of(g), DOMAIN servers) \in Nat
  <2>1. SumFunctionOnSet(Of(h), DOMAIN servers) = SumFunctionOnSet(Of(f), DOMAIN servers) + SumFunctionOnSet(Of(g), DOMAIN servers)
    BY <1>1, <1>3, SumPlus
  <2>2. SumFunctionOnSet(Of(f), DOMAIN servers) \in Nat /\ SumFunctionOnSet(Of(g), DOMAIN servers) \in Nat
    BY <1>1, <1>3, SumNat
  <2> QED BY <2>1, <2>2
<1> QED BY <1>4, <1>5

(***************************************************************************)
(* Nothing is spent yet.                                                   *)
(***************************************************************************)
LEMMA SpendInit == SetupsAssumption /\ ToolsInit => SpendInv
<1> SUFFICES ASSUME SetupsAssumption, ToolsInit PROVE SpendInv
  OBVIOUS
<1>1. ProcessInv /\ ToolsTyped
  BY ProcessesInit DEF ProcessInv
<1>2. \A c \in Callers : calls[c].pc = "idle"
  BY DEF ToolsInit, Idle
<1>3. \A i : Pending(i) = 0
  BY <1>1, <1>2, PendingType
<1>4. \A i \in DOMAIN refs : stats[i] = 0 /\ spent[i] = 0 /\ lost[i] = 0
  BY DEF ToolsInit
<1>5. phase = "starting" /\ shown = 0
  BY DEF ToolsInit
<1> QED BY <1>1, <1>2, <1>3, <1>4, <1>5 DEF SpendInv, SpendUpperBound, SpendExact, SpendShown

(***************************************************************************)
(* Starting and closing spend nothing, and the summary is made when no call*)
(* is under way.                                                           *)
(***************************************************************************)
LEMMA SpendInStartAndEnd ==
  ASSUME SetupsAssumption, SpendInv,
         \/ WriteFiles \/ Build \/ Spawn \/ Fail \/ Skip \/ Register \/ Ready
         \/ Quit \/ CloseViewer \/ CloseNext \/ Exit \/ ProcessEnds
  PROVE  SpendUpperBound' /\ SpendExact' /\ SpendShown'
<1> USE DEF starting, calling
<1>1. UNCHANGED <<setup, calls, stats, spent, lost>> /\ refs' = refs
  BY DEF WriteFiles, Build, Spawn, Fail, Skip, Register, Ready, Quit, CloseViewer, CloseNext, Exit,
         ProcessEnds, refs
<1>2. \A i : Pending(i)' = Pending(i)
  BY <1>1 DEF Pending, Unwritten
<1>3. SpendUpperBound' /\ SpendExact'
  BY <1>1, <1>2 DEF SpendInv, SpendUpperBound, SpendExact
<1>4. ToolsTyped /\ ProcessInv
  BY DEF SpendInv, ProcessInv
<1>5. \A i \in DOMAIN refs : stats[i] \in Nat /\ spent[i] \in Nat /\ lost[i] \in Nat
  BY <1>4 DEF ToolsTyped
<1>6. UNCHANGED <<setup, servers, spent, lost, shown>> =>
        /\ AggregateChildStats(spent)' = AggregateChildStats(spent)
        /\ AggregateChildStats(lost)' = AggregateChildStats(lost)
  BY <1>1 DEF AggregateChildStats
<1>7. CASE WriteFiles \/ Build \/ Spawn \/ Fail \/ Skip \/ Register
  <2>1. phase = "starting" /\ phase' = "starting" /\ UNCHANGED shown
    BY <1>7 DEF WriteFiles, Build, Spawn, Fail, Skip, Register, Starting
  <2> QED BY <1>1, <1>3, <2>1 DEF SpendInv, SpendShown
<1>8. CASE Ready
  <2>1. phase = "starting" /\ phase' # "starting" /\ UNCHANGED <<shown, servers>>
    BY <1>8 DEF Ready
  <2>2. shown = 0 /\ \A i \in DOMAIN refs : spent[i] = 0 /\ lost[i] = 0
    BY <2>1 DEF SpendInv, SpendShown
  <2>3. Adds(spent, lost, lost)
    BY <2>2 DEF Adds
  <2>4. AggregateChildStats(spent) = AggregateChildStats(lost) + AggregateChildStats(lost)
    BY <1>4, <2>3, AggregateAdds
  <2>5. Adds(lost, lost, lost)
    BY <2>2 DEF Adds
  <2>6. AggregateChildStats(lost) = AggregateChildStats(lost) + AggregateChildStats(lost) /\ AggregateChildStats(lost) \in Nat
    BY <1>4, <2>5, AggregateAdds
  <2>7. shown + AggregateChildStats(lost) = AggregateChildStats(spent)
    BY <2>2, <2>4, <2>6
  <2>8. SpendShown'
    BY <1>1, <1>6, <2>1, <2>2, <2>7 DEF SpendShown
  <2> QED BY <1>3, <2>8
<1>9. CASE Quit
  <2>1. phase' = "closing" /\ UNCHANGED servers
    BY <1>9 DEF Quit
  <2>2. ASSUME ~setup.serve, ~setup.parallel
        PROVE  shown' \in Nat /\ shown' + AggregateChildStats(lost) = AggregateChildStats(spent)
    <3>1. shown' = AggregateChildStats(stats) /\ \A c \in Callers : calls[c].pc = "idle"
      BY <1>9, <2>2 DEF Quit, Summary
    <3>2. \A i : Pending(i) = 0
      BY <1>4, <3>1, PendingType
    <3>3. Adds(spent, stats, lost)
      BY <1>5, <2>2, <3>2 DEF SpendInv, SpendExact, Adds
    <3>4. /\ AggregateChildStats(spent) = AggregateChildStats(stats) + AggregateChildStats(lost)
          /\ AggregateChildStats(stats) \in Nat
      BY <1>4, <3>3, AggregateAdds
    <3> QED BY <3>1, <3>4
  <2>3. /\ AggregateChildStats(spent)' = AggregateChildStats(spent)
        /\ AggregateChildStats(lost)' = AggregateChildStats(lost)
    BY <1>1, <2>1 DEF AggregateChildStats
  <2>4. SpendShown'
    BY <1>1, <2>1, <2>2, <2>3 DEF SpendShown
  <2> QED BY <1>3, <2>4
<1>10. CASE CloseViewer \/ CloseNext
  <2>1. phase = "closing" /\ phase' = "closing" /\ UNCHANGED <<servers, shown>>
    BY <1>10 DEF CloseViewer, CloseNext
  <2>2. SpendShown'
    BY <1>1, <1>6, <2>1 DEF SpendInv, SpendShown
  <2> QED BY <1>3, <2>2
<1>11. CASE Exit
  <2>1. phase' = "exited"
    BY <1>11 DEF Exit
  <2> QED BY <1>3, <2>1 DEF SpendShown
<1>12. CASE ProcessEnds
  <2>1. UNCHANGED <<phase, servers, shown>>
    BY <1>12 DEF ProcessEnds
  <2>2. SpendShown'
    BY <1>1, <1>6, <2>1 DEF SpendInv, SpendShown
  <2> QED BY <1>3, <2>2
<1> QED BY <1>7, <1>8, <1>9, <1>10, <1>11, <1>12

(***************************************************************************)
(* Every step of a call keeps what is written, lost and pending within what*)
(* is spent, and equal to it when one call is made at a time.              *)
(***************************************************************************)
LEMMA SpendInCall ==
  ASSUME SetupsAssumption, SpendInv, ToolsTyped', NEW c \in Callers,
         \/ Call(c) \/ ToolAnswers(c) \/ PromptEnds(c) \/ StartChildren(c) \/ RunChild(c)
         \/ ReadStats(c) \/ WriteStats(c) \/ CloseChildren(c)
  PROVE  SpendUpperBound' /\ SpendExact' /\ SpendShown'
<1> USE DEF starting, calling
<1>0. ToolsTyped /\ ProcessInv /\ CallsInOrder /\ CallsRouted /\ SpendUpperBound /\ SpendExact /\ SpendShown
  BY DEF SpendInv, ProcessInv
<1>1. UNCHANGED <<setup, shown, phase, servers>> /\ refs' = refs
  BY DEF Call, ToolAnswers, PromptEnds, StartChildren, RunChild, ReadStats, WriteStats, CloseChildren, refs
<1>2. SpendShown'
  <2>1. ~(phase = "starting" \/ (~setup.serve /\ phase \in {"closing", "exited"}))
    BY <1>0, CallsInTime
  <2> QED BY <1>1, <2>1 DEF SpendShown
<1>3. \A d \in Callers : d # c => calls'[d] = calls[d]
  <2>0. calls \in [Callers -> CallState]
    BY <1>0 DEF ToolsTyped
  <2>1. CASE Call(c)
    BY <2>0, <2>1, CallMade
  <2>2. CASE RunChild(c)
    <3>1. PICK n \in 0..MaxSpend, ok \in BOOLEAN :
            calls' = [calls EXCEPT ![c].pc = IF ok THEN "adding" ELSE "returning", ![c].used = n]
      BY <2>2 DEF RunChild
    <3> QED BY <2>0, <3>1
  <2>3. CASE ToolAnswers(c) \/ PromptEnds(c) \/ StartChildren(c) \/ ReadStats(c) \/ WriteStats(c) \/ CloseChildren(c)
    BY <2>0, <2>3 DEF ToolAnswers, PromptEnds, StartChildren, ReadStats, WriteStats, CloseChildren, Goto
  <2> QED BY <2>1, <2>2, <2>3
<1>4. \A i : /\ Pending(i)' = Pending(i) + Unwritten(i)'[c] - Unwritten(i)[c]
             /\ Pending(i) \in Nat /\ Unwritten(i)[c] \in Nat
  BY <1>0, <1>3, PendingStep, PendingType
<1>5. /\ \A i : Unwritten(i)[c] = IF calls[c].pc \in {"adding", "writing"} /\ calls[c].ref = i THEN calls[c].used ELSE 0
      /\ \A i : Unwritten(i)'[c] = IF calls'[c].pc \in {"adding", "writing"} /\ calls'[c].ref = i THEN calls'[c].used ELSE 0
  BY DEF Unwritten
<1>6. \A i \in DOMAIN refs : stats[i] \in Nat /\ spent[i] \in Nat /\ lost[i] \in Nat
  BY <1>0 DEF ToolsTyped
<1>8. ~setup.parallel => \A a, b \in Callers : calls'[a].pc # "idle" /\ calls'[b].pc # "idle" => a = b
  <2> SUFFICES ASSUME ~setup.parallel PROVE \A d \in Callers : d # c => calls[d].pc = "idle"
    BY <1>3
  <2>1. CASE Call(c)
    BY <2>1 DEF Call
  <2>2. CASE calls[c].pc # "idle"
    BY <1>0, <2>2 DEF SpendExact
  <2> QED BY <2>1, <2>2 DEF ToolAnswers, PromptEnds, StartChildren, RunChild, ReadStats, WriteStats, CloseChildren
\* Steps that spend nothing and write nothing.
<1>9. ASSUME UNCHANGED <<stats, spent, lost>>, \A i : Unwritten(i)'[c] = Unwritten(i)[c],
             \A i \in DOMAIN refs : calls'[c].pc = "writing" /\ calls'[c].ref = i => calls'[c].read = stats[i]
      PROVE  SpendUpperBound' /\ SpendExact'
  <2>1. \A i : Pending(i)' = Pending(i)
    BY <1>4, <1>9
  <2>2. \A d \in Callers : \A i \in DOMAIN refs : calls'[d].pc = "writing" /\ calls'[d].ref = i =>
          calls'[d].read + lost[i] + Pending(i) <= spent[i]
    <3> SUFFICES ASSUME NEW d \in Callers, NEW i \in DOMAIN refs, calls'[d].pc = "writing" /\ calls'[d].ref = i
                 PROVE  calls'[d].read + lost[i] + Pending(i) <= spent[i]
      OBVIOUS
    <3>1. CASE d = c
      BY <1>0, <1>9, <3>1 DEF SpendUpperBound
    <3>2. CASE d # c
      BY <1>0, <1>3, <3>2 DEF SpendUpperBound
    <3> QED BY <3>1, <3>2
  <2>3. SpendUpperBound'
    BY <1>0, <1>1, <1>9, <2>1, <2>2 DEF SpendUpperBound
  <2>4. SpendExact'
    BY <1>0, <1>1, <1>3, <1>8, <1>9, <2>1 DEF SpendExact
  <2> QED BY <2>3, <2>4
<1>10. CASE Call(c) \/ ToolAnswers(c) \/ PromptEnds(c) \/ CloseChildren(c) \/ StartChildren(c) \/ ReadStats(c)
  <2>1. UNCHANGED <<stats, spent, lost>>
    BY <1>10 DEF Call, ToolAnswers, PromptEnds, StartChildren, ReadStats, CloseChildren
  <2>2. CASE ReadStats(c)
    <3>1. calls[c].pc = "adding" /\ calls'[c].pc = "writing" /\ calls'[c].ref = calls[c].ref
          /\ calls'[c].used = calls[c].used /\ calls'[c].read = stats[calls[c].ref]
      BY <1>0, <2>2 DEF ReadStats, ToolsTyped, CallState
    <3>2. \A i : Unwritten(i)'[c] = Unwritten(i)[c]
      BY <1>5, <3>1
    <3> QED BY <1>2, <1>9, <2>1, <3>1, <3>2
  <2>3. CASE ~ ReadStats(c)
    <3>1. calls[c].pc \notin {"adding", "writing"}
      BY <1>10, <2>3 DEF Call, ToolAnswers, PromptEnds, StartChildren, CloseChildren
    <3>2. calls'[c].pc \notin {"adding", "writing"}
      <4>1. CASE Call(c)
        <5>1. PICK entry : calls' = [calls EXCEPT ![c] = entry] /\ entry.pc \in {"tool", "children", "prompt", "idle"}
          BY <4>1, CallMade
        <5>2. calls'[c] = entry
          BY <1>0, <5>1 DEF ToolsTyped
        <5> QED BY <5>1, <5>2
      <4>2. CASE ToolAnswers(c) \/ PromptEnds(c) \/ CloseChildren(c)
        BY <1>0, <3>1, <4>2 DEF ToolAnswers, PromptEnds, CloseChildren, ToolsTyped, Idle
      <4>3. CASE StartChildren(c)
        <5>1. calls' = [calls EXCEPT ![c] = Idle] \/ calls' = [calls EXCEPT ![c].started = @ + 1]
          BY <4>3 DEF StartChildren
        <5>2. CASE calls' = [calls EXCEPT ![c] = Idle]
          BY <1>0, <5>2 DEF ToolsTyped, Idle
        <5>3. CASE calls' = [calls EXCEPT ![c].started = @ + 1]
          BY <1>0, <3>1, <5>3 DEF ToolsTyped, CallState
        <5> QED BY <5>1, <5>2, <5>3
      <4> QED BY <1>10, <2>3, <4>1, <4>2, <4>3
    <3>3. \A i : Unwritten(i)'[c] = Unwritten(i)[c]
      BY <1>5, <3>1, <3>2
    <3> QED BY <1>2, <1>9, <2>1, <3>2, <3>3
  <2> QED BY <2>2, <2>3
<1>11. CASE RunChild(c)
  <2> DEFINE r == calls[c].ref
  <2>1. PICK n \in 0..MaxSpend, ok \in BOOLEAN :
          /\ spent' = [spent EXCEPT ![r] = @ + n]
          /\ lost' = [lost EXCEPT ![r] = IF ok THEN @ ELSE @ + n]
          /\ calls' = [calls EXCEPT ![c].pc = IF ok THEN "adding" ELSE "returning", ![c].used = n]
    BY <1>11 DEF RunChild
  <2>2. calls[c].pc = "children" /\ r \in DOMAIN refs /\ n \in Nat /\ UNCHANGED stats
    BY <1>0, <1>11 DEF RunChild, CallsRouted, WithChildren, SetupsAssumption
  <2>3. calls'[c].pc = (IF ok THEN "adding" ELSE "returning") /\ calls'[c].ref = r /\ calls'[c].used = n
    BY <1>0, <2>1 DEF ToolsTyped, CallState
  <2>4. /\ spent'[r] = spent[r] + n /\ lost'[r] = (IF ok THEN lost[r] ELSE lost[r] + n)
        /\ \A i \in DOMAIN refs : i # r => spent'[i] = spent[i] /\ lost'[i] = lost[i]
    BY <1>0, <2>1, <2>2 DEF ToolsTyped
  <2> HIDE DEF r
  <2>5. \A i : Unwritten(i)[c] = 0 /\ Unwritten(i)'[c] = IF ok /\ i = r THEN n ELSE 0
    BY <1>5, <2>2, <2>3
  <2>6. \A i \in DOMAIN refs : /\ Pending(i)' + lost'[i] = Pending(i) + lost[i] + (IF i = r THEN n ELSE 0)
                               /\ spent'[i] = spent[i] + (IF i = r THEN n ELSE 0)
    BY <1>4, <1>6, <2>2, <2>4, <2>5
  <2>7. \A i \in DOMAIN refs : Pending(i)' \in Nat /\ lost'[i] \in Nat /\ spent'[i] \in Nat
    BY <1>4, <1>6, <2>2, <2>4, <2>5
  <2>8. \A d \in Callers : calls'[d].pc = "writing" => calls'[d] = calls[d]
    BY <1>3, <2>3
  <2>9. SpendUpperBound'
    <3>1. \A i \in DOMAIN refs : stats[i] + lost'[i] + Pending(i)' <= spent'[i]
      BY <1>0, <1>4, <1>6, <2>6, <2>7 DEF SpendUpperBound
    <3>2. \A d \in Callers : \A i \in DOMAIN refs : calls'[d].pc = "writing" /\ calls'[d].ref = i =>
            calls'[d].read + lost'[i] + Pending(i)' <= spent'[i]
      <4> SUFFICES ASSUME NEW d \in Callers, NEW i \in DOMAIN refs, calls'[d].pc = "writing" /\ calls'[d].ref = i
                   PROVE  calls'[d].read + lost'[i] + Pending(i)' <= spent'[i]
        OBVIOUS
      <4>1. calls[d].read \in Nat /\ calls'[d] = calls[d]
        BY <1>0, <2>8 DEF ToolsTyped, CallState
      <4>2. calls[d].read + lost[i] + Pending(i) <= spent[i]
        BY <1>0, <4>1 DEF SpendUpperBound
      <4> QED BY <1>4, <1>6, <2>2, <2>6, <2>7, <4>1, <4>2
    <3> QED BY <1>1, <2>2, <3>1, <3>2 DEF SpendUpperBound
  <2>10. SpendExact'
    <3>1. ASSUME ~setup.parallel
          PROVE  \A i \in DOMAIN refs : stats[i] + lost'[i] + Pending(i)' = spent'[i]
      <4>1. \A i \in DOMAIN refs : stats[i] + lost[i] + Pending(i) = spent[i]
        BY <1>0, <3>1 DEF SpendExact
      <4> QED BY <1>4, <1>6, <2>6, <2>7, <4>1
    <3> QED BY <1>0, <1>1, <1>8, <2>2, <2>8, <3>1 DEF SpendExact
  <2> QED BY <1>2, <2>9, <2>10
<1>12. CASE WriteStats(c)
  <2> DEFINE r == calls[c].ref
             u == calls[c].used
  <2>1. /\ calls[c].pc = "writing" /\ r \in DOMAIN refs /\ u \in Nat /\ calls[c].read \in Nat
        /\ UNCHANGED <<spent, lost>> /\ calls'[c].pc = "returning"
    BY <1>0, <1>12 DEF WriteStats, Goto, CallsRouted, WithChildren, ToolsTyped, CallState
  <2>2. stats'[r] = calls[c].read + u /\ \A i \in DOMAIN refs : i # r => stats'[i] = stats[i]
    BY <1>0, <1>12, <2>1 DEF WriteStats, ToolsTyped
  <2>3. \A i : Unwritten(i)'[c] = 0 /\ Unwritten(i)[c] = IF i = r THEN u ELSE 0
    BY <1>5, <2>1
  <2> HIDE DEF r, u
  <2>4. \A i : Pending(i)' + (IF i = r THEN u ELSE 0) = Pending(i)
    BY <1>4, <2>1, <2>3
  <2>5. \A i : Pending(i)' \in Nat
    <3>1. \A i : Pending(i) - Unwritten(i)[c] \in Nat
      BY <1>0, PendingOthers
    <3> QED BY <1>4, <2>3, <3>1
  <2>6. \A d \in Callers : calls'[d].pc = "writing" => calls'[d] = calls[d]
    BY <1>3, <2>1
  <2>7. calls[c].read + lost[r] + Pending(r) <= spent[r]
    BY <1>0, <2>1 DEF SpendUpperBound, r
  <2>8. SpendUpperBound'
    <3>1. \A i \in DOMAIN refs : stats'[i] + lost[i] + Pending(i)' <= spent[i]
      BY <1>0, <1>4, <1>6, <2>1, <2>2, <2>4, <2>5, <2>7 DEF SpendUpperBound
    <3>2. \A d \in Callers : \A i \in DOMAIN refs : calls'[d].pc = "writing" /\ calls'[d].ref = i =>
            calls'[d].read + lost[i] + Pending(i)' <= spent[i]
      <4> SUFFICES ASSUME NEW d \in Callers, NEW i \in DOMAIN refs, calls'[d].pc = "writing" /\ calls'[d].ref = i
                   PROVE  calls'[d].read + lost[i] + Pending(i)' <= spent[i]
        OBVIOUS
      <4>1. calls[d].read \in Nat /\ calls'[d] = calls[d]
        BY <1>0, <2>6 DEF ToolsTyped, CallState
      <4>2. calls[d].read + lost[i] + Pending(i) <= spent[i]
        BY <1>0, <4>1 DEF SpendUpperBound
      <4> QED BY <1>4, <1>6, <2>1, <2>4, <2>5, <4>1, <4>2
    <3> QED BY <1>1, <2>1, <3>1, <3>2 DEF SpendUpperBound
  <2>9. SpendExact'
    <3>1. ASSUME ~setup.parallel
          PROVE  \A i \in DOMAIN refs : stats'[i] + lost[i] + Pending(i)' = spent[i]
      <4>1. calls[c].read = stats[r]
        BY <1>0, <2>1, <3>1 DEF SpendExact, r
      <4>2. \A i \in DOMAIN refs : stats[i] + lost[i] + Pending(i) = spent[i]
        BY <1>0, <3>1 DEF SpendExact
      <4> QED BY <1>4, <1>6, <2>1, <2>2, <2>4, <2>5, <4>1, <4>2
    <3>2. ~setup.parallel => \A d \in Callers : calls'[d].pc # "writing"
      BY <1>8, <2>1, <1>0, <1>3 DEF SpendExact
    <3> QED BY <1>1, <1>8, <2>1, <3>1, <3>2 DEF SpendExact
  <2> QED BY <1>2, <2>8, <2>9
<1> QED BY <1>10, <1>11, <1>12

(***************************************************************************)
(* The invariant of the counters is inductive.                             *)
(***************************************************************************)
LEMMA SpendStep == SetupsAssumption /\ SpendInv /\ [ToolsNext]_toolsVars => SpendInv'
<1> SUFFICES ASSUME SetupsAssumption, SpendInv, [ToolsNext]_toolsVars PROVE SpendInv'
  OBVIOUS
<1>1. ProcessInv' /\ ToolsTyped'
  BY ProcessesStep DEF SpendInv, ProcessInv
<1>2. SpendUpperBound' /\ SpendExact' /\ SpendShown'
  <2>1. CASE UNCHANGED toolsVars
    <3>1. UNCHANGED <<setup, phase, calls, stats, spent, lost, shown, servers>> /\ refs' = refs
      BY <2>1 DEF toolsVars, refs
    <3>2. \A i : Pending(i)' = Pending(i)
      BY <3>1 DEF Pending, Unwritten
    <3>3. /\ AggregateChildStats(spent)' = AggregateChildStats(spent)
          /\ AggregateChildStats(lost)' = AggregateChildStats(lost)
      BY <3>1 DEF AggregateChildStats
    <3>4. SpendUpperBound' /\ SpendExact'
      BY <3>1, <3>2 DEF SpendInv, SpendUpperBound, SpendExact
    <3>5. SpendShown'
      BY <3>1, <3>3 DEF SpendInv, SpendShown
    <3> QED BY <3>4, <3>5
  <2>2. CASE \/ WriteFiles \/ Build \/ Spawn \/ Fail \/ Skip \/ Register \/ Ready
             \/ Quit \/ CloseViewer \/ CloseNext \/ Exit \/ ProcessEnds
    BY <2>2, SpendInStartAndEnd
  <2>3. ASSUME NEW c \in Callers,
               \/ Call(c) \/ ToolAnswers(c) \/ PromptEnds(c) \/ StartChildren(c) \/ RunChild(c)
               \/ ReadStats(c) \/ WriteStats(c) \/ CloseChildren(c)
        PROVE  SpendUpperBound' /\ SpendExact' /\ SpendShown'
    BY <1>1, <2>3, SpendInCall
  <2> QED BY <2>1, <2>2, <2>3, ToolsCases
<1> QED BY <1>1, <1>2 DEF SpendInv

(***************************************************************************)
(* Without calls nothing is pending.                                       *)
(***************************************************************************)
LEMMA SpendReported == SetupsAssumption /\ SpendInv => ChildSpendReported
<1> SUFFICES ASSUME SetupsAssumption, SpendInv PROVE ChildSpendReported
  OBVIOUS
<1>1. ToolsTyped /\ SpendUpperBound /\ SpendExact /\ SpendShown
  BY DEF SpendInv, ProcessInv
<1>2. \A i \in DOMAIN refs : stats[i] \in Nat /\ spent[i] \in Nat /\ lost[i] \in Nat /\ Pending(i) \in Nat
  <2>1. \A i : Pending(i) \in Nat
    BY <1>1, PendingType
  <2> QED BY <1>1, <2>1 DEF ToolsTyped
<1>3. \A i \in DOMAIN refs : stats[i] + lost[i] <= spent[i]
  BY <1>1, <1>2 DEF SpendUpperBound
<1>4. ASSUME NEW i \in DOMAIN refs, ~setup.parallel, \A c \in Callers : calls[c].pc = "idle"
      PROVE  stats[i] + lost[i] = spent[i]
  <2>1. Pending(i) = 0
    BY <1>1, <1>4, PendingType
  <2> QED BY <1>1, <1>2, <1>4, <2>1 DEF SpendExact
<1>5. AggregateChildStats(lost) \in Nat
  <2> DEFINE twice == [j \in DOMAIN refs |-> lost[j] + lost[j]]
  <2>1. Adds(twice, lost, lost)
    BY <1>2 DEF Adds
  <2> HIDE DEF twice
  <2>2. /\ AggregateChildStats(twice) = AggregateChildStats(lost) + AggregateChildStats(lost)
        /\ AggregateChildStats(lost) \in Nat
    BY <1>1, <2>1, AggregateAdds
  <2> QED BY <2>2
<1>6. phase = "closing" /\ ~setup.serve /\ ~setup.parallel =>
        shown = AggregateChildStats(spent) - AggregateChildStats(lost)
  <2> SUFFICES ASSUME phase = "closing", ~setup.serve, ~setup.parallel
               PROVE  shown = AggregateChildStats(spent) - AggregateChildStats(lost)
    OBVIOUS
  <2>1. shown \in Nat /\ shown + AggregateChildStats(lost) = AggregateChildStats(spent)
    BY <1>1 DEF SpendShown
  <2> QED BY <1>5, <2>1
<1> QED BY <1>3, <1>4, <1>6 DEF ChildSpendReported

(***************************************************************************)
(* The counter of an agent used as a tool never shows more than its runs   *)
(* have spent, whatever calls overlap. One call at a time it shows all but *)
(* the runs that failed, and so does the summary that ends a chat.         *)
(***************************************************************************)
THEOREM ChildSpendIsReported == ToolsSpec => []ChildSpendReported
<1>1. ToolsSpec => []SpendInv
  BY SetupsAssumption, SpendInit, SpendStep, PTL DEF ToolsSpec
<1> QED BY <1>1, SetupsAssumption, SpendReported, PTL

=============================================================================
