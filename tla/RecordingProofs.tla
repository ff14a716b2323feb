--------------------------- MODULE RecordingProofs ---------------------------
(***************************************************************************)
(* Proofs about Recording, for any chats, failures and readers: the totals *)
(* of a session are those of its stored turns, a call stays with the turn  *)
(* that asked for it, and a reader sees no less than it was told of.       *)
(***************************************************************************)
EXTENDS Recording, Sums

-----------------------------------------------------------------------------
(* The inductive invariant.                                                *)

Opening == {"opening", "migrating"}
Ended == {"prune", "gone"}
Steps == Opening \cup Ended
           \cup {"disabled", "ready", "insert", "update", "model", "tools"}

Ids == Chats \X Nat
Roles == {"user", "assistant"}
SessionRow == [turns : Nat, tokens : Nat, cost : Nat, finished : BOOLEAN, old : BOOLEAN]
Turn == [id : Ids, role : Roles, tokens : Nat, cost : Nat]
Chat == [pc : Steps, migration : Nat, turnNum : Nat, current : Ids \cup {<< >>},
         row : SessionRow, turn : Turn \cup {<< >>}, role : Roles, spent : Nat, left : Int,
         asked : Ids \cup {<< >>}]
Call == [chat : Chats, turn : Ids, asked : Ids, nth : Int]
Reader == [pc : {"idle", "listed", "row", "turns", "calls", "done"}, listed : SessionRow, id : Chats \cup {""},
           row : SessionRow, turns : SUBSET Turn, calls : SUBSET Call, pruned : BOOLEAN, made : Nat]

\* The rows of a table are finitely many.
TypeOK ==
  /\ IsFiniteSet(DOMAIN sessions) /\ DOMAIN sessions \subseteq Chats
  /\ sessions \in [DOMAIN sessions -> SessionRow]
  /\ IsFiniteSet(turns) /\ turns \subseteq Turn
  /\ calls \subseteq Call
  /\ chat \in [Chats -> Chat]
  /\ reader \in Reader /\ (reader.pc # "idle" => reader.id \in Chats)

Mine(c) == { t \in turns : t.id[1] = c }
Tokens(S) == SumOver(S, LAMBDA t : t.tokens)
Cost(S) == SumOver(S, LAMBDA t : t.cost)

\* m is the number of the newest of the turns in S.
IsLast(S, m) == m \in {t.id[2] : t \in S} \cup {0} /\ \A t \in S : t.id[2] <= m

\* What a row of session totals says is at most what the other says.
NoMore(row, other) ==
  row.turns <= other.turns /\ row.tokens <= other.tokens /\ row.cost <= other.cost
Same(row, other) ==
  row.turns = other.turns /\ row.tokens = other.tokens /\ row.cost = other.cost

\* A recorder numbers its turns; its current one was stored as it is, or not at all.
Numbers(c) ==
  /\ \A t \in Mine(c) : t.id[2] <= chat[c].turnNum
  /\ chat[c].pc = "insert" =>
       /\ chat[c].turn \in Turn /\ chat[c].turn.id = <<c, chat[c].turnNum>>
       /\ chat[c].turn.role = chat[c].role
       /\ \A t \in Mine(c) : t.id[2] < chat[c].turnNum
  /\ chat[c].pc = "tools" => chat[c].role = "assistant"
  /\ chat[c].pc \in {"insert", "update", "tools"} => chat[c].current = <<c, chat[c].turnNum>>
  /\ chat[c].pc \in {"insert", "update", "tools"} /\ chat[c].role = "assistant" =>
       /\ chat[c].asked = chat[c].current
       /\ \A t \in Mine(c) : t.id = chat[c].current => t.role = "assistant"

\* A recorder's totals are those of its stored turns, as long as there is a
\* session; the row in the store may be behind, until it is finished.
Totals(c) ==
  /\ chat[c].row.finished => chat[c].pc \in Ended
  /\ chat[c].pc \in Opening => Same(chat[c].row, NewRow)
  /\ Has(c) =>
       /\ chat[c].pc \notin Opening
       /\ chat[c].row.tokens = Tokens(Mine(c)) /\ chat[c].row.cost = Cost(Mine(c))
       /\ IsLast(Mine(c), chat[c].row.turns)
       /\ NoMore(sessions[c], chat[c].row)
       /\ sessions[c].finished => Same(sessions[c], chat[c].row) /\ chat[c].pc \in Ended

\* The foreign keys; a call belongs to the turn that asked for it.
Keys ==
  /\ \A t \in turns : Has(t.id[1])
  /\ \A k \in calls : k.chat = k.turn[1]
  /\ CallsInTheirTurn

\* What the reader has seen is not more than what is there.
Reading ==
  /\ reader.pc = "idle" => Same(reader.listed, NewRow)
  /\ reader.pc \in {"listed", "row"} =>
       /\ Has(reader.id) => NoMore(reader.listed, sessions[reader.id])
       /\ chat[reader.id].pc \in Opening => Same(reader.listed, NewRow)
  /\ reader.pc \in {"turns", "calls", "done"} => NoMore(reader.listed, reader.row)
  /\ reader.pc = "turns" /\ ~reader.pruned =>
       Has(reader.id) /\ reader.row.turns <= chat[reader.id].row.turns
  /\ reader.pc \in {"calls", "done"} /\ ~reader.pruned =>
       \E m \in Nat : IsLast(reader.turns, m) /\ reader.row.turns <= m

IInv ==
  /\ TypeOK /\ Keys /\ Reading
  /\ \A c \in Chats : Numbers(c) /\ Totals(c)

-----------------------------------------------------------------------------
(* Sums and maxima of turns.                                               *)

TokensOf == [t \in Turn |-> t.tokens]
CostOf == [t \in Turn |-> t.cost]

(***************************************************************************)
(* The sums over turns, as sums of two functions.                          *)
(***************************************************************************)
LEMMA SumsOfTurns ==
  ASSUME NEW S, S \subseteq Turn, IsFiniteSet(S)
  PROVE  /\ Tokens(S) = SumFunctionOnSet(TokensOf, S)
         /\ Cost(S) = SumFunctionOnSet(CostOf, S)
<1> DEFINE f == [x \in S |-> x.tokens]
           g == [x \in S |-> x.cost]
<1>1. Tokens(S) = SumFunctionOnSet(f, S) /\ Cost(S) = SumFunctionOnSet(g, S)
  BY DEF Tokens, Cost, SumOver
<1>2. \A x \in S : f[x] \in Nat /\ TokensOf[x] = f[x] /\ g[x] \in Nat /\ CostOf[x] = g[x]
  BY DEF TokensOf, CostOf, Turn
<1> HIDE DEF f, g
<1>3. /\ SumFunctionOnSet(f, S) = SumFunctionOnSet(TokensOf, S)
      /\ SumFunctionOnSet(g, S) = SumFunctionOnSet(CostOf, S)
  BY <1>2, SumEqual
<1> QED BY <1>1, <1>3

(***************************************************************************)
(* Without turns the totals are zero.                                      *)
(***************************************************************************)
LEMMA NoTurns == Tokens({}) = 0 /\ Cost({}) = 0 /\ IsLast({}, 0)
<1>1. Tokens({}) = 0 /\ Cost({}) = 0
  BY SumsOfTurns, SumEmpty, FS_EmptySet
<1> QED BY <1>1 DEF IsLast

(***************************************************************************)
(* A turn more adds its tokens and its cost.                               *)
(***************************************************************************)
LEMMA OneMore ==
  ASSUME NEW S, S \subseteq Turn, IsFiniteSet(S), NEW t \in Turn, t \notin S
  PROVE  Tokens(S \cup {t}) = Tokens(S) + t.tokens /\ Cost(S \cup {t}) = Cost(S) + t.cost
<1> DEFINE U == S \cup {t}
<1>1. U \subseteq Turn /\ IsFiniteSet(U)
  BY FS_AddElement
<1>2. \A x \in U : TokensOf[x] \in Nat /\ CostOf[x] \in Nat
  BY DEF TokensOf, CostOf, Turn
<1>3. TokensOf[t] = t.tokens /\ CostOf[t] = t.cost
  BY DEF TokensOf, CostOf
<1>4. /\ SumFunctionOnSet(TokensOf, U) = TokensOf[t] + SumFunctionOnSet(TokensOf, S)
      /\ SumFunctionOnSet(CostOf, U) = CostOf[t] + SumFunctionOnSet(CostOf, S)
  BY <1>2, SumAdd
<1>5. /\ Tokens(U) = SumFunctionOnSet(TokensOf, U) /\ Cost(U) = SumFunctionOnSet(CostOf, U)
      /\ Tokens(S) = SumFunctionOnSet(TokensOf, S) /\ Cost(S) = SumFunctionOnSet(CostOf, S)
  <2> HIDE DEF U
  <2> QED BY <1>1, SumsOfTurns
<1>6. SumFunctionOnSet(TokensOf, S) \in Nat /\ SumFunctionOnSet(CostOf, S) \in Nat
  <2> \A x \in S : TokensOf[x] \in Nat /\ CostOf[x] \in Nat
    BY <1>2
  <2> QED BY SumNat
<1>7. t.tokens \in Nat /\ t.cost \in Nat
  BY DEF Turn
<1> QED BY <1>3, <1>4, <1>5, <1>6, <1>7

(***************************************************************************)
(* What is at most the sum of each group is in sum at most the whole.      *)
(***************************************************************************)
LEMMA SumOfGroups ==
  ASSUME NEW T, T \subseteq Turn, IsFiniteSet(T), NEW R, IsFiniteSet(R),
         NEW f, \A t \in T : f[t] \in Nat,
         NEW F, \A c \in R : /\ F[c] \in Nat
                             /\ F[c] <= SumFunctionOnSet(f, { t \in T : t.id[1] = c })
  PROVE  SumFunctionOnSet(F, R) <= SumFunctionOnSet(f, { t \in T : t.id[1] \in R })
<1> DEFINE Of(U) == { t \in T : t.id[1] \in U }
           Fits(U) == SumFunctionOnSet(F, U) <= SumFunctionOnSet(f, Of(U))
           C == { U \in SUBSET R : ~ Fits(U) }
<1> SUFFICES ASSUME C # {} PROVE FALSE
  OBVIOUS
<1>1. PICK U \in C : \A V \in C : V \subseteq U => V = U
  <2> C \subseteq SUBSET R
    OBVIOUS
  <2> HIDE DEF C
  <2> QED BY MinimalSubset
<1>2. \A V \in SUBSET R : SumFunctionOnSet(f, Of(V)) \in Nat /\ SumFunctionOnSet(F, V) \in Nat
  <2> SUFFICES ASSUME NEW V \in SUBSET R
               PROVE  SumFunctionOnSet(f, Of(V)) \in Nat /\ SumFunctionOnSet(F, V) \in Nat
    OBVIOUS
  <2>1. IsFiniteSet(V) /\ \A c \in V : F[c] \in Nat
    BY FS_Subset
  <2>2. IsFiniteSet(Of(V)) /\ \A t \in Of(V) : f[t] \in Nat
    BY FS_Subset
  <2> HIDE DEF Of
  <2> QED BY <2>1, <2>2, SumNat
<1>3. U # {}
  <2>1. SumFunctionOnSet(F, {}) = 0 /\ SumFunctionOnSet(f, Of({})) \in Nat
    BY <1>2, SumEmpty
  <2>2. Fits({})
    <3> HIDE DEF Of
    <3> QED BY <2>1
  <2> QED BY <1>1, <2>2
<1>4. PICK c \in U : TRUE
  BY <1>3
<1> DEFINE V == U \ {c}
           A == { t \in T : t.id[1] = c }
<1>5. SumFunctionOnSet(F, U) = F[c] + SumFunctionOnSet(F, V)
  <2> IsFiniteSet(U) /\ \A x \in U : F[x] \in Nat
    BY FS_Subset
  <2> QED BY SumRemove
<1>6. SumFunctionOnSet(f, Of(U)) = SumFunctionOnSet(f, A) + SumFunctionOnSet(f, Of(V))
  <2> DEFINE W == Of(U)
             B == Of(V)
  <2>1. IsFiniteSet(W) /\ \A x \in W : f[x] \in Nat
    BY FS_Subset
  <2>2. A \in SUBSET W /\ B \in SUBSET W /\ A \cup B = W /\ A \cap B = {}
    BY <1>1, <1>4
  <2> HIDE DEF W, A, B
  <2>3. SumFunctionOnSet(f, W) = SumFunctionOnSet(f, A) + SumFunctionOnSet(f, B)
    BY <2>1, <2>2, SumDisjoint
  <2> QED BY <2>3 DEF W, B
<1>7. Fits(V) /\ V \in SUBSET R /\ c \in R
  BY <1>1, <1>4
<1>8. F[c] \in Nat /\ F[c] <= SumFunctionOnSet(f, A)
  BY <1>7
<1>9. SumFunctionOnSet(f, A) \in Nat
  <2> IsFiniteSet(A) /\ \A x \in A : f[x] \in Nat
    BY FS_Subset
  <2> HIDE DEF A
  <2> QED BY SumNat
<1>10. ~ Fits(U) /\ SumFunctionOnSet(F, V) \in Nat /\ SumFunctionOnSet(f, Of(V)) \in Nat
  BY <1>1, <1>2, <1>7
<1> HIDE DEF Of, V, A, C
<1> QED BY <1>5, <1>6, <1>7, <1>8, <1>9, <1>10

(***************************************************************************)
(* LastOf is the number of the newest turn.                                *)
(***************************************************************************)
LEMMA LastIs ==
  ASSUME NEW S, S \subseteq Turn, NEW m \in Nat, IsLast(S, m)
  PROVE  LastOf(S) = m
<1> DEFINE I == {t.id[2] : t \in S} \cup {0}
<1>1. I \subseteq Nat /\ m \in I /\ \A i \in I : i <= m
  BY DEF IsLast, Turn, Ids
<1> HIDE DEF I
<1>2. \A x \in I : (\A y \in I : x >= y) => x = m
  BY <1>1
<1>3. Max(I) = m
  BY <1>1, <1>2 DEF Max
<1> QED BY <1>3 DEF LastOf, I

-----------------------------------------------------------------------------
(* What the steps of a chat leave alone.                                   *)

(***************************************************************************)
(* A chat that does not move keeps its part of the invariant, if its turns *)
(* and the totals in its row are as before.                                *)
(***************************************************************************)
LEMMA Kept ==
  ASSUME NEW d \in Chats, Numbers(d), Totals(d), chat'[d] = chat[d], Mine(d)' = Mine(d), Has(d)' = Has(d),
         Has(d) => Same(sessions'[d], sessions[d]) /\ sessions'[d].finished = sessions[d].finished
  PROVE  Numbers(d)' /\ Totals(d)'
<1>1. Numbers(d)'
  BY DEF Numbers
<1>2. Totals(d)'
  BY DEF Totals, Same, NoMore
<1> QED BY <1>1, <1>2

\* What a chat does, and what a reader does.
Acts(c) ==
  \/ CheckMigration(c) \/ ApplyMigration(c) \/ New(c)
  \/ RecordUserTurn(c) \/ RecordAssistantTurn(c) \/ CreateTurn(c) \/ UpdateSession(c)
  \/ RecordToolCall(c) \/ SendFails(c) \/ Finish(c) \/ PruneSessions(c) \/ Leave(c)
Reads ==
  \/ \E c \in Chats : Request(c)
  \/ handleListSessions \/ ReadRow \/ ReadTurns \/ ReadCalls \/ Respond

(***************************************************************************)
(* What a chat becomes is a chat.                                          *)
(***************************************************************************)
LEMMA ChatTypes ==
  ASSUME TypeOK, NEW c \in Chats, \A d \in Chats : Numbers(d),
         Acts(c)
  PROVE  chat' \in [Chats -> Chat]
<1>1. chat \in [Chats -> Chat] /\ chat[c] \in Chat
  BY DEF TypeOK
<1>2. SUFFICES \E new \in Chat : chat' = [chat EXCEPT ![c] = new]
  BY <1>1
<1> USE DEF Becomes, At
<1>3. CASE CheckMigration(c)
  <2>1. chat[c].migration + 1 \in Nat
    BY <1>1 DEF Chat
  <2>2. [chat[c] EXCEPT !.migration = @ + 1] \in Chat
    BY <1>1, <2>1 DEF Chat
  <2>3. [chat[c] EXCEPT !.pc = "migrating"] \in Chat
    BY <1>1 DEF Chat, Steps, Opening
  <2> QED BY <1>3, <2>2, <2>3 DEF CheckMigration
<1>4. CASE ApplyMigration(c)
  <2>1. chat[c].migration + 1 \in Nat
    BY <1>1 DEF Chat
  <2>2. [chat[c] EXCEPT !.pc = "opening", !.migration = @ + 1] \in Chat
    BY <1>1, <2>1 DEF Chat, Steps, Opening
  <2>3. [chat[c] EXCEPT !.pc = "disabled"] \in Chat
    BY <1>1 DEF Chat, Steps, Opening
  <2> QED BY <1>4, <2>2, <2>3 DEF ApplyMigration
<1>5. CASE New(c) \/ SendFails(c)
  <2>1. [chat[c] EXCEPT !.pc = "ready"] \in Chat
    BY <1>1 DEF Chat, Steps
  <2> QED BY <1>5, <2>1 DEF New, SendFails
<1>6. CASE RecordUserTurn(c)
  <2> DEFINE t == [id |-> <<c, chat[c].turnNum + 1>>, role |-> "user", tokens |-> 0, cost |-> 0]
  <2>1. t \in Turn /\ chat[c].turnNum + 1 \in Nat
    BY <1>1 DEF Turn, Ids, Roles, Chat
  <2>2. chat' = [chat EXCEPT ![c] = BeginTurn(chat[c], t)]
    BY <1>6 DEF RecordUserTurn
  <2>3. BeginTurn(chat[c], t) \in Chat
    <3> HIDE DEF t
    <3>1. t.id \in Ids /\ t.role \in Roles
      BY <2>1 DEF Turn
    <3> QED BY <1>1, <2>1, <3>1 DEF Chat, BeginTurn, Steps
  <2> QED BY <2>2, <2>3
<1>7. CASE RecordAssistantTurn(c)
  <2>1. PICK tokens \in 1..MaxTokens, n \in 0..MaxCalls :
          LET r == [chat[c] EXCEPT !.spent = @ + tokens, !.left = n]
              id == <<c, chat[c].turnNum + 1>>
          IN Becomes(c, BeginTurn([r EXCEPT !.asked = id],
                                  [id |-> id, role |-> "assistant", tokens |-> tokens, cost |-> r.spent]))
    BY <1>7 DEF RecordAssistantTurn
  <2> DEFINE r == [chat[c] EXCEPT !.spent = @ + tokens, !.left = n]
             id == <<c, chat[c].turnNum + 1>>
             t == [id |-> id, role |-> "assistant", tokens |-> tokens, cost |-> r.spent]
             q == [r EXCEPT !.asked = id]
  <2>2. r \in Chat /\ chat[c].turnNum + 1 \in Nat /\ id \in Ids
    <3>1. chat[c].turnNum \in Nat /\ chat[c].spent \in Nat /\ tokens \in Nat /\ n \in Int
      BY <1>1, RecordingAssumption DEF Chat
    <3>2. chat[c].turnNum + 1 \in Nat /\ chat[c].spent + tokens \in Nat
      BY <3>1
    <3>3. r \in Chat
      BY <1>1, <3>1, <3>2 DEF Chat
    <3> QED BY <3>2, <3>3 DEF Ids
  <2>3. r.spent \in Nat /\ r.turnNum = chat[c].turnNum
    BY <1>1, <2>2 DEF Chat
  <2>4. q \in Chat /\ q.turnNum = chat[c].turnNum
    <3> HIDE DEF r, id
    <3> QED BY <2>2, <2>3 DEF Chat
  <2>5. t \in Turn /\ t.id \in Ids /\ t.role \in Roles
    <3> HIDE DEF r, id
    <3> QED BY <2>2, <2>3, RecordingAssumption DEF Turn, Roles
  <2>6. chat' = [chat EXCEPT ![c] = BeginTurn(q, t)]
    BY <2>1
  <2> HIDE DEF q, t, r, id
  <2>7. BeginTurn(q, t) \in Chat
    BY <2>2, <2>4, <2>5 DEF Chat, BeginTurn, Steps
  <2> QED BY <2>6, <2>7
<1>8. CASE CreateTurn(c)
  <2>1. PICK stored \in BOOLEAN : chat' = [chat EXCEPT ![c] = CountTurn(chat[c], stored)]
    BY <1>8 DEF CreateTurn
  <2>2. chat[c].turn \in Turn
    BY <1>8 DEF CreateTurn, Numbers
  <2>3. chat[c].turn.tokens \in Nat /\ chat[c].turn.cost \in Nat
    BY <2>2 DEF Turn
  <2>4. Recorded(chat[c]) \in Steps
    BY DEF Recorded, Steps
  <2>5. [chat[c] EXCEPT !.pc = Recorded(chat[c])] \in Chat
    BY <1>1, <2>4 DEF Chat
  <2>6. CountTurn(chat[c], TRUE) \in Chat
    <3> DEFINE row == [chat[c].row EXCEPT !.turns = chat[c].turnNum, !.tokens = @ + chat[c].turn.tokens,
                                          !.cost = @ + chat[c].turn.cost]
    <3>1. row \in SessionRow
      <4>1. chat[c].row \in SessionRow /\ chat[c].turnNum \in Nat
        BY <1>1 DEF Chat
      <4>2. chat[c].row.tokens + chat[c].turn.tokens \in Nat /\ chat[c].row.cost + chat[c].turn.cost \in Nat
        BY <2>3, <4>1 DEF SessionRow
      <4> QED BY <4>1, <4>2 DEF SessionRow
    <3>2. [chat[c] EXCEPT !.row = row, !.pc = "update"] \in Chat
      <4> HIDE DEF row
      <4> QED BY <1>1, <3>1 DEF Chat, Steps
    <3>3. CountTurn(chat[c], TRUE) = [chat[c] EXCEPT !.row = row, !.pc = "update"]
      BY <1>1 DEF CountTurn, Chat, SessionRow
    <3> QED BY <3>2, <3>3
  <2> QED BY <2>1, <2>5, <2>6 DEF CountTurn
<1>9. CASE UpdateSession(c)
  <2>1. Recorded(chat[c]) \in Steps
    BY DEF Recorded, Steps
  <2>2. [chat[c] EXCEPT !.pc = Recorded(chat[c])] \in Chat
    BY <1>1, <2>1 DEF Chat
  <2> QED BY <1>9, <2>2 DEF UpdateSession
<1>10. CASE RecordToolCall(c)
  <2>1. PICK next \in {"model", "ready"} :
          chat' = [chat EXCEPT ![c] = [chat[c] EXCEPT !.left = @ - 1, !.pc = IF chat[c].left = 1 THEN next ELSE "tools"]]
    BY <1>10 DEF RecordToolCall
  <2> DEFINE pc == IF chat[c].left = 1 THEN next ELSE "tools"
  <2>2. pc \in Steps /\ chat[c].left - 1 \in Int
    BY <1>1 DEF Chat, Steps
  <2>3. [chat[c] EXCEPT !.left = @ - 1, !.pc = pc] \in Chat
    <3> HIDE DEF pc
    <3> QED BY <1>1, <2>2 DEF Chat
  <2>4. [chat[c] EXCEPT !.left = @ - 1, !.pc = IF chat[c].left = 1 THEN next ELSE "tools"] \in Chat
    BY <2>3
  <2> QED BY <2>1, <2>4
<1>11. CASE Finish(c)
  <2>1. PICK ok \in BOOLEAN : chat' = [chat EXCEPT ![c] = [chat[c] EXCEPT !.row.finished = TRUE, !.pc = IF ok THEN "prune" ELSE "gone"]]
    BY <1>11 DEF Finish
  <2>2. [chat[c].row EXCEPT !.finished = TRUE] \in SessionRow
    BY <1>1 DEF Chat, SessionRow
  <2>3. [chat[c] EXCEPT !.row.finished = TRUE, !.pc = IF ok THEN "prune" ELSE "gone"] \in Chat
    BY <1>1, <2>2 DEF Chat, Steps, Ended
  <2> QED BY <2>1, <2>3
<1>12. CASE PruneSessions(c) \/ Leave(c)
  <2>1. [chat[c] EXCEPT !.pc = "gone"] \in Chat
    BY <1>1 DEF Chat, Steps, Ended
  <2> QED BY <1>12, <2>1 DEF PruneSessions, Leave
<1> QED BY <1>3, <1>4, <1>5, <1>6, <1>7, <1>8, <1>9, <1>10, <1>11, <1>12 DEF Acts

(***************************************************************************)
(* The rows of the sessions are session rows.                              *)
(***************************************************************************)
LEMMA SessionTypes ==
  ASSUME TypeOK, NEW c \in Chats, Acts(c) \/ Age(c)
  PROVE  /\ IsFiniteSet(DOMAIN sessions') /\ DOMAIN sessions' \subseteq Chats
         /\ sessions' \in [DOMAIN sessions' -> SessionRow]
<1>1. /\ IsFiniteSet(DOMAIN sessions) /\ DOMAIN sessions \subseteq Chats
      /\ sessions \in [DOMAIN sessions -> SessionRow] /\ chat[c].row \in SessionRow
  BY DEF TypeOK, Chat
<1>2. CASE sessions' = sessions
  BY <1>1, <1>2
<1>3. CASE \E row \in SessionRow : sessions' = Row(c, row)
  <2>1. PICK row \in SessionRow : sessions' = Row(c, row)
    BY <1>3
  <2>2. DOMAIN Row(c, row) = DOMAIN sessions \cup {c} /\ IsFiniteSet(DOMAIN sessions \cup {c})
    BY <1>1, FS_AddElement DEF Row
  <2>3. Row(c, row) \in [DOMAIN Row(c, row) -> SessionRow]
    BY <1>1, <2>2 DEF Row
  <2> QED BY <1>1, <2>1, <2>2, <2>3
<1>4. CASE New(c)
  <2>1. NewRow \in SessionRow
    BY DEF NewRow, SessionRow
  <2> QED BY <1>2, <1>3, <1>4, <2>1 DEF New
<1>5. CASE UpdateSession(c)
  <2>1. ASSUME Has(c) PROVE [chat[c].row EXCEPT !.old = sessions[c].old] \in SessionRow
    BY <1>1, <2>1 DEF Has, SessionRow
  <2> QED BY <1>2, <1>3, <1>5, <2>1 DEF UpdateSession, UpdateRow
<1>6. CASE Finish(c)
  <2>1. PICK pc \in {"prune", "gone"}, ok \in BOOLEAN :
          sessions' = IF ok /\ Has(c)
                      THEN Row(c, [[chat[c] EXCEPT !.row.finished = TRUE, !.pc = pc].row EXCEPT !.old = sessions[c].old])
                      ELSE sessions
    BY <1>6 DEF Finish
  <2> DEFINE row == [chat[c].row EXCEPT !.finished = TRUE]
  <2>2. [chat[c] EXCEPT !.row.finished = TRUE, !.pc = pc].row = row /\ row \in SessionRow
    <3>1. chat[c] \in Chat
      BY DEF TypeOK
    <3>2. [chat[c] EXCEPT !.row.finished = TRUE, !.pc = pc].row = row
      BY <3>1 DEF Chat
    <3> QED BY <1>1, <3>2 DEF SessionRow
  <2> HIDE DEF row
  <2>3. ASSUME Has(c) PROVE [row EXCEPT !.old = sessions[c].old] \in SessionRow
    BY <1>1, <2>2, <2>3 DEF Has, SessionRow
  <2> QED BY <1>2, <1>3, <2>1, <2>2, <2>3
<1>7. CASE PruneSessions(c)
  <2>1. PICK old \in SUBSET DOMAIN sessions :
          sessions' = [s \in DOMAIN sessions \ old |-> sessions[s]] \/ sessions' = sessions
    BY <1>7 DEF PruneSessions
  <2>2. IsFiniteSet(DOMAIN sessions \ old)
    BY <1>1, FS_Difference
  <2> QED BY <1>1, <2>1, <2>2
<1>8. CASE Age(c)
  <2>1. sessions' = [sessions EXCEPT ![c].old = TRUE] /\ c \in DOMAIN sessions
    BY <1>8 DEF Age, Has
  <2>2. [sessions[c] EXCEPT !.old = TRUE] \in SessionRow
    BY <1>1, <2>1 DEF SessionRow
  <2>3. DOMAIN sessions' = DOMAIN sessions /\ sessions' \in [DOMAIN sessions -> SessionRow]
    BY <1>1, <2>1, <2>2
  <2> QED BY <1>1, <2>3
<1>9. CASE \/ CheckMigration(c) \/ ApplyMigration(c) \/ RecordUserTurn(c) \/ RecordAssistantTurn(c)
           \/ CreateTurn(c) \/ RecordToolCall(c) \/ SendFails(c) \/ Leave(c)
  BY <1>2, <1>9
     DEF database, CheckMigration, ApplyMigration, RecordUserTurn, RecordAssistantTurn, CreateTurn,
         RecordToolCall, SendFails, Leave
<1> QED BY <1>4, <1>5, <1>6, <1>7, <1>8, <1>9 DEF Acts

(***************************************************************************)
(* The turns and the calls are turns and calls, and the request is one.    *)
(***************************************************************************)
LEMMA RecordTypes ==
  ASSUME TypeOK, NEW c \in Chats, Numbers(c), Acts(c) \/ Age(c)
  PROVE  /\ IsFiniteSet(turns') /\ turns' \subseteq Turn /\ calls' \subseteq Call
         /\ \E b \in BOOLEAN : reader' = [reader EXCEPT !.pruned = b]
<1>1. IsFiniteSet(turns) /\ turns \subseteq Turn /\ calls \subseteq Call /\ chat[c] \in Chat
  BY DEF TypeOK
<1>2. reader = [reader EXCEPT !.pruned = reader.pruned] /\ reader.pruned \in BOOLEAN
  BY DEF TypeOK, Reader
<1>3. CASE CreateTurn(c)
  <2>1. turns' \in {turns, turns \cup {chat[c].turn}} /\ calls' = calls /\ reader' = reader
    BY <1>3 DEF CreateTurn
  <2>2. chat[c].turn \in Turn
    BY <1>3 DEF CreateTurn, Numbers, At
  <2>3. IsFiniteSet(turns \cup {chat[c].turn})
    BY <1>1, FS_AddElement
  <2> QED BY <1>1, <1>2, <2>1, <2>2, <2>3
<1>4. CASE RecordToolCall(c)
  <2>1. /\ calls' \in {calls, calls \cup {[chat |-> c, turn |-> CurrentTurnID(c), asked |-> chat[c].asked, nth |-> chat[c].left]}}
        /\ UNCHANGED <<turns, reader>> /\ At(c, "tools")
    BY <1>4 DEF RecordToolCall
  <2>2. CurrentTurnID(c) \in Ids /\ chat[c].asked \in Ids /\ chat[c].left \in Int
    <3>1. chat[c].turnNum \in Nat /\ chat[c].left \in Int /\ chat[c].pc = "tools"
      BY <1>1, <2>1 DEF At, Chat
    <3>2. chat[c].current = <<c, chat[c].turnNum>> /\ chat[c].asked = chat[c].current
      BY <3>1 DEF Numbers
    <3> QED BY <3>1, <3>2 DEF Ids, CurrentTurnID
  <2>3. [chat |-> c, turn |-> CurrentTurnID(c), asked |-> chat[c].asked, nth |-> chat[c].left] \in Call
    BY <2>2 DEF Call
  <2> QED BY <1>1, <1>2, <2>1, <2>3
<1>5. CASE PruneSessions(c)
  <2>1. /\ turns' \subseteq turns /\ calls' \subseteq calls
        /\ \/ reader' = reader
           \/ \E b \in BOOLEAN : reader' = [reader EXCEPT !.pruned = b]
    <3>1. reader.pruned \in BOOLEAN
      BY <1>2
    <3> QED BY <1>5, <3>1 DEF PruneSessions
  <2> QED BY <1>1, <1>2, <2>1, FS_Subset
<1>6. CASE \/ CheckMigration(c) \/ ApplyMigration(c) \/ New(c) \/ RecordUserTurn(c) \/ RecordAssistantTurn(c)
           \/ UpdateSession(c) \/ SendFails(c) \/ Finish(c) \/ Leave(c) \/ Age(c)
  BY <1>1, <1>2, <1>6
     DEF database, CheckMigration, ApplyMigration, New, RecordUserTurn, RecordAssistantTurn, UpdateSession,
         SendFails, Finish, Leave, Age
<1> QED BY <1>3, <1>4, <1>5, <1>6 DEF Acts

(***************************************************************************)
(* What a chat does leaves the other chats, their sessions and their turns *)
(* alone, unless it prunes.                                                *)
(***************************************************************************)
LEMMA OthersStay ==
  ASSUME TypeOK, NEW c \in Chats, Numbers(c), Acts(c) \/ Age(c), ~ PruneSessions(c), NEW d \in Chats \ {c}
  PROVE  /\ chat'[d] = chat[d] /\ Mine(d)' = Mine(d) /\ Has(d)' = Has(d)
         /\ Has(d) => sessions'[d] = sessions[d]
<1>1. chat'[d] = chat[d]
  <2>1. chat' = chat \/ \E new : chat' = [chat EXCEPT ![c] = new]
    BY DEF Acts, Becomes, CheckMigration, ApplyMigration, New, RecordUserTurn, RecordAssistantTurn, CreateTurn,
           UpdateSession, RecordToolCall, SendFails, Finish, Leave, Age
  <2> QED BY <2>1 DEF TypeOK
<1>2. Mine(d)' = Mine(d)
  <2>1. turns' \in {turns, turns \cup {chat[c].turn}}
    BY DEF Acts, database, CheckMigration, ApplyMigration, New, RecordUserTurn, RecordAssistantTurn, CreateTurn,
           UpdateSession, RecordToolCall, SendFails, Finish, Leave, Age
  <2>2. CASE CreateTurn(c)
    <3>1. chat[c].turn.id = <<c, chat[c].turnNum>>
      BY <2>2 DEF CreateTurn, At, Numbers
    <3> QED BY <2>1, <3>1 DEF Mine
  <2>3. CASE ~ CreateTurn(c)
    <3>1. turns' = turns
      BY <2>3 DEF Acts, database, CheckMigration, ApplyMigration, New, RecordUserTurn, RecordAssistantTurn,
                  UpdateSession, RecordToolCall, SendFails, Finish, Leave, Age
    <3> QED BY <3>1 DEF Mine
  <2> QED BY <2>2, <2>3
<1>3. Has(d)' = Has(d) /\ (Has(d) => sessions'[d] = sessions[d])
  <2>1. \/ sessions' = sessions
        \/ \E row : sessions' = Row(c, row)
        \/ sessions' = [sessions EXCEPT ![c].old = TRUE]
    BY DEF Acts, database, CheckMigration, ApplyMigration, New, RecordUserTurn, RecordAssistantTurn, CreateTurn,
           UpdateSession, UpdateRow, RecordToolCall, SendFails, Finish, Leave, Age
  <2>2. ASSUME NEW row, sessions' = Row(c, row)
        PROVE  Has(d)' = Has(d) /\ (Has(d) => sessions'[d] = sessions[d])
    BY <2>2 DEF Row, Has
  <2>3. ASSUME sessions' = [sessions EXCEPT ![c].old = TRUE]
        PROVE  Has(d)' = Has(d) /\ (Has(d) => sessions'[d] = sessions[d])
    BY <2>3 DEF TypeOK, Has
  <2>4. ASSUME sessions' = sessions
        PROVE  Has(d)' = Has(d) /\ (Has(d) => sessions'[d] = sessions[d])
    BY <2>4 DEF Has
  <2> QED BY <2>1, <2>2, <2>3, <2>4
<1> QED BY <1>1, <1>2, <1>3

(***************************************************************************)
(* A recorder that keeps its totals, and whose session and turns do not    *)
(* change, is still right about them.                                      *)
(***************************************************************************)
LEMMA TotalsKept ==
  ASSUME NEW c \in Chats, Totals(c), chat'[c].row = chat[c].row,
         chat'[c].pc \in Opening => chat[c].pc \in Opening,
         chat[c].pc \in Ended => chat'[c].pc \in Ended,
         Mine(c)' = Mine(c), Has(c)' = Has(c),
         Has(c) => Same(sessions'[c], sessions[c]) /\ sessions'[c].finished = sessions[c].finished
  PROVE  Totals(c)'
BY DEF Totals, Same, NoMore, Opening, Ended

(***************************************************************************)
(* The steps of a chat that change nothing of the sessions and the turns.  *)
(***************************************************************************)
LEMMA QuietSteps ==
  ASSUME TypeOK, NEW c \in Chats, Numbers(c), Totals(c),
         \/ CheckMigration(c) \/ ApplyMigration(c) \/ RecordUserTurn(c) \/ RecordAssistantTurn(c)
         \/ RecordToolCall(c) \/ SendFails(c) \/ Leave(c)
  PROVE  Numbers(c)' /\ Totals(c)'
<1> USE DEF At, Becomes
<1>1. chat[c] \in Chat /\ chat \in [Chats -> Chat] /\ chat[c].turnNum \in Nat /\ Mine(c) \subseteq Turn
  BY DEF TypeOK, Chat, Mine
<1>2. turns' = turns /\ sessions' = sessions
  BY DEF database, CheckMigration, ApplyMigration, RecordUserTurn, RecordAssistantTurn, RecordToolCall, SendFails, Leave
<1>3. Mine(c)' = Mine(c) /\ Has(c)' = Has(c) /\ (Has(c) => Same(sessions'[c], sessions[c]) /\ sessions'[c].finished = sessions[c].finished)
  BY <1>2 DEF Mine, Has, Same
<1>4. CASE CheckMigration(c) \/ ApplyMigration(c) \/ SendFails(c) \/ Leave(c)
  <2>1. /\ chat'[c].row = chat[c].row /\ chat'[c].turnNum = chat[c].turnNum
        /\ chat[c].pc \in Opening \cup {"model"} \/ chat'[c].pc = "gone"
        /\ chat'[c].pc \in Opening \cup {"disabled", "ready", "gone"}
        /\ chat'[c].pc \in Opening => chat[c].pc \in Opening
    <3>1. CASE SendFails(c) \/ Leave(c)
      <4>1. CASE SendFails(c)
        <5>1. chat'[c] = [chat[c] EXCEPT !.pc = "ready"] /\ chat[c].pc = "model"
          BY <1>1, <4>1 DEF SendFails
        <5> QED BY <1>1, <5>1 DEF Chat, Opening
      <4>2. CASE Leave(c)
        <5>1. chat'[c] = [chat[c] EXCEPT !.pc = "gone"]
          BY <1>1, <4>2 DEF Leave
        <5> QED BY <1>1, <5>1 DEF Chat, Opening
      <4> QED BY <3>1, <4>1, <4>2
    <3>2. CASE CheckMigration(c)
      <4>1. chat[c].pc = "opening" /\ chat' = [chat EXCEPT ![c] = chat'[c]]
        BY <1>1, <3>2 DEF CheckMigration
      <4>2. chat'[c] \in {[chat[c] EXCEPT !.migration = @ + 1], [chat[c] EXCEPT !.pc = "migrating"]}
        BY <1>1, <3>2 DEF CheckMigration
      <4> QED BY <1>1, <4>1, <4>2 DEF Chat, Opening
    <3>3. CASE ApplyMigration(c)
      <4>1. /\ chat[c].pc = "migrating"
            /\ chat'[c] \in {[chat[c] EXCEPT !.pc = "opening", !.migration = @ + 1], [chat[c] EXCEPT !.pc = "disabled"]}
        BY <1>1, <3>3 DEF ApplyMigration
      <4> QED BY <1>1, <4>1 DEF Chat, Opening
    <3> QED BY <1>4, <3>1, <3>2, <3>3
  <2>2. Numbers(c)'
    BY <1>3, <2>1 DEF Numbers, Opening
  <2>3. Totals(c)'
    BY <1>3, <2>1, TotalsKept DEF Opening, Ended
  <2> QED BY <2>2, <2>3
<1>5. CASE RecordUserTurn(c) \/ RecordAssistantTurn(c)
  <2>1. PICK r, t : /\ chat' = [chat EXCEPT ![c] = BeginTurn(r, t)]
                    /\ r \in Chat /\ r.turnNum = chat[c].turnNum /\ r.row = chat[c].row
                    /\ t \in Turn /\ t.id = <<c, chat[c].turnNum + 1>>
                    /\ t.role = "assistant" => r.asked = t.id
    <3>1. CASE RecordUserTurn(c)
      <4> DEFINE t == [id |-> <<c, chat[c].turnNum + 1>>, role |-> "user", tokens |-> 0, cost |-> 0]
      <4>1. chat' = [chat EXCEPT ![c] = BeginTurn(chat[c], t)]
        BY <3>1 DEF RecordUserTurn
      <4>2. t \in Turn /\ t.id = <<c, chat[c].turnNum + 1>> /\ t.role = "user"
        BY <1>1 DEF Turn, Ids, Roles
      <4> HIDE DEF t
      <4> QED BY <1>1, <4>1, <4>2
    <3>2. CASE RecordAssistantTurn(c)
      <4>1. PICK tokens \in 1..MaxTokens, n \in 0..MaxCalls :
              LET r == [chat[c] EXCEPT !.spent = @ + tokens, !.left = n]
                  id == <<c, chat[c].turnNum + 1>>
              IN Becomes(c, BeginTurn([r EXCEPT !.asked = id],
                                      [id |-> id, role |-> "assistant", tokens |-> tokens, cost |-> r.spent]))
        BY <3>2 DEF RecordAssistantTurn
      <4> DEFINE id == <<c, chat[c].turnNum + 1>>
                 r == [chat[c] EXCEPT !.spent = @ + tokens, !.left = n]
                 t == [id |-> id, role |-> "assistant", tokens |-> tokens, cost |-> r.spent]
                 q == [r EXCEPT !.asked = id]
      <4>2. tokens \in Nat /\ n \in Int /\ id \in Ids /\ chat[c].spent + tokens \in Nat
        BY <1>1, RecordingAssumption DEF Ids, Chat
      <4>3. r \in Chat /\ r.spent \in Nat /\ r.turnNum = chat[c].turnNum /\ r.row = chat[c].row
        BY <1>1, <4>2 DEF Chat
      <4>4. q \in Chat /\ q.turnNum = chat[c].turnNum /\ q.row = chat[c].row /\ q.asked = id
        <5> HIDE DEF r, id
        <5> QED BY <4>2, <4>3 DEF Chat
      <4>5. t \in Turn /\ t.id = id
        <5> HIDE DEF r, id
        <5> QED BY <4>2, <4>3 DEF Turn, Roles
      <4>6. chat' = [chat EXCEPT ![c] = BeginTurn(q, t)]
        BY <4>1
      <4> HIDE DEF r, t, q
      <4> QED BY <4>4, <4>5, <4>6
    <3> QED BY <1>5, <3>1, <3>2
  <2>2. /\ chat'[c].row = chat[c].row /\ chat'[c].turnNum = chat[c].turnNum + 1 /\ chat'[c].turn = t
        /\ chat'[c].role = t.role /\ chat'[c].pc = "insert" /\ chat'[c].current = t.id /\ chat'[c].asked = r.asked
    BY <1>1, <2>1 DEF BeginTurn, Chat
  <2>3. chat[c].pc \in {"ready", "model"}
    BY <1>5 DEF RecordUserTurn, RecordAssistantTurn
  <2>4. \A s \in Mine(c) : s.id[2] \in Nat /\ s.id[2] <= chat[c].turnNum
    BY <1>1 DEF Numbers, Turn, Ids
  <2>5. \A s \in Mine(c) : s.id[2] < chat[c].turnNum + 1 /\ s.id # t.id
    BY <1>1, <2>1, <2>4
  <2>6. \A s \in Mine(c) : s.id[2] <= chat[c].turnNum + 1
    BY <1>1, <2>4
  <2>7. Numbers(c)'
    <3> USE DEF Numbers
    <3>1. \A s \in Mine(c)' : s.id[2] <= chat'[c].turnNum
      BY <1>3, <2>2, <2>6
    <3>2. /\ chat'[c].turn \in Turn /\ chat'[c].turn.id = <<c, chat'[c].turnNum>> /\ chat'[c].turn.role = chat'[c].role
          /\ \A s \in Mine(c)' : s.id[2] < chat'[c].turnNum
      BY <1>3, <2>1, <2>2, <2>5
    <3>3. chat'[c].current = <<c, chat'[c].turnNum>> /\ chat'[c].pc # "tools"
      BY <2>1, <2>2
    <3>4. chat'[c].role = "assistant" => chat'[c].asked = chat'[c].current /\ \A s \in Mine(c)' : s.id = chat'[c].current => s.role = "assistant"
      BY <1>3, <2>1, <2>2, <2>5
    <3> QED BY <3>1, <3>2, <3>3, <3>4
  <2>8. Totals(c)'
    BY <1>3, <2>2, <2>3, TotalsKept DEF Opening, Ended
  <2> QED BY <2>7, <2>8
<1>6. CASE RecordToolCall(c)
  <2>1. /\ chat'[c].row = chat[c].row /\ chat'[c].turnNum = chat[c].turnNum /\ chat'[c].role = chat[c].role
        /\ chat'[c].asked = chat[c].asked /\ chat'[c].current = chat[c].current
        /\ chat[c].pc = "tools" /\ chat'[c].pc \in {"tools", "model", "ready"}
    BY <1>1, <1>6 DEF Chat, RecordToolCall
  <2>2. Numbers(c)'
    BY <1>3, <2>1 DEF Numbers
  <2>3. Totals(c)'
    BY <1>3, <2>1, TotalsKept DEF Opening, Ended
  <2> QED BY <2>2, <2>3
<1> QED BY <1>4, <1>5, <1>6

(***************************************************************************)
(* New: a session that is created has no turns and no totals.              *)
(***************************************************************************)
LEMMA NewStep ==
  ASSUME TypeOK, Keys, NEW c \in Chats, Numbers(c), Totals(c), New(c)
  PROVE  Numbers(c)' /\ Totals(c)'
<1>1. chat[c] \in Chat /\ chat \in [Chats -> Chat]
  BY DEF TypeOK
<1>2. /\ turns' = turns /\ chat[c].pc = "opening" /\ ~ Has(c)
      /\ chat'[c].pc = "ready" /\ chat'[c].row = chat[c].row /\ chat'[c].turnNum = chat[c].turnNum
  BY <1>1 DEF New, Becomes, Chat, At, Totals, Opening
<1>3. Mine(c) = {} /\ Mine(c)' = {}
  BY <1>2 DEF Mine, Keys
<1>4. Numbers(c)'
  BY <1>2, <1>3 DEF Numbers
<1>5. Same(chat[c].row, NewRow) /\ ~ chat[c].row.finished
  BY <1>2 DEF Totals, Opening, Ended
<1>6. CASE sessions' = sessions
  <2>1. ~ Has(c)'
    BY <1>2, <1>6 DEF Has
  <2> QED BY <1>2, <1>4, <1>5, <2>1 DEF Totals, Opening
<1>7. CASE sessions' = Row(c, NewRow)
  <2>1. sessions'[c] = NewRow
    BY <1>7 DEF Row
  <2>2. chat'[c].row.tokens = 0 /\ chat'[c].row.cost = 0 /\ chat'[c].row.turns = 0
    BY <1>2, <1>5 DEF Same, NewRow
  <2>3. NoMore(sessions'[c], chat'[c].row) /\ ~ sessions'[c].finished
    BY <2>1, <2>2 DEF NoMore, NewRow
  <2>4. Tokens(Mine(c)') = 0 /\ Cost(Mine(c)') = 0 /\ IsLast(Mine(c)', 0)
    BY <1>3, NoTurns
  <2> QED BY <1>2, <1>4, <1>5, <2>2, <2>3, <2>4 DEF Totals, Opening
<1> QED BY <1>6, <1>7 DEF New

(***************************************************************************)
(* CreateTurn: the totals and the turns grow together, or neither does.    *)
(***************************************************************************)
LEMMA CreateStep ==
  ASSUME TypeOK, NEW c \in Chats, Numbers(c), Totals(c), CreateTurn(c)
  PROVE  Numbers(c)' /\ Totals(c)'
<1>1. chat[c] \in Chat /\ chat \in [Chats -> Chat] /\ IsFiniteSet(turns) /\ turns \subseteq Turn
  BY DEF TypeOK
<1> DEFINE t == chat[c].turn
<1>2. PICK stored \in BOOLEAN : /\ stored => Has(c)
                                /\ turns' = IF stored THEN turns \cup {t} ELSE turns
                                /\ chat' = [chat EXCEPT ![c] = CountTurn(chat[c], stored)]
                                /\ chat[c].pc = "insert" /\ sessions' = sessions
  BY DEF CreateTurn, At, Becomes
<1>3. /\ t \in Turn /\ t.id = <<c, chat[c].turnNum>> /\ t.role = chat[c].role
      /\ \A s \in Mine(c) : s.id[2] < chat[c].turnNum
      /\ chat[c].current = t.id
      /\ chat[c].role = "assistant" => chat[c].asked = t.id
  BY <1>2 DEF Numbers
<1>4. chat[c].turnNum \in Nat /\ t.tokens \in Nat /\ t.cost \in Nat /\ chat[c].row \in SessionRow
  BY <1>1, <1>3 DEF Chat, Turn
<1>5. /\ chat'[c].turnNum = chat[c].turnNum /\ chat'[c].role = chat[c].role /\ chat'[c].asked = chat[c].asked
      /\ chat'[c].current = chat[c].current
  BY <1>1, <1>2 DEF CountTurn, Chat
<1>6. CASE ~ stored
  <2>1. chat'[c].row = chat[c].row /\ chat'[c].pc = Recorded(chat[c])
    BY <1>1, <1>2, <1>6 DEF CountTurn, Chat
  <2>2. /\ chat'[c].pc \in {"model", "tools", "ready"}
        /\ chat'[c].pc = "tools" => chat[c].role = "assistant"
    <3>1. chat[c].role \in Roles
      BY <1>1 DEF Chat
    <3> QED BY <2>1, <3>1 DEF Recorded, Roles
  <2>3. Mine(c)' = Mine(c) /\ Has(c)' = Has(c) /\ (Has(c) => Same(sessions'[c], sessions[c]) /\ sessions'[c].finished = sessions[c].finished)
    BY <1>2, <1>6 DEF Mine, Has, Same
  <2>4. Totals(c)'
    BY <1>2, <2>1, <2>2, <2>3, TotalsKept DEF Opening, Ended
  <2>5. Numbers(c)'
    BY <1>2, <1>3, <1>5, <2>2, <2>3 DEF Numbers
  <2> QED BY <2>4, <2>5
<1>7. CASE stored
  <2>1. /\ chat'[c].pc = "update" /\ chat'[c].row.turns = chat[c].turnNum
        /\ chat'[c].row.tokens = chat[c].row.tokens + t.tokens /\ chat'[c].row.cost = chat[c].row.cost + t.cost
        /\ chat'[c].row.finished = chat[c].row.finished
    BY <1>1, <1>2, <1>4, <1>7 DEF CountTurn, Chat, SessionRow
  <2>2. Mine(c)' = Mine(c) \cup {t} /\ Has(c) /\ Has(c)'
    BY <1>2, <1>3, <1>7 DEF Mine, Has
  <2>3. Mine(c) \subseteq Turn /\ IsFiniteSet(Mine(c))
    BY <1>1, FS_Subset DEF Mine
  <2>4. \A s \in Mine(c) : s.id[2] \in Nat /\ s.id[2] < chat[c].turnNum
    BY <1>3, <2>3 DEF Turn, Ids
  <2>5. t \notin Mine(c)
    BY <1>3, <1>4, <2>4
  <2>6. Tokens(Mine(c) \cup {t}) = Tokens(Mine(c)) + t.tokens /\ Cost(Mine(c) \cup {t}) = Cost(Mine(c)) + t.cost
    <3> HIDE DEF t
    <3> QED BY <1>3, <2>3, <2>5, OneMore
  <2>7. \A s \in Mine(c)' : s.id[2] <= chat[c].turnNum
    BY <1>3, <1>4, <2>2, <2>4
  <2>8. IsLast(Mine(c)', chat[c].turnNum)
    BY <1>3, <2>2, <2>7 DEF IsLast
  <2>9. Numbers(c)'
    <3>1. chat[c].role = "assistant" => \A s \in Mine(c)' : s.id = chat[c].current => s.role = "assistant"
      BY <1>3, <2>2, <1>4, <2>4
    <3> QED BY <1>3, <1>5, <2>1, <2>7, <3>1 DEF Numbers
  <2>10. /\ chat[c].row.tokens = Tokens(Mine(c)) /\ chat[c].row.cost = Cost(Mine(c))
         /\ NoMore(sessions[c], chat[c].row) /\ IsLast(Mine(c), chat[c].row.turns)
         /\ ~ chat[c].row.finished /\ ~ sessions[c].finished
    BY <1>2, <2>2 DEF Totals, Ended
  <2>11. NoMore(sessions[c], chat'[c].row)
    <3>1. chat[c].row.turns <= chat[c].turnNum
      BY <1>4, <2>4, <2>10 DEF IsLast
    <3>2. sessions[c] \in SessionRow
      BY <2>2 DEF TypeOK, Has
    <3> QED BY <1>4, <2>1, <2>10, <3>1, <3>2 DEF NoMore, SessionRow
  <2>12. Totals(c)'
    <3>1. chat'[c].row.tokens = Tokens(Mine(c)') /\ chat'[c].row.cost = Cost(Mine(c)')
      BY <2>1, <2>2, <2>6, <2>10
    <3> QED BY <1>2, <2>1, <2>2, <2>8, <2>10, <2>11, <3>1 DEF Totals, Opening, Ended
  <2> QED BY <2>9, <2>12
<1> QED BY <1>6, <1>7

(***************************************************************************)
(* UpdateSession, Finish: the row in the store becomes the recorder's.     *)
(***************************************************************************)
LEMMA WriteSteps ==
  ASSUME TypeOK, NEW c \in Chats, Numbers(c), Totals(c), UpdateSession(c) \/ Finish(c)
  PROVE  Numbers(c)' /\ Totals(c)'
<1>1. chat[c] \in Chat /\ chat \in [Chats -> Chat] /\ chat[c].row \in SessionRow /\ chat[c].role \in Roles
  BY DEF TypeOK, Chat
<1>2. turns' = turns /\ Mine(c)' = Mine(c)
  BY DEF UpdateSession, Finish, Mine
<1>3. /\ chat'[c].turnNum = chat[c].turnNum /\ chat'[c].role = chat[c].role /\ chat'[c].asked = chat[c].asked
      /\ chat'[c].current = chat[c].current /\ Same(chat'[c].row, chat[c].row)
      /\ \/ UpdateSession(c) /\ chat[c].pc = "update" /\ chat'[c].pc = Recorded(chat[c]) /\ chat'[c].row.finished = chat[c].row.finished
         \/ Finish(c) /\ chat[c].pc = "ready" /\ chat'[c].pc \in Ended /\ chat'[c].row.finished
  <2>1. CASE UpdateSession(c)
    BY <1>1, <2>1 DEF UpdateSession, Becomes, At, Chat, Same
  <2>2. CASE Finish(c)
    <3>1. /\ chat[c].pc = "ready"
          /\ \E pc \in Ended : chat' = [chat EXCEPT ![c] = [chat[c] EXCEPT !.row.finished = TRUE, !.pc = pc]]
      BY <2>2 DEF Finish, Becomes, At, Ended
    <3> QED BY <1>1, <2>2, <3>1 DEF Chat, Same, SessionRow
  <2> QED BY <2>1, <2>2
<1>4. /\ Recorded(chat[c]) \in {"model", "tools", "ready"}
      /\ Recorded(chat[c]) = "tools" => chat[c].role = "assistant"
  BY <1>1 DEF Recorded, Roles
<1>5. Numbers(c)'
  <2>1. CASE chat'[c].pc \in Ended \cup {"model", "ready"}
    BY <1>2, <1>3, <2>1 DEF Numbers, Ended
  <2>2. CASE chat'[c].pc = "tools"
    BY <1>2, <1>3, <1>4, <2>2 DEF Numbers, Ended
  <2> QED BY <1>3, <1>4, <2>1, <2>2
<1>6. \/ sessions' = sessions
      \/ Has(c) /\ \E b \in BOOLEAN : sessions' = Row(c, [chat'[c].row EXCEPT !.old = b])
  <2>1. ASSUME Has(c) PROVE sessions[c].old \in BOOLEAN
    BY <2>1 DEF TypeOK, Has, SessionRow
  <2>2. CASE UpdateSession(c)
    <3>1. chat'[c].row = chat[c].row
      BY <1>1, <2>2 DEF UpdateSession, Becomes, Chat
    <3> QED BY <2>1, <2>2, <3>1 DEF UpdateSession, UpdateRow
  <2>3. CASE Finish(c)
    <3>1. PICK ok \in BOOLEAN :
            LET r == [chat[c] EXCEPT !.row.finished = TRUE, !.pc = IF ok THEN "prune" ELSE "gone"]
            IN /\ sessions' = IF ok /\ Has(c) THEN Row(c, [r.row EXCEPT !.old = sessions[c].old]) ELSE sessions
               /\ chat' = [chat EXCEPT ![c] = r]
      BY <2>3 DEF Finish, Becomes
    <3> DEFINE r == [chat[c] EXCEPT !.row.finished = TRUE, !.pc = IF ok THEN "prune" ELSE "gone"]
    <3>2. chat'[c] = r /\ (sessions' = IF ok /\ Has(c) THEN Row(c, [r.row EXCEPT !.old = sessions[c].old]) ELSE sessions)
      BY <1>1, <3>1
    <3> HIDE DEF r
    <3> QED BY <2>1, <3>2
  <2> QED BY <2>2, <2>3
<1>7. Has(c)' = Has(c)
  BY <1>6 DEF Row, Has
<1>8. ~ chat[c].row.finished /\ chat'[c].pc \notin Opening /\ (chat'[c].row.finished => chat'[c].pc \in Ended)
  BY <1>3, <1>4 DEF Totals, Ended, Opening
<1>9. CASE ~ Has(c)
  BY <1>5, <1>7, <1>8, <1>9 DEF Totals
<1>10. CASE Has(c)
  <2>1. /\ chat[c].row.tokens = Tokens(Mine(c)) /\ chat[c].row.cost = Cost(Mine(c))
        /\ IsLast(Mine(c), chat[c].row.turns) /\ NoMore(sessions[c], chat[c].row)
        /\ ~ sessions[c].finished
    BY <1>3, <1>10 DEF Totals, Ended
  <2>2. /\ chat'[c].row.tokens = Tokens(Mine(c)') /\ chat'[c].row.cost = Cost(Mine(c)')
        /\ IsLast(Mine(c)', chat'[c].row.turns) /\ NoMore(sessions[c], chat'[c].row)
    BY <1>2, <1>3, <2>1 DEF Same, NoMore
  <2>3. chat'[c].row \in SessionRow
    <3>1. CASE UpdateSession(c)
      BY <1>1, <3>1 DEF UpdateSession, Becomes, Chat
    <3>2. CASE Finish(c)
      <4>1. [chat[c].row EXCEPT !.finished = TRUE] \in SessionRow
        BY <1>1 DEF SessionRow
      <4>2. chat'[c].row = [chat[c].row EXCEPT !.finished = TRUE]
        BY <1>1, <3>2 DEF Finish, Becomes, Chat
      <4> QED BY <4>1, <4>2
    <3> QED BY <3>1, <3>2
  <2>4. CASE sessions' = sessions
    BY <1>5, <1>7, <1>8, <2>1, <2>2, <2>4 DEF Totals
  <2>5. CASE \E b \in BOOLEAN : sessions' = Row(c, [chat'[c].row EXCEPT !.old = b])
    <3>1. Same(sessions'[c], chat'[c].row) /\ sessions'[c].finished = chat'[c].row.finished
      BY <2>3, <2>5 DEF Row, Same, SessionRow
    <3>2. NoMore(sessions'[c], chat'[c].row)
      BY <2>3, <3>1 DEF Same, NoMore, SessionRow
    <3> QED BY <1>5, <1>8, <2>2, <3>1, <3>2 DEF Totals
  <2> QED BY <1>6, <2>4, <2>5
<1> QED BY <1>5, <1>9, <1>10

(***************************************************************************)
(* PruneSessions: a session stays whole, or it goes with all its turns.    *)
(***************************************************************************)
LEMMA PruneStep ==
  ASSUME TypeOK, NEW c \in Chats, PruneSessions(c), NEW d \in Chats, Numbers(d), Totals(d)
  PROVE  Numbers(d)' /\ Totals(d)'
<1>1. chat[d] \in Chat /\ chat \in [Chats -> Chat]
  BY DEF TypeOK
<1>2. /\ chat'[d] = chat[d] \/ (chat[d].pc = "prune" /\ chat'[d] = [chat[d] EXCEPT !.pc = "gone"])
      /\ \E old \in SUBSET DOMAIN sessions :
            \/ UNCHANGED <<sessions, turns>>
            \/ /\ sessions' = [s \in DOMAIN sessions \ old |-> sessions[s]]
               /\ turns' = {t \in turns : t.id[1] \notin old}
  BY <1>1 DEF PruneSessions, Becomes, At
<1>3. /\ chat'[d].row = chat[d].row /\ chat'[d].turnNum = chat[d].turnNum
      /\ chat'[d].pc = chat[d].pc \/ (chat[d].pc = "prune" /\ chat'[d].pc = "gone")
      /\ chat'[d].pc # "gone" => chat'[d] = chat[d]
  BY <1>1, <1>2 DEF Chat
<1>4. /\ Mine(d)' \subseteq Mine(d)
      /\ Has(d)' => Has(d) /\ sessions'[d] = sessions[d] /\ Mine(d)' = Mine(d)
  BY <1>2 DEF Mine, Has
<1>5. Numbers(d)'
  <2>1. CASE chat'[d].pc = "gone"
    BY <1>3, <1>4, <2>1 DEF Numbers
  <2>2. CASE chat'[d].pc # "gone"
    BY <1>3, <1>4, <2>2 DEF Numbers
  <2> QED BY <2>1, <2>2
<1>6. Totals(d)'
  BY <1>3, <1>4 DEF Totals, Opening, Ended
<1> QED BY <1>5, <1>6

(***************************************************************************)
(* Age: the totals in the row are as before.                               *)
(***************************************************************************)
LEMMA AgeStep ==
  ASSUME TypeOK, NEW c \in Chats, Numbers(c), Totals(c), Age(c)
  PROVE  Numbers(c)' /\ Totals(c)'
<1>1. /\ chat' = chat /\ turns' = turns /\ c \in DOMAIN sessions /\ sessions[c] \in SessionRow
      /\ sessions' = [sessions EXCEPT ![c].old = TRUE]
  BY DEF Age, TypeOK, Has
<1>2. Same(sessions'[c], sessions[c]) /\ sessions'[c].finished = sessions[c].finished
  BY <1>1 DEF TypeOK, SessionRow, Same
<1>3. Mine(c)' = Mine(c) /\ Has(c)' = Has(c) /\ chat'[c] = chat[c]
  BY <1>1 DEF Mine, Has, TypeOK
<1> QED BY <1>2, <1>3, Kept

(***************************************************************************)
(* Every recorder stays right about its numbers and its totals.            *)
(***************************************************************************)
LEMMA ChatsStep ==
  ASSUME TypeOK, Keys, \A d \in Chats : Numbers(d) /\ Totals(d), Next
  PROVE  \A d \in Chats : Numbers(d)' /\ Totals(d)'
<1> SUFFICES ASSUME NEW d \in Chats PROVE Numbers(d)' /\ Totals(d)'
  OBVIOUS
<1>1. ASSUME NEW c \in Chats, Acts(c) \/ Age(c)
      PROVE  Numbers(d)' /\ Totals(d)'
  <2>1. CASE PruneSessions(c)
    BY <2>1, PruneStep
  <2>2. CASE ~ PruneSessions(c) /\ d # c
    <3>1. d \in Chats \ {c}
      BY <2>2
    <3>2. /\ chat'[d] = chat[d] /\ Mine(d)' = Mine(d) /\ Has(d)' = Has(d)
          /\ Has(d) => sessions'[d] = sessions[d]
      BY <1>1, <2>2, <3>1, OthersStay
    <3>3. Has(d) => Same(sessions'[d], sessions[d]) /\ sessions'[d].finished = sessions[d].finished
      BY <3>2 DEF Same
    <3> QED BY <3>2, <3>3, Kept
  <2>3. CASE ~ PruneSessions(c) /\ d = c
    <3>1. CASE New(c)
      BY <2>3, <3>1, NewStep
    <3>2. CASE CreateTurn(c)
      BY <2>3, <3>2, CreateStep
    <3>3. CASE UpdateSession(c) \/ Finish(c)
      BY <2>3, <3>3, WriteSteps
    <3>4. CASE Age(c)
      BY <2>3, <3>4, AgeStep
    <3>5. CASE \/ CheckMigration(c) \/ ApplyMigration(c) \/ RecordUserTurn(c) \/ RecordAssistantTurn(c)
               \/ RecordToolCall(c) \/ SendFails(c) \/ Leave(c)
      BY <2>3, <3>5, QuietSteps
    <3> QED BY <1>1, <2>3, <3>1, <3>2, <3>3, <3>4, <3>5 DEF Acts
  <2> QED BY <2>1, <2>2, <2>3
<1>2. CASE Reads
  <2>1. chat' = chat /\ turns' = turns /\ sessions' = sessions
    BY <1>2 DEF Reads, database, Request, handleListSessions, ReadRow, ReadTurns, ReadCalls, Respond
  <2>2. Mine(d)' = Mine(d) /\ Has(d)' = Has(d) /\ chat'[d] = chat[d]
    BY <2>1 DEF Mine, Has
  <2>3. Has(d) => Same(sessions'[d], sessions[d]) /\ sessions'[d].finished = sessions[d].finished
    BY <2>1 DEF Same
  <2> QED BY <2>2, <2>3, Kept
<1> QED BY <1>1, <1>2 DEF Next, Acts, Reads

(***************************************************************************)
(* The foreign keys hold, and a call is stored under the reply that asked. *)
(***************************************************************************)
LEMMA KeysStep ==
  ASSUME TypeOK, Keys, \A d \in Chats : Numbers(d) /\ Totals(d), Next
  PROVE  Keys'
<1> USE DEF CallsInTheirTurn
<1>1. CASE UNCHANGED <<turns, calls>> /\ DOMAIN sessions \subseteq DOMAIN sessions'
  BY <1>1 DEF Keys, Has
<1>2. ASSUME NEW c \in Chats, CreateTurn(c) PROVE Keys'
  <2>1. /\ turns' \in {turns, turns \cup {chat[c].turn}} /\ (turns' # turns => Has(c))
        /\ UNCHANGED <<sessions, calls>>
    BY <1>2 DEF CreateTurn
  <2>2. chat[c].turn.id = <<c, chat[c].turnNum>>
    BY <1>2 DEF CreateTurn, At, Numbers
  <2> QED BY <2>1, <2>2 DEF Keys, Has
<1>3. ASSUME NEW c \in Chats, RecordToolCall(c) PROVE Keys'
  <2> DEFINE k == [chat |-> c, turn |-> CurrentTurnID(c), asked |-> chat[c].asked, nth |-> chat[c].left]
  <2>1. /\ calls' = calls \/ (calls' = calls \cup {k} /\ \E t \in turns : t.id = CurrentTurnID(c))
        /\ UNCHANGED <<turns, sessions>> /\ chat[c].pc = "tools"
    BY <1>3 DEF RecordToolCall, At
  <2>2. /\ chat[c].current = <<c, chat[c].turnNum>> /\ chat[c].asked = chat[c].current
        /\ \A t \in Mine(c) : t.id = chat[c].current => t.role = "assistant"
    BY <2>1 DEF Numbers
  <2>3. /\ k.chat = c /\ k.turn = chat[c].current /\ k.asked = k.turn /\ k.turn[1] = c
    BY <2>2 DEF CurrentTurnID
  <2>4. CASE calls' = calls
    BY <2>1, <2>4 DEF Keys, Has
  <2>5. CASE calls' # calls
    <3>1. calls' = calls \cup {k}
      BY <2>1, <2>5
    <3>2. PICK t \in turns : t.id = CurrentTurnID(c)
      BY <2>1, <2>5
    <3>3. t.id = k.turn /\ t \in Mine(c) /\ t.role = "assistant"
      BY <2>2, <2>3, <3>2 DEF Mine, CurrentTurnID
    <3> HIDE DEF k
    <3> QED BY <2>1, <2>3, <3>1, <3>3 DEF Keys, Has
  <2> QED BY <2>4, <2>5
<1>4. ASSUME NEW c \in Chats, PruneSessions(c) PROVE Keys'
  <2>1. CASE UNCHANGED <<sessions, turns, calls>>
    BY <1>1, <2>1
  <2>2. CASE \E old \in SUBSET DOMAIN sessions :
                /\ sessions' = [s \in DOMAIN sessions \ old |-> sessions[s]]
                /\ turns' = {t \in turns : t.id[1] \notin old}
                /\ calls' = {k \in calls : k.chat \notin old}
    BY <2>2 DEF Keys, Has
  <2>3. \/ UNCHANGED <<sessions, turns, calls>>
        \/ \E old \in SUBSET DOMAIN sessions :
              /\ sessions' = [s \in DOMAIN sessions \ old |-> sessions[s]]
              /\ turns' = {t \in turns : t.id[1] \notin old}
              /\ calls' = {k \in calls : k.chat \notin old}
    BY <1>4 DEF PruneSessions
  <2> QED BY <2>1, <2>2, <2>3
<1>5. ASSUME NEW c \in Chats, New(c) \/ UpdateSession(c) \/ Finish(c) \/ Age(c) PROVE Keys'
  <2>1. UNCHANGED <<turns, calls>>
    BY <1>5 DEF New, UpdateSession, Finish, Age
  <2>2. sessions' = sessions \/ (\E row : sessions' = Row(c, row)) \/ sessions' = [sessions EXCEPT ![c].old = TRUE]
    BY <1>5 DEF New, UpdateSession, UpdateRow, Finish, Age
  <2>3. DOMAIN sessions \subseteq DOMAIN sessions'
    BY <2>2 DEF Row
  <2> QED BY <1>1, <2>1, <2>3
<1>6. ASSUME NEW c \in Chats,
             \/ CheckMigration(c) \/ ApplyMigration(c) \/ RecordUserTurn(c) \/ RecordAssistantTurn(c)
             \/ SendFails(c) \/ Leave(c)
      PROVE  Keys'
  BY <1>1, <1>6 DEF database, CheckMigration, ApplyMigration, RecordUserTurn, RecordAssistantTurn, SendFails, Leave
<1>7. CASE Reads
  BY <1>1, <1>7 DEF Reads, database, Request, handleListSessions, ReadRow, ReadTurns, ReadCalls, Respond
<1> QED BY <1>2, <1>3, <1>4, <1>5, <1>6, <1>7 DEF Next, Reads

(***************************************************************************)
(* Requests are answered in the order of the three queries.                *)
(***************************************************************************)
LEMMA Queries ==
  /\ ReadOrder[1] = "row" /\ NextRead("row") = "turns" /\ NextRead("turns") = "calls" /\ NextRead("calls") = "done"
<1>1. ReadOrder[1] = "row" /\ ReadOrder[2] = "turns" /\ ReadOrder[3] = "calls"
  BY DEF ReadOrder
<1>2. 1..3 = {1, 2, 3}
  OBVIOUS
<1>3. (CHOOSE i \in 1..3 : ReadOrder[i] = "row") = 1
  BY <1>1, <1>2
<1>4. (CHOOSE i \in 1..3 : ReadOrder[i] = "turns") = 2
  BY <1>1, <1>2
<1>5. (CHOOSE i \in 1..3 : ReadOrder[i] = "calls") = 3
  BY <1>1, <1>2
<1> QED BY <1>1, <1>3, <1>4, <1>5 DEF NextRead

(***************************************************************************)
(* The totals of a session only grow, in the store and in the recorder; a  *)
(* session appears before anything is recorded, and disappears only when   *)
(* it is pruned.                                                           *)
(***************************************************************************)
LEMMA Grows ==
  ASSUME TypeOK, \A d \in Chats : Numbers(d) /\ Totals(d), NEW c \in Chats, Acts(c) \/ Age(c), NEW d \in Chats
  PROVE  /\ Has(d) /\ Has(d)' => NoMore(sessions[d], sessions'[d])
         /\ ~ Has(d) /\ Has(d)' => chat[d].pc \in Opening /\ sessions'[d] = NewRow
         /\ Has(d) /\ ~ Has(d)' /\ reader.id = d => reader'.pruned
         /\ Has(d) => chat[d].row.turns <= chat'[d].row.turns
         /\ chat'[d].pc \in Opening => chat[d].pc \in Opening
<1> USE DEF At, Becomes
<1>1. /\ chat[d] \in Chat /\ chat \in [Chats -> Chat] /\ chat[d].row \in SessionRow /\ chat[d].row.turns \in Nat
      /\ Has(d) => sessions[d] \in SessionRow /\ NoMore(sessions[d], sessions[d])
  BY DEF TypeOK, Chat, SessionRow, Has, NoMore
<1>2. CASE PruneSessions(c)
  <2>1. /\ chat'[d] = chat[d] \/ chat'[d] = [chat[d] EXCEPT !.pc = "gone"]
        /\ \E old \in SUBSET DOMAIN sessions :
              \/ sessions' = sessions
              \/ /\ sessions' = [s \in DOMAIN sessions \ old |-> sessions[s]]
                 /\ reader' = [reader EXCEPT !.pruned = @ \/ reader.id \in old]
    BY <1>1, <1>2 DEF PruneSessions
  <2>2. /\ Has(d)' => Has(d) /\ sessions'[d] = sessions[d]
        /\ Has(d) /\ ~ Has(d)' /\ reader.id = d => reader'.pruned
    BY <2>1 DEF Has, TypeOK, Reader
  <2>3. chat'[d].row = chat[d].row /\ (chat'[d].pc \in Opening => chat'[d].pc = chat[d].pc)
    BY <1>1, <2>1 DEF Chat, Opening
  <2> QED BY <1>1, <2>2, <2>3
<1>3. CASE ~ PruneSessions(c) /\ d # c
  <2>1. d \in Chats \ {c}
    BY <1>3
  <2>2. /\ chat'[d] = chat[d] /\ Has(d)' = Has(d)
        /\ Has(d) => sessions'[d] = sessions[d]
    BY <1>3, <2>1, OthersStay
  <2> QED BY <1>1, <2>2
<1>4. CASE ~ PruneSessions(c) /\ d = c
  <2>1. CASE New(c)
    <3>1. /\ chat[c].pc = "opening" /\ ~ Has(c) /\ chat'[c].pc = "ready"
          /\ sessions' = sessions \/ sessions' = Row(c, NewRow)
      BY <1>1, <1>4, <2>1 DEF New, Totals, Opening, Chat
    <3>2. sessions' = Row(c, NewRow) => sessions'[c] = NewRow
      BY DEF Row
    <3> QED BY <1>4, <3>1, <3>2 DEF Has, Opening
  <2>2. CASE CreateTurn(c)
    <3>1. /\ sessions' = sessions /\ chat[c].pc = "insert"
          /\ chat'[c] = CountTurn(chat[c], TRUE) \/ chat'[c] = CountTurn(chat[c], FALSE)
      BY <1>1, <1>4, <2>2 DEF CreateTurn
    <3>2. chat'[c].row.turns \in {chat[c].row.turns, chat[c].turnNum} /\ chat'[c].pc \notin Opening
      <4>1. CASE chat'[c] = CountTurn(chat[c], FALSE)
        BY <1>1, <1>4, <4>1 DEF CountTurn, Recorded, Chat, Opening
      <4>2. CASE chat'[c] = CountTurn(chat[c], TRUE)
        <5>1. chat[c] \in Chat /\ chat[c].row \in SessionRow
          BY <1>1, <1>4
        <5>2. CountTurn(chat[c], TRUE).row.turns = chat[c].turnNum
          BY <5>1 DEF CountTurn, Chat, SessionRow
        <5>3. CountTurn(chat[c], TRUE).pc = "update"
          BY <5>1 DEF CountTurn, Chat
        <5> QED BY <4>2, <5>2, <5>3 DEF Opening
      <4> QED BY <3>1, <4>1, <4>2
    <3>3. Has(c) => chat[c].row.turns <= chat[c].turnNum
      <4> SUFFICES ASSUME Has(c) PROVE chat[c].row.turns <= chat[c].turnNum
        OBVIOUS
      <4>1. IsLast(Mine(c), chat[c].row.turns) /\ \A t \in Mine(c) : t.id[2] <= chat[c].turnNum
        BY <3>1 DEF Totals, Numbers
      <4>2. chat[c].turnNum \in Nat
        BY <1>1, <1>4 DEF Chat
      <4> QED BY <4>1, <4>2 DEF IsLast
    <3>4. Has(c)' = Has(c) /\ sessions'[c] = sessions[c]
      BY <3>1 DEF Has
    <3> QED BY <1>1, <1>4, <3>1, <3>2, <3>3, <3>4
  <2>3. CASE UpdateSession(c) \/ Finish(c)
    <3>1. /\ chat'[c].row.turns = chat[c].row.turns /\ chat'[c].pc \notin Opening /\ Same(chat'[c].row, chat[c].row)
      <4>1. CASE UpdateSession(c)
        BY <1>1, <1>4, <4>1 DEF UpdateSession, Recorded, Chat, Opening, Same
      <4>2. CASE Finish(c)
        <5>1. \E pc \in {"prune", "gone"} : chat' = [chat EXCEPT ![c] = [chat[c] EXCEPT !.row.finished = TRUE, !.pc = pc]]
          BY <4>2 DEF Finish
        <5> QED BY <1>1, <1>4, <5>1 DEF Chat, SessionRow, Opening, Same
      <4> QED BY <2>3, <4>1, <4>2
    <3>2. \/ sessions' = sessions
          \/ Has(c) /\ \E row : sessions' = Row(c, row) /\ Same(row, chat[c].row)
      <4>1. CASE UpdateSession(c)
        <5>1. Same([chat[c].row EXCEPT !.old = sessions[c].old], chat[c].row)
          BY <1>1, <1>4 DEF Same, SessionRow
        <5> QED BY <4>1, <5>1 DEF UpdateSession, UpdateRow
      <4>2. CASE Finish(c)
        <5>1. PICK ok \in BOOLEAN :
                LET r == [chat[c] EXCEPT !.row.finished = TRUE, !.pc = IF ok THEN "prune" ELSE "gone"]
                IN sessions' = IF ok /\ Has(c) THEN Row(c, [r.row EXCEPT !.old = sessions[c].old]) ELSE sessions
          BY <4>2 DEF Finish
        <5> DEFINE r == [chat[c] EXCEPT !.row.finished = TRUE, !.pc = IF ok THEN "prune" ELSE "gone"]
        <5>2. r.row = [chat[c].row EXCEPT !.finished = TRUE]
          BY <1>1, <1>4 DEF Chat
        <5>3. Same([r.row EXCEPT !.old = sessions[c].old], chat[c].row)
          BY <1>1, <1>4, <5>2 DEF Same, SessionRow
        <5>4. sessions' = IF ok /\ Has(c) THEN Row(c, [r.row EXCEPT !.old = sessions[c].old]) ELSE sessions
          BY <5>1
        <5> HIDE DEF r
        <5> QED BY <5>3, <5>4
      <4> QED BY <2>3, <4>1, <4>2
    <3>3. Has(c)' = Has(c)
      BY <3>2 DEF Has, Row
    <3>4. Has(c) => NoMore(sessions[c], sessions'[c])
      <4> SUFFICES ASSUME Has(c) PROVE NoMore(sessions[c], sessions'[c])
        OBVIOUS
      <4>1. sessions' = sessions \/ Same(sessions'[c], chat[c].row)
        BY <3>2 DEF Row
      <4>2. NoMore(sessions[c], chat[c].row)
        BY DEF Totals
      <4> QED BY <1>1, <1>4, <4>1, <4>2 DEF Same, NoMore
    <3> QED BY <1>1, <1>4, <3>1, <3>3, <3>4
  <2>4. CASE Age(c)
    <3>1. /\ chat' = chat /\ c \in DOMAIN sessions /\ sessions' = [sessions EXCEPT ![c].old = TRUE]
      BY <2>4 DEF Age, Has
    <3>2. Has(c)' = Has(c) /\ Same(sessions'[c], sessions[c])
      BY <1>1, <1>4, <3>1 DEF Has, Same, SessionRow, TypeOK
    <3> QED BY <1>1, <1>4, <3>1, <3>2 DEF Same, NoMore
  <2>5. CASE RecordUserTurn(c) \/ RecordAssistantTurn(c)
    <3>1. /\ sessions' = sessions /\ chat[c].pc \in {"ready", "model"}
          /\ \E r, t : chat' = [chat EXCEPT ![c] = BeginTurn(r, t)] /\ r \in Chat /\ r.row = chat[c].row
      <4>1. CASE RecordUserTurn(c)
        BY <1>1, <1>4, <4>1 DEF RecordUserTurn, database
      <4>2. CASE RecordAssistantTurn(c)
        <5>1. /\ sessions' = sessions /\ chat[c].pc \in {"ready", "model"}
          BY <4>2 DEF RecordAssistantTurn, database
        <5>2. PICK tokens \in 1..MaxTokens, n \in 0..MaxCalls :
                LET r == [chat[c] EXCEPT !.spent = @ + tokens, !.left = n]
                    id == <<c, chat[c].turnNum + 1>>
                IN chat' = [chat EXCEPT ![c] = BeginTurn([r EXCEPT !.asked = id],
                                        [id |-> id, role |-> "assistant", tokens |-> tokens, cost |-> r.spent])]
          BY <4>2 DEF RecordAssistantTurn
        <5> DEFINE id == <<c, chat[c].turnNum + 1>>
                   r == [chat[c] EXCEPT !.spent = @ + tokens, !.left = n]
                   q == [r EXCEPT !.asked = id]
                   t == [id |-> id, role |-> "assistant", tokens |-> tokens, cost |-> r.spent]
        <5>3. id \in Ids /\ n \in Int /\ chat[c].spent + tokens \in Nat
          BY <1>1, <1>4, RecordingAssumption DEF Ids, Chat
        <5>4. r \in Chat /\ r.row = chat[c].row
          BY <1>1, <1>4, <5>3 DEF Chat
        <5>5. q \in Chat /\ q.row = chat[c].row
          <6> HIDE DEF r, id
          <6> QED BY <5>3, <5>4 DEF Chat
        <5>6. chat' = [chat EXCEPT ![c] = BeginTurn(q, t)]
          BY <5>2
        <5> HIDE DEF q, t
        <5> QED BY <5>1, <5>5, <5>6
      <4> QED BY <2>5, <4>1, <4>2
    <3>2. chat'[c].row = chat[c].row /\ chat'[c].pc = "insert"
      BY <1>1, <1>4, <3>1 DEF BeginTurn, Chat
    <3>3. Has(c)' = Has(c) /\ sessions'[c] = sessions[c]
      BY <3>1 DEF Has
    <3> QED BY <1>1, <1>4, <3>2, <3>3 DEF Opening
  <2>6. CASE CheckMigration(c) \/ ApplyMigration(c) \/ RecordToolCall(c) \/ SendFails(c) \/ Leave(c)
    <3>1. sessions' = sessions /\ Has(c)' = Has(c)
      BY <2>6 DEF database, CheckMigration, ApplyMigration, RecordToolCall, SendFails, Leave, Has
    <3>2. chat'[c].row = chat[c].row /\ (chat'[c].pc \in Opening => chat[c].pc \in Opening)
      <4>1. CASE SendFails(c) \/ Leave(c)
        <5>1. \E pc \in {"ready", "gone"} : chat' = [chat EXCEPT ![c] = [chat[c] EXCEPT !.pc = pc]]
          BY <4>1 DEF SendFails, Leave
        <5>2. chat[c] \in Chat
          BY <1>1, <1>4
        <5> QED BY <1>1, <5>1, <5>2 DEF Chat, Opening
      <4>2. CASE CheckMigration(c)
        <5>1. /\ chat[c].pc = "opening"
              /\ chat'[c] \in {[chat[c] EXCEPT !.migration = @ + 1], [chat[c] EXCEPT !.pc = "migrating"]}
          BY <1>1, <1>4, <4>2 DEF CheckMigration
        <5> QED BY <1>1, <1>4, <5>1 DEF Chat, Opening
      <4>3. CASE ApplyMigration(c)
        <5>1. /\ chat[c].pc = "migrating"
              /\ chat'[c] \in {[chat[c] EXCEPT !.pc = "opening", !.migration = @ + 1], [chat[c] EXCEPT !.pc = "disabled"]}
          BY <1>1, <1>4, <4>3 DEF ApplyMigration
        <5> QED BY <1>1, <1>4, <5>1 DEF Chat, Opening
      <4>4. CASE RecordToolCall(c)
        <5>1. \E left, pc : pc \notin Opening /\ chat' = [chat EXCEPT ![c] = [chat[c] EXCEPT !.left = left, !.pc = pc]]
          <6>1. PICK next \in {"model", "ready"} :
                  chat' = [chat EXCEPT ![c] = [chat[c] EXCEPT !.left = @ - 1, !.pc = IF chat[c].left = 1 THEN next ELSE "tools"]]
            BY <4>4 DEF RecordToolCall
          <6> DEFINE pc == IF chat[c].left = 1 THEN next ELSE "tools"
          <6>2. pc \notin Opening
            BY DEF Opening
          <6> QED BY <6>1, <6>2
        <5> QED BY <1>1, <1>4, <5>1 DEF Chat
      <4> QED BY <2>6, <4>1, <4>2, <4>3, <4>4
    <3> QED BY <1>1, <1>4, <3>1, <3>2
  <2> QED BY <1>4, <2>1, <2>2, <2>3, <2>4, <2>5, <2>6 DEF Acts
<1> QED BY <1>2, <1>3, <1>4

(***************************************************************************)
(* A request stays a request.                                              *)
(***************************************************************************)
LEMMA ReadTypes ==
  ASSUME TypeOK, Reads
  PROVE  TypeOK'
<1> USE DEF database
<1>1. UNCHANGED <<applied, sessions, turns, calls, chat>>
  BY DEF Reads, Request, handleListSessions, ReadRow, ReadTurns, ReadCalls, Respond
<1>2. SUFFICES reader' \in Reader /\ (reader'.pc # "idle" => reader'.id \in Chats)
  BY <1>1 DEF TypeOK
<1>3. reader \in Reader /\ (reader.pc # "idle" => reader.id \in Chats) /\ reader.made + 1 \in Nat
  <2>1. reader.made \in Nat
    BY DEF TypeOK, Reader
  <2> QED BY <2>1 DEF TypeOK
<1>4. /\ DOMAIN sessions \subseteq Chats /\ \A d \in DOMAIN sessions : sessions[d] \in SessionRow
      /\ turns \subseteq Turn /\ calls \subseteq Call
  BY DEF TypeOK
<1>5. [NoRead EXCEPT !.made = reader.made] \in Reader /\ [NoRead EXCEPT !.made = reader.made].pc = "idle"
  <2>1. NewRow \in SessionRow
    BY DEF NewRow, SessionRow
  <2> QED BY <1>3, <2>1 DEF NoRead, Reader
<1>6. ASSUME NEW c \in Chats, Request(c) PROVE reader' \in Reader /\ reader'.id \in Chats
  <2>1. reader' = [reader EXCEPT !.pc = "row", !.id = c, !.made = @ + 1]
    BY <1>6, Queries DEF Request
  <2> QED BY <1>3, <2>1 DEF Reader
<1>7. CASE handleListSessions
  <2>1. PICK c \in DOMAIN sessions : reader' = [reader EXCEPT !.pc = "listed", !.id = c, !.listed = sessions[c]]
    <3>1. PICK item \in ListSessions : reader' = [reader EXCEPT !.pc = "listed", !.id = item.id, !.listed = item.row]
      BY <1>7 DEF handleListSessions
    <3>2. PICK c \in DOMAIN sessions : item = [id |-> c, row |-> sessions[c]]
      BY DEF ListSessions
    <3>3. item.id = c /\ item.row = sessions[c]
      BY <3>2
    <3> QED BY <3>1, <3>3
  <2> QED BY <1>3, <1>4, <2>1 DEF Reader
<1>8. CASE ReadRow
  <2>1. CASE Has(reader.id)
    <3>1. reader' = [reader EXCEPT !.row = sessions[reader.id], !.pc = "turns"] /\ reader.pc = "row"
      BY <1>8, <2>1, Queries DEF ReadRow
    <3> QED BY <1>3, <1>4, <2>1, <3>1 DEF Reader, Has
  <2>2. CASE ~ Has(reader.id)
    BY <1>5, <1>8, <2>2 DEF ReadRow
  <2> QED BY <2>1, <2>2
<1>9. CASE ReadTurns
  <2>1. reader' = [reader EXCEPT !.turns = {t \in turns : t.id[1] = reader.id}, !.pc = "calls"] /\ reader.pc = "turns"
    BY <1>9, Queries DEF ReadTurns
  <2>2. {t \in turns : t.id[1] = reader.id} \in SUBSET Turn
    BY <1>4
  <2> QED BY <1>3, <2>1, <2>2 DEF Reader
<1>10. CASE ReadCalls
  <2>1. PICK S \in SUBSET calls : reader' = [reader EXCEPT !.calls = S, !.pc = "done"] /\ reader.pc = "calls"
    <3>1. PICK export \in BOOLEAN :
            reader' = [reader EXCEPT !.calls = {k \in calls : k.chat = reader.id /\ (export \/ \E t \in reader.turns : t.id = k.turn)},
                                     !.pc = "done"]
      BY <1>10, Queries DEF ReadCalls
    <3> DEFINE S == {k \in calls : k.chat = reader.id /\ (export \/ \E t \in reader.turns : t.id = k.turn)}
    <3>2. S \in SUBSET calls /\ reader' = [reader EXCEPT !.calls = S, !.pc = "done"] /\ reader.pc = "calls"
      BY <1>10, <3>1 DEF ReadCalls
    <3> HIDE DEF S
    <3> QED BY <3>2
  <2> QED BY <1>3, <1>4, <2>1 DEF Reader
<1>11. CASE Respond
  BY <1>5, <1>11 DEF Respond
<1> QED BY <1>6, <1>7, <1>8, <1>9, <1>10, <1>11 DEF Reads

(***************************************************************************)
(* Every step keeps the types.                                             *)
(***************************************************************************)
LEMMA TypesStep ==
  ASSUME TypeOK, \A d \in Chats : Numbers(d), Next
  PROVE  TypeOK'
<1>1. ASSUME NEW c \in Chats, Acts(c) \/ Age(c) PROVE TypeOK'
  <2>1. chat' \in [Chats -> Chat]
    <3>1. CASE Acts(c)
      BY <3>1, ChatTypes
    <3>2. CASE Age(c)
      BY <3>2 DEF Age, TypeOK
    <3> QED BY <1>1, <3>1, <3>2
  <2>2. /\ IsFiniteSet(DOMAIN sessions') /\ DOMAIN sessions' \subseteq Chats
        /\ sessions' \in [DOMAIN sessions' -> SessionRow]
    BY <1>1, SessionTypes
  <2>3. PICK b \in BOOLEAN : /\ IsFiniteSet(turns') /\ turns' \subseteq Turn /\ calls' \subseteq Call
                             /\ reader' = [reader EXCEPT !.pruned = b]
    BY <1>1, RecordTypes
  <2>4. reader' \in Reader /\ (reader'.pc # "idle" => reader'.id \in Chats)
    BY <2>3 DEF TypeOK, Reader
  <2> QED BY <2>1, <2>2, <2>3, <2>4 DEF TypeOK
<1> QED BY <1>1, ReadTypes DEF Next, Acts, Reads

(***************************************************************************)
(* A reader's totals stay below what is there, whoever writes between its  *)
(* queries.                                                                *)
(***************************************************************************)
LEMMA ReadingStep ==
  ASSUME TypeOK, Reading, \A d \in Chats : Numbers(d) /\ Totals(d), Next
  PROVE  Reading'
<1>1. reader \in Reader /\ (reader.pc # "idle" => reader.id \in Chats)
  BY DEF TypeOK
<1>2. ASSUME NEW c \in Chats, Acts(c) \/ Age(c) PROVE Reading'
  <2>1. PICK b \in BOOLEAN : reader' = [reader EXCEPT !.pruned = b]
    BY <1>2, RecordTypes
  <2>2. /\ reader'.pc = reader.pc /\ reader'.id = reader.id /\ reader'.listed = reader.listed /\ reader'.row = reader.row
        /\ reader'.turns = reader.turns /\ reader'.pruned = b
    BY <1>1, <2>1 DEF Reader
  <2>3. reader.pruned => reader'.pruned
    <3>1. reader' = reader \/ (PruneSessions(c) /\ \E old : reader' = [reader EXCEPT !.pruned = @ \/ reader.id \in old])
      BY <1>2 DEF Acts, database, CheckMigration, ApplyMigration, New, RecordUserTurn, RecordAssistantTurn, CreateTurn,
             UpdateSession, RecordToolCall, SendFails, Finish, Leave, Age, PruneSessions
    <3> QED BY <1>1, <3>1 DEF Reader
  <2>4. CASE reader.pc = "idle"
    BY <2>2, <2>4 DEF Reading
  <2>5. CASE reader.pc # "idle"
    <3> DEFINE d == reader.id
    <3>1. d \in Chats /\ d' = d
      BY <1>1, <2>2, <2>5
    <3>2. /\ Has(d) /\ Has(d)' => NoMore(sessions[d], sessions'[d])
          /\ ~ Has(d) /\ Has(d)' => chat[d].pc \in Opening /\ sessions'[d] = NewRow
          /\ Has(d) /\ ~ Has(d)' => reader'.pruned
          /\ Has(d) => chat[d].row.turns <= chat'[d].row.turns
          /\ chat'[d].pc \in Opening => chat[d].pc \in Opening
      BY <1>2, <3>1, Grows
    <3>3. /\ reader.listed \in SessionRow /\ reader.row \in SessionRow /\ chat[d].row \in SessionRow /\ chat'[d].row \in SessionRow
          /\ Has(d) => sessions[d] \in SessionRow
          /\ Has(d)' => sessions'[d] \in SessionRow
      <4>1. TypeOK'
        BY <1>2, TypesStep DEF Next, Acts
      <4> QED BY <1>1, <3>1, <4>1 DEF TypeOK, Reader, Chat, Has
    <3>4. CASE reader.pc \in {"listed", "row"}
      <4>1. /\ Has(d) => NoMore(reader.listed, sessions[d])
            /\ chat[d].pc \in Opening => Same(reader.listed, NewRow)
        BY <3>4 DEF Reading
      <4>2. ASSUME Has(d)' PROVE NoMore(reader.listed, sessions'[d])
        <5>1. CASE Has(d)
          BY <3>2, <3>3, <4>1, <4>2, <5>1 DEF NoMore, SessionRow
        <5>2. CASE ~ Has(d)
          BY <3>2, <4>1, <4>2, <5>2 DEF NoMore, Same, NewRow
        <5> QED BY <5>1, <5>2
      <4> QED BY <2>2, <3>1, <3>2, <3>4, <4>1, <4>2 DEF Reading
    <3>5. CASE reader.pc = "turns"
      <4>1. ASSUME ~ reader'.pruned PROVE Has(d)' /\ reader.row.turns <= chat'[d].row.turns
        <5>1. Has(d) /\ reader.row.turns <= chat[d].row.turns
          BY <2>3, <3>5, <4>1 DEF Reading
        <5> QED BY <3>2, <3>3, <4>1, <5>1 DEF SessionRow
      <4> QED BY <2>2, <3>1, <3>5, <4>1 DEF Reading
    <3>6. CASE reader.pc \in {"calls", "done"}
      BY <2>2, <2>3, <3>6 DEF Reading
    <3> QED BY <1>1, <2>5, <3>4, <3>5, <3>6 DEF Reader
  <2> QED BY <2>4, <2>5
<1>3. CASE Reads
  <2> USE DEF database
  <2>1. chat' = chat /\ turns' = turns /\ sessions' = sessions
    BY <1>3 DEF Reads, Request, handleListSessions, ReadRow, ReadTurns, ReadCalls, Respond
  <2>2. ASSUME reader' = [NoRead EXCEPT !.made = reader.made] PROVE Reading'
    <3>1. reader'.pc = "idle" /\ Same(reader'.listed, NewRow)
      BY <2>2 DEF NoRead, Same
    <3> QED BY <3>1 DEF Reading
  <2>3. ASSUME NEW c \in Chats, Request(c) PROVE Reading'
    <3>1. /\ reader' = [reader EXCEPT !.pc = "row", !.id = c, !.made = @ + 1]
          /\ reader.pc = "idle" \/ (reader.pc = "listed" /\ reader.id = c)
      BY <2>3, Queries DEF Request
    <3>2. reader'.pc = "row" /\ reader'.id = c /\ reader'.listed = reader.listed
      BY <1>1, <3>1 DEF Reader
    <3>3. CASE reader.pc = "idle"
      <4>1. Same(reader.listed, NewRow)
        BY <3>3 DEF Reading
      <4>2. Has(c) => NoMore(reader.listed, sessions[c])
        BY <4>1 DEF Same, NewRow, NoMore, TypeOK, Has, SessionRow
      <4> QED BY <2>1, <3>2, <4>1, <4>2 DEF Reading, Has
    <3>4. CASE reader.pc = "listed" /\ reader.id = c
      BY <2>1, <3>2, <3>4 DEF Reading, Has
    <3> QED BY <3>1, <3>3, <3>4
  <2>4. CASE handleListSessions
    <3>1. PICK c \in DOMAIN sessions : reader' = [reader EXCEPT !.pc = "listed", !.id = c, !.listed = sessions[c]]
      <4>1. PICK item \in ListSessions : reader' = [reader EXCEPT !.pc = "listed", !.id = item.id, !.listed = item.row]
        BY <2>4 DEF handleListSessions
      <4>2. PICK c \in DOMAIN sessions : item = [id |-> c, row |-> sessions[c]]
        BY DEF ListSessions
      <4>3. item.id = c /\ item.row = sessions[c]
        BY <4>2
      <4> QED BY <4>1, <4>3
    <3>2. reader'.pc = "listed" /\ reader'.id = c /\ reader'.listed = sessions[c]
      BY <1>1, <3>1 DEF Reader
    <3>3. c \in Chats /\ Has(c) /\ sessions[c] \in SessionRow
      BY DEF TypeOK, Has
    <3>4. NoMore(sessions[c], sessions[c]) /\ chat[c].pc \notin Opening
      BY <3>3 DEF NoMore, SessionRow, Totals
    <3> QED BY <2>1, <3>2, <3>4 DEF Reading
  <2>5. CASE ReadRow
    <3>1. CASE Has(reader.id)
      <4>1. reader' = [reader EXCEPT !.row = sessions[reader.id], !.pc = "turns"] /\ reader.pc = "row"
        BY <2>5, <3>1, Queries DEF ReadRow
      <4>2. /\ reader'.pc = "turns" /\ reader'.id = reader.id /\ reader'.listed = reader.listed
            /\ reader'.row = sessions[reader.id] /\ reader.id \in Chats
        BY <1>1, <4>1 DEF Reader
      <4>3. NoMore(reader.listed, sessions[reader.id])
        BY <3>1, <4>1 DEF Reading
      <4>4. NoMore(sessions[reader.id], chat[reader.id].row)
        BY <3>1, <4>2 DEF Totals
      <4>5. reader'.id \in DOMAIN sessions'
        BY <2>1, <3>1, <4>2 DEF Has
      <4> QED BY <2>1, <4>2, <4>3, <4>4, <4>5 DEF Reading, NoMore, Has
    <3>2. CASE ~ Has(reader.id)
      BY <2>2, <2>5, <3>2 DEF ReadRow
    <3> QED BY <3>1, <3>2
  <2>6. CASE ReadTurns
    <3>1. reader' = [reader EXCEPT !.turns = Mine(reader.id), !.pc = "calls"] /\ reader.pc = "turns"
      BY <2>6, Queries DEF ReadTurns, Mine
    <3>2. /\ reader'.pc = "calls" /\ reader'.id = reader.id /\ reader'.listed = reader.listed /\ reader'.row = reader.row
          /\ reader'.turns = Mine(reader.id) /\ reader'.pruned = reader.pruned /\ reader.id \in Chats
      BY <1>1, <3>1 DEF Reader
    <3>3. NoMore(reader.listed, reader.row)
      BY <3>1 DEF Reading
    <3>4. ASSUME ~ reader.pruned PROVE \E m \in Nat : IsLast(Mine(reader.id), m) /\ reader.row.turns <= m
      <4>1. Has(reader.id) /\ reader.row.turns <= chat[reader.id].row.turns
        BY <3>1, <3>4 DEF Reading
      <4>2. IsLast(Mine(reader.id), chat[reader.id].row.turns)
        BY <3>2, <4>1 DEF Totals
      <4>3. chat[reader.id].row.turns \in Nat
        BY <3>2 DEF TypeOK, Chat, SessionRow
      <4> QED BY <4>1, <4>2, <4>3
    <3> QED BY <3>2, <3>3, <3>4 DEF Reading
  <2>7. CASE ReadCalls
    <3>1. PICK S : reader' = [reader EXCEPT !.calls = S, !.pc = "done"] /\ reader.pc = "calls"
      BY <2>7, Queries DEF ReadCalls
    <3>2. /\ reader'.pc = "done" /\ reader'.id = reader.id /\ reader'.listed = reader.listed /\ reader'.row = reader.row
          /\ reader'.turns = reader.turns /\ reader'.pruned = reader.pruned
      BY <1>1, <3>1 DEF Reader
    <3> QED BY <3>1, <3>2 DEF Reading
  <2> QED BY <1>3, <2>2, <2>3, <2>4, <2>5, <2>6, <2>7 DEF Reads, Respond
<1> QED BY <1>2, <1>3 DEF Next, Acts, Reads

-----------------------------------------------------------------------------
(* The theorems.                                                           *)

(***************************************************************************)
(* The invariant holds of an empty database.                               *)
(***************************************************************************)
LEMMA InitInv ==
  ASSUME Init
  PROVE  IInv
<1> USE DEF Init
<1>1. NewRow \in SessionRow /\ ~ NewRow.finished
  BY DEF NewRow, SessionRow
<1>2. \A c \in Chats : chat[c] = NewChat
  OBVIOUS
<1>3. NewChat.pc = "opening" /\ NewChat.row = NewRow /\ NewChat.turnNum = 0
  BY DEF NewChat
<1>4. TypeOK
  <2>1. NewChat \in Chat
    BY <1>1 DEF NewChat, Chat, Steps, Opening, Roles
  <2>2. NoRead \in Reader /\ NoRead.pc = "idle"
    BY <1>1 DEF NoRead, Reader
  <2>3. DOMAIN sessions = {} /\ sessions \in [DOMAIN sessions -> SessionRow]
    OBVIOUS
  <2>4. IsFiniteSet({})
    BY FS_EmptySet
  <2> QED BY <2>1, <2>2, <2>3, <2>4 DEF TypeOK
<1>5. Keys
  BY DEF Keys, CallsInTheirTurn
<1>6. Reading
  BY DEF Reading, NoRead, Same
<1>7. ASSUME NEW c \in Chats PROVE Numbers(c) /\ Totals(c)
  <2>1. Mine(c) = {} /\ ~ Has(c)
    BY DEF Mine, Has
  <2>2. Numbers(c)
    BY <1>2, <1>3, <2>1 DEF Numbers
  <2>3. Totals(c)
    BY <1>1, <1>2, <1>3, <2>1 DEF Totals, Same
  <2> QED BY <2>2, <2>3
<1> QED BY <1>4, <1>5, <1>6, <1>7 DEF IInv

(***************************************************************************)
(* The inductive invariant: types, foreign keys, the numbers and totals of *)
(* every recorder and what the reader has seen.                            *)
(***************************************************************************)
THEOREM RecordingSound == Spec => []IInv
<1>1. IInv /\ [Next]_vars => IInv'
  <2> SUFFICES ASSUME IInv, [Next]_vars PROVE IInv'
    OBVIOUS
  <2>1. CASE Next
    <3>1. TypeOK' /\ Keys' /\ Reading' /\ \A d \in Chats : Numbers(d)' /\ Totals(d)'
      BY <2>1, TypesStep, KeysStep, ReadingStep, ChatsStep DEF IInv
    <3> QED BY <3>1 DEF IInv
  <2>2. CASE UNCHANGED vars
    <3>1. UNCHANGED <<applied, sessions, turns, calls, chat, reader, faults>>
      BY <2>2 DEF vars
    <3>2. TypeOK' /\ Keys' /\ Reading'
      BY <3>1 DEF IInv, TypeOK, Keys, Reading, CallsInTheirTurn, Has
    <3>3. ASSUME NEW d \in Chats PROVE Numbers(d)' /\ Totals(d)'
      <4>1. Mine(d)' = Mine(d) /\ Has(d)' = Has(d) /\ chat'[d] = chat[d] /\ sessions' = sessions
        BY <3>1 DEF Mine, Has
      <4>2. Numbers(d) /\ Totals(d)
        BY DEF IInv
      <4> QED BY <4>1, <4>2, Kept DEF Same
    <3> QED BY <3>2, <3>3 DEF IInv
  <2> QED BY <2>1, <2>2
<1> QED BY <1>1, InitInv, PTL DEF Spec

(***************************************************************************)
(* Type correctness: the tables hold rows of their kind, finitely many     *)
(* sessions and turns, whatever the chats do.                              *)
(***************************************************************************)
THEOREM TypeCorrect == Spec => []TypeOK
<1>1. IInv => TypeOK
  BY DEF IInv
<1> QED BY <1>1, RecordingSound, PTL

(***************************************************************************)
(* A stored call belongs to the turn whose reply asked for it, which is    *)
(* stored too.                                                             *)
(***************************************************************************)
THEOREM CallsStayInTurn == Spec => []CallsInTheirTurn
<1>1. IInv => CallsInTheirTurn
  BY DEF IInv, Keys
<1> QED BY <1>1, RecordingSound, PTL

(***************************************************************************)
(* What the dashboard shows of a session that nobody pruned meanwhile      *)
(* holds every turn that its totals count, and no less than the list said. *)
(***************************************************************************)
THEOREM DetailsCohere == Spec => []DetailCoheres
<1>1. IInv => DetailCoheres
  <2> SUFFICES ASSUME IInv, reader.pc = "done", ~ reader.pruned
               PROVE  /\ LastOf(reader.turns) >= reader.row.turns
                      /\ reader.row.turns >= reader.listed.turns
                      /\ reader.row.tokens >= reader.listed.tokens /\ reader.row.cost >= reader.listed.cost
    BY DEF DetailCoheres
  <2>1. reader.turns \subseteq Turn /\ reader.listed \in SessionRow /\ reader.row \in SessionRow
    BY DEF IInv, TypeOK, Reader
  <2>2. NoMore(reader.listed, reader.row)
    BY DEF IInv, Reading
  <2>3. PICK m \in Nat : IsLast(reader.turns, m) /\ reader.row.turns <= m
    BY DEF IInv, Reading
  <2>4. LastOf(reader.turns) = m
    BY <2>1, <2>3, LastIs
  <2> QED BY <2>1, <2>2, <2>3, <2>4 DEF NoMore, SessionRow
<1> QED BY <1>1, RecordingSound, PTL

(***************************************************************************)
(* The totals of a finished session are those of its stored turns; the     *)
(* charts count no more than the stored turns of their sessions.           *)
(***************************************************************************)
THEOREM TotalsAreStored == Spec => []TotalsOfStored
<1>1. IInv => TotalsOfStored
  <2> SUFFICES ASSUME IInv PROVE TotalsOfStored
    OBVIOUS
  <2>1. /\ IsFiniteSet(turns) /\ turns \subseteq Turn
        /\ IsFiniteSet(DOMAIN sessions) /\ DOMAIN sessions \subseteq Chats
        /\ \A c \in DOMAIN sessions : sessions[c] \in SessionRow /\ Has(c)
    BY DEF IInv, TypeOK, Has
  <2>2. ASSUME NEW c \in DOMAIN sessions, sessions[c].finished
        PROVE  LET mine == {t \in turns : t.id[1] = c}
               IN /\ sessions[c].tokens = SumOver(mine, LAMBDA t : t.tokens)
                  /\ sessions[c].cost = SumOver(mine, LAMBDA t : t.cost)
                  /\ sessions[c].turns = LastOf(mine)
    <3>1. /\ chat[c].row.tokens = Tokens(Mine(c)) /\ chat[c].row.cost = Cost(Mine(c))
          /\ IsLast(Mine(c), chat[c].row.turns) /\ Same(sessions[c], chat[c].row)
      BY <2>1, <2>2 DEF IInv, Totals
    <3>2. LastOf(Mine(c)) = sessions[c].turns
      <4>1. Mine(c) \subseteq Turn /\ sessions[c].turns \in Nat
        BY <2>1 DEF Mine, SessionRow
      <4>2. IsLast(Mine(c), sessions[c].turns)
        BY <3>1 DEF Same
      <4> QED BY <4>1, <4>2, LastIs
    <3>3. sessions[c].tokens = Tokens(Mine(c)) /\ sessions[c].cost = Cost(Mine(c))
      BY <3>1 DEF Same
    <3> QED BY <3>2, <3>3 DEF Mine, Tokens, Cost
  <2>3. LET counted == {t \in turns : t.id[1] \in Recent}
        IN /\ AnalyticsTokens <= SumOver(counted, LAMBDA t : t.tokens)
           /\ AnalyticsCost <= SumOver(counted, LAMBDA t : t.cost)
    <3> DEFINE counted == {t \in turns : t.id[1] \in Recent}
               F == [c \in Recent |-> sessions[c].tokens]
               G == [c \in Recent |-> sessions[c].cost]
    <3>1. IsFiniteSet(Recent) /\ Recent \subseteq DOMAIN sessions
      BY <2>1, FS_Subset DEF Recent
    <3>2. \A c \in Recent : F[c] \in Nat /\ G[c] \in Nat
      BY <2>1, <3>1 DEF SessionRow
    <3>3. ASSUME NEW c \in Recent
          PROVE  /\ F[c] <= SumFunctionOnSet(TokensOf, { t \in turns : t.id[1] = c })
                 /\ G[c] <= SumFunctionOnSet(CostOf, { t \in turns : t.id[1] = c })
      <4>1. c \in Chats /\ Has(c)
        BY <2>1, <3>1
      <4>2. /\ chat[c].row.tokens = Tokens(Mine(c)) /\ chat[c].row.cost = Cost(Mine(c))
            /\ NoMore(sessions[c], chat[c].row)
        BY <4>1 DEF IInv, Totals
      <4>3. Mine(c) \subseteq Turn /\ IsFiniteSet(Mine(c))
        BY <2>1, FS_Subset DEF Mine
      <4>4. Tokens(Mine(c)) = SumFunctionOnSet(TokensOf, Mine(c)) /\ Cost(Mine(c)) = SumFunctionOnSet(CostOf, Mine(c))
        BY <4>3, SumsOfTurns
      <4> QED BY <4>2, <4>4 DEF NoMore, Mine
    <3>4. \A t \in turns : TokensOf[t] \in Nat /\ CostOf[t] \in Nat
      BY <2>1 DEF TokensOf, CostOf, Turn
    <3>5. /\ SumFunctionOnSet(F, Recent) <= SumFunctionOnSet(TokensOf, counted)
          /\ SumFunctionOnSet(G, Recent) <= SumFunctionOnSet(CostOf, counted)
      <4> HIDE DEF F, G
      <4>1. SumFunctionOnSet(F, Recent) <= SumFunctionOnSet(TokensOf, counted)
        BY <2>1, <3>1, <3>2, <3>3, <3>4, SumOfGroups
      <4>2. SumFunctionOnSet(G, Recent) <= SumFunctionOnSet(CostOf, counted)
        BY <2>1, <3>1, <3>2, <3>3, <3>4, SumOfGroups
      <4> QED BY <4>1, <4>2
    <3>6. Tokens(counted) = SumFunctionOnSet(TokensOf, counted) /\ Cost(counted) = SumFunctionOnSet(CostOf, counted)
      <4>1. counted \subseteq Turn /\ IsFiniteSet(counted)
        BY <2>1, FS_Subset
      <4> HIDE DEF counted
      <4> QED BY <4>1, SumsOfTurns
    <3>7. AnalyticsTokens = SumFunctionOnSet(F, Recent) /\ AnalyticsCost = SumFunctionOnSet(G, Recent)
      BY DEF AnalyticsTokens, AnalyticsCost, SumOver
    <3>8. AnalyticsTokens <= Tokens(counted) /\ AnalyticsCost <= Cost(counted)
      BY <3>5, <3>6, <3>7
    <3> QED BY <3>8 DEF Tokens, Cost
  <2> QED BY <2>2, <2>3 DEF TotalsOfStored
<1> QED BY <1>1, RecordingSound, PTL
=============================================================================
