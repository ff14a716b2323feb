----------------------------- MODULE Recording -----------------------------
(***************************************************************************)
(* Sessions recorded by agent chat --save.  Each chat is a process with a  *)
(* recorder of its own on one shared database; the dashboard reads it with *)
(* one query after the other, and every chat that ends deletes what is     *)
(* older than the retention.  A write may fail (the recorder's errors are  *)
(* dropped) and a chat may end without finishing its session.              *)
(*                                                                         *)
(* A turn's identity is <<chat, number>>.  Foreign keys are on for the one *)
(* connection a recorder uses.  Tokens cost their number.                  *)
(***************************************************************************)
EXTENDS Integers, Sequences, FiniteSetsExt

CONSTANTS
  Chats,
  Migrations,   \* their number
  MaxTurns,     \* bound: turns of each chat
  MaxTokens,    \* bound: tokens of one reply
  MaxCalls,     \* bound: tool calls of one reply
  MaxFaults,    \* bound: failed writes and chats that end early
  MaxReads      \* bound: requests of the dashboard

ASSUME RecordingAssumption ==
  Migrations \in Nat /\ MaxTurns \in [Chats -> Nat] /\ MaxTokens \in Nat /\ MaxCalls \in Nat /\ MaxFaults \in Nat /\ MaxReads \in Nat

VARIABLES
  applied,   \* migrations in _migrations
  sessions,  \* the rows: chat -> [turns, tokens, cost, finished, old]
  turns,     \* set of [id, role, tokens, cost]
  calls,     \* set of [chat, turn, asked]; asked: the reply that asked for it
  chat,      \* a process: its recorder and its conversation
  reader,    \* a request to the dashboard
  faults

vars == <<applied, sessions, turns, calls, chat, reader, faults>>
database == <<applied, sessions, turns, calls>>

NewRow == [turns |-> 0, tokens |-> 0, cost |-> 0, finished |-> FALSE, old |-> FALSE]
NewChat == [pc |-> "opening", migration |-> 1, turnNum |-> 0, current |-> << >>, row |-> NewRow,
            turn |-> << >>, role |-> "user", spent |-> 0, left |-> 0, asked |-> << >>]
NoRead == [pc |-> "idle", listed |-> NewRow, id |-> "", row |-> NewRow, turns |-> {}, calls |-> {}, pruned |-> FALSE, made |-> 0]

Init ==
  /\ applied = {} /\ sessions = << >> /\ turns = {} /\ calls = {}
  /\ chat = [c \in Chats |-> NewChat] /\ reader = NoRead /\ faults = 0

Fault(ok) == (ok \/ faults < MaxFaults) /\ faults' = IF ok THEN faults ELSE faults + 1
At(c, pc) == chat[c].pc = pc
Becomes(c, new) == chat' = [chat EXCEPT ![c] = new]
Row(c, row) == [s \in DOMAIN sessions \cup {c} |-> IF s = c THEN row ELSE sessions[s]]
Has(c) == c \in DOMAIN sessions

-----------------------------------------------------------------------------
(* Opening the store.                                                      *)

\* Has the migration been applied?  Another process may apply it before the
\* transaction of this one begins.
CheckMigration(c) ==
  /\ At(c, "opening") /\ chat[c].migration \leq Migrations
  /\ Becomes(c, IF chat[c].migration \in applied THEN [chat[c] EXCEPT !.migration = @ + 1]
                ELSE [chat[c] EXCEPT !.pc = "migrating"])
  /\ UNCHANGED <<database, reader, faults>>

\* The table and the note of it, in one transaction; without a store nothing
\* is recorded.
ApplyMigration(c) == \E ok \in BOOLEAN :
  /\ At(c, "migrating") /\ Fault(ok)
  /\ IF ok /\ chat[c].migration \notin applied
     THEN applied' = applied \cup {chat[c].migration} /\ Becomes(c, [chat[c] EXCEPT !.pc = "opening", !.migration = @ + 1])
     ELSE applied' = applied /\ Becomes(c, [chat[c] EXCEPT !.pc = "disabled"])
  /\ UNCHANGED <<sessions, turns, calls, reader>>

\* New: creating the session is best effort.
New(c) == \E ok \in BOOLEAN :
  /\ At(c, "opening") /\ chat[c].migration > Migrations /\ Fault(ok)
  /\ sessions' = IF ok THEN Row(c, NewRow) ELSE sessions
  /\ Becomes(c, [chat[c] EXCEPT !.pc = "ready"])
  /\ UNCHANGED <<applied, turns, calls, reader>>

-----------------------------------------------------------------------------
(* Recording.                                                              *)

BeginTurn(r, turn) ==
  [r EXCEPT !.turnNum = @ + 1, !.turn = turn, !.role = turn.role, !.pc = "insert", !.current = turn.id]

RecordUserTurn(c) ==
  /\ At(c, "ready") /\ chat[c].turnNum < MaxTurns[c]
  /\ Becomes(c, BeginTurn(chat[c], [id |-> <<c, chat[c].turnNum + 1>>, role |-> "user", tokens |-> 0, cost |-> 0]))
  /\ UNCHANGED <<database, reader, faults>>

\* A reply; OnAssistantTurn is given the cost of the whole session so far.
RecordAssistantTurn(c) == \E tokens \in 1..MaxTokens, n \in 0..MaxCalls :
  /\ At(c, "model") /\ chat[c].turnNum < MaxTurns[c]
  /\ LET r == [chat[c] EXCEPT !.spent = @ + tokens, !.left = n]
         id == <<c, chat[c].turnNum + 1>>
     IN Becomes(c, BeginTurn([r EXCEPT !.asked = id],
                             [id |-> id, role |-> "assistant", tokens |-> tokens, cost |-> r.spent]))
  /\ UNCHANGED <<database, reader, faults>>

\* Where a chat goes on when the record is made, or has failed.
Recorded(r) ==
  IF r.role = "user" THEN "model" ELSE IF r.left > 0 THEN "tools" ELSE "ready"

\* Slip: the totals are kept even if the turn could not be stored.
CountTurnAnyway(r, ok) ==
  [r EXCEPT !.row.turns = r.turnNum, !.row.tokens = @ + r.turn.tokens, !.row.cost = @ + r.turn.cost,
            !.pc = IF ok THEN "update" ELSE Recorded(r)]
CountTurn(r, ok) ==
  IF ok THEN [r EXCEPT !.row.turns = r.turnNum, !.row.tokens = @ + r.turn.tokens,
                       !.row.cost = @ + r.turn.cost, !.pc = "update"]
  ELSE [r EXCEPT !.pc = Recorded(r)]

CreateTurn(c) == \E ok \in BOOLEAN :
  /\ At(c, "insert") /\ Fault(ok)
  /\ LET stored == ok /\ Has(c)
     IN /\ turns' = IF stored THEN turns \cup {chat[c].turn} ELSE turns
        /\ Becomes(c, CountTurn(chat[c], stored))
  /\ UNCHANGED <<applied, sessions, calls, reader>>

\* UpdateSession writes the whole row; without a row it changes nothing.
UpdateRow(c) == sessions' = IF Has(c) THEN Row(c, [chat[c].row EXCEPT !.old = sessions[c].old]) ELSE sessions
UpdateSession(c) == \E ok \in BOOLEAN :
  /\ At(c, "update") /\ Fault(ok)
  /\ IF ok THEN UpdateRow(c) ELSE sessions' = sessions
  /\ Becomes(c, [chat[c] EXCEPT !.pc = Recorded(chat[c])])
  /\ UNCHANGED <<applied, turns, calls, reader>>

LastOf(S) == Max({t.id[2] : t \in S} \cup {0})

\* Slip: the newest turn in the store.
LastTurnStored(c) == <<c, LastOf({t \in turns : t.id[1] = c})>>
CurrentTurnID(c) == chat[c].current

\* The calls of a reply, in turn or at once; after the last the model is
\* asked again, unless it may not call any more tools.
RecordToolCall(c) == \E ok \in BOOLEAN, next \in {"model", "ready"} :
  /\ At(c, "tools") /\ Fault(ok)
  /\ calls' = IF ok /\ Has(c) /\ \E t \in turns : t.id = CurrentTurnID(c)
              THEN calls \cup {[chat |-> c, turn |-> CurrentTurnID(c), asked |-> chat[c].asked, nth |-> chat[c].left]}
              ELSE calls
  /\ chat[c].left > 1 => next = "ready"
  /\ Becomes(c, [chat[c] EXCEPT !.left = @ - 1, !.pc = IF chat[c].left = 1 THEN next ELSE "tools"])
  /\ UNCHANGED <<applied, sessions, turns, reader>>

\* The model fails: an interactive chat goes on.
SendFails(c) ==
  /\ At(c, "model") /\ Becomes(c, [chat[c] EXCEPT !.pc = "ready"])
  /\ UNCHANGED <<database, reader, faults>>

-----------------------------------------------------------------------------
(* The end of a session.                                                   *)

Finish(c) == \E ok \in BOOLEAN :
  /\ At(c, "ready") /\ Fault(ok)
  /\ LET r == [chat[c] EXCEPT !.row.finished = TRUE, !.pc = IF ok THEN "prune" ELSE "gone"]
     IN /\ sessions' = IF ok /\ Has(c) THEN Row(c, [r.row EXCEPT !.old = sessions[c].old]) ELSE sessions
        /\ Becomes(c, r)
  /\ UNCHANGED <<applied, turns, calls, reader>>

\* One transaction.
PruneSessions(c) == \E ok \in BOOLEAN :
  LET old == {s \in DOMAIN sessions : sessions[s].old}
  IN /\ At(c, "prune") /\ Fault(ok)
     /\ Becomes(c, [chat[c] EXCEPT !.pc = "gone"])
     /\ IF ok
        THEN /\ sessions' = [s \in DOMAIN sessions \ old |-> sessions[s]]
             /\ turns' = {t \in turns : t.id[1] \notin old}
             /\ calls' = {k \in calls : k.chat \notin old}
             /\ reader' = [reader EXCEPT !.pruned = @ \/ reader.id \in old]
        ELSE UNCHANGED <<sessions, turns, calls, reader>>
     /\ UNCHANGED applied

\* A single message that fails, an unpriced model, a signal: nothing is
\* written any more.
Leave(c) ==
  /\ chat[c].pc \notin {"gone", "disabled"} /\ Fault(FALSE)
  /\ Becomes(c, [chat[c] EXCEPT !.pc = "gone"])
  /\ UNCHANGED <<database, reader>>

\* A month goes by.
Age(c) ==
  /\ Has(c) /\ ~sessions[c].old /\ sessions' = [sessions EXCEPT ![c].old = TRUE]
  /\ UNCHANGED <<applied, turns, calls, chat, reader, faults>>

-----------------------------------------------------------------------------
(* The dashboard.  Slip first: the turns are read before the session.      *)

ReadTurnsFirst == <<"turns", "row", "calls">>
ReadOrder == <<"row", "turns", "calls">>
NextRead(pc) == LET i == CHOOSE i \in 1..3 : ReadOrder[i] = pc IN IF i = 3 THEN "done" ELSE ReadOrder[i + 1]

\* The list of the sessions; one of them will be opened.
ListSessions == {[id |-> c, row |-> sessions[c]] : c \in DOMAIN sessions}
handleListSessions == \E item \in ListSessions :
  /\ reader.pc = "idle" /\ reader.made < MaxReads
  /\ reader' = [reader EXCEPT !.pc = "listed", !.id = item.id, !.listed = item.row]
  /\ UNCHANGED <<database, chat, faults>>

\* handleGetSession and handleExportSession; the second gives all calls of
\* the session.
Request(c) ==
  /\ reader.pc = "idle" \/ (reader.pc = "listed" /\ reader.id = c)
  /\ reader.made < MaxReads
  /\ reader' = [reader EXCEPT !.pc = ReadOrder[1], !.id = c, !.made = @ + 1]
  /\ UNCHANGED <<database, chat, faults>>

ReadRow ==
  /\ reader.pc = "row"
  /\ reader' = IF Has(reader.id) THEN [reader EXCEPT !.row = sessions[reader.id], !.pc = NextRead("row")]
               ELSE [NoRead EXCEPT !.made = reader.made]     \* 404
  /\ UNCHANGED <<database, chat, faults>>

ReadTurns ==
  /\ reader.pc = "turns"
  /\ reader' = [reader EXCEPT !.turns = {t \in turns : t.id[1] = reader.id}, !.pc = NextRead("turns")]
  /\ UNCHANGED <<database, chat, faults>>

ReadCalls == \E export \in BOOLEAN :
  /\ reader.pc = "calls"
  /\ reader' = [reader EXCEPT !.calls = {k \in calls : k.chat = reader.id /\ (export \/ \E t \in reader.turns : t.id = k.turn)},
                              !.pc = NextRead("calls")]
  /\ UNCHANGED <<database, chat, faults>>

Respond ==
  /\ reader.pc = "done" /\ reader' = [NoRead EXCEPT !.made = reader.made]
  /\ UNCHANGED <<database, chat, faults>>

SumOver(S, Value(_)) == SumFunctionOnSet([x \in S |-> Value(x)], S)
Recent == {c \in DOMAIN sessions : ~sessions[c].old}

\* The charts of the last 30 days, which are the retention too.
AnalyticsCost == SumOver(Recent, LAMBDA c : sessions[c].cost)
AnalyticsTokens == SumOver(Recent, LAMBDA c : sessions[c].tokens)

Next ==
  \/ \E c \in Chats :
       \/ CheckMigration(c) \/ ApplyMigration(c) \/ New(c)
       \/ RecordUserTurn(c) \/ RecordAssistantTurn(c) \/ CreateTurn(c) \/ UpdateSession(c)
       \/ RecordToolCall(c) \/ SendFails(c) \/ Finish(c) \/ PruneSessions(c) \/ Leave(c)
       \/ Age(c) \/ Request(c)
  \/ handleListSessions \/ ReadRow \/ ReadTurns \/ ReadCalls \/ Respond

Spec == Init /\ [][Next]_vars

-----------------------------------------------------------------------------

\* A finished session's totals are those of its stored turns, whatever writes
\* failed on the way: a turn that could not be stored adds nothing, a row that
\* could not be updated is made good by the next update.  The charts never
\* show more than the stored turns of the sessions they are about (Recorder,
\* whole-row UpdateSession, handleAnalyticsCost, handleAnalyticsTokens).
TotalsOfStored ==
  /\ \A c \in DOMAIN sessions : sessions[c].finished =>
       LET mine == {t \in turns : t.id[1] = c}
       IN /\ sessions[c].tokens = SumOver(mine, LAMBDA t : t.tokens)
          /\ sessions[c].cost = SumOver(mine, LAMBDA t : t.cost)
          /\ sessions[c].turns = LastOf(mine)
  /\ LET counted == {t \in turns : t.id[1] \in Recent}
     IN /\ AnalyticsTokens \leq SumOver(counted, LAMBDA t : t.tokens)
        /\ AnalyticsCost \leq SumOver(counted, LAMBDA t : t.cost)

\* A stored call belongs to the turn whose reply asked for it, which is
\* stored too; if that turn is missing so is the call, and it never moves to
\* another turn (RecordToolCall with CurrentTurnID, the foreign keys).
CallsInTheirTurn ==
  \A k \in calls : k.turn = k.asked /\ \E t \in turns : t.id = k.turn /\ t.role = "assistant"

\* What the dashboard shows of a session that nobody pruned meanwhile holds
\* every turn that its totals count, though a chat may be writing between its
\* queries, and no less than the list has shown of it before
\* (handleListSessions, handleGetSession, handleExportSession).
DetailCoheres ==
  reader.pc = "done" /\ ~reader.pruned =>
    /\ LastOf(reader.turns) \geq reader.row.turns
    /\ reader.row.turns \geq reader.listed.turns
    /\ reader.row.tokens \geq reader.listed.tokens /\ reader.row.cost \geq reader.listed.cost
=============================================================================
