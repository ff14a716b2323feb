------------------------- MODULE VigilSessionProofs --------------------------
(***************************************************************************)
(* Proofs about VigilSession, for any processes: as long as lookups and    *)
(* saves do not overlap, the marker agrees with the files, no recorded run *)
(* is lost, and without crashes the files implement the session log.       *)
(* And about Audit, for any files, edits and policies: stop and audit find *)
(* what there is, the watcher keeps up, and locked fields hold.            *)
(***************************************************************************)
EXTENDS VigilSession, Audit, Sums, SequenceTheorems, TLAPS

-----------------------------------------------------------------------------
(* The inductive invariant.                                                *)

Starts == {"start", "start --force"}

\* Where a process may be while another one looks up or saves a session.
Idle == Resting \cup {"work"}
Solo == \A p, q \in Procs : pc[p] \notin Idle /\ pc[q] \notin Idle => p = q

NoCrash == ~ world.crashes => \A p \in Procs : pc[p] # "crashed"

\* Only its own process creates a session, and names it afterwards.
Created ==
  \A p \in Procs : saved[p] # Absent =>
    id[p] = p /\ pc[p] \in {"mark", "name", "ended", "crashed"}

\* A file that does not hold what was saved is being written, or its writer died.
FilesSaved ==
  \A s \in Procs :
    \/ file[s] = saved[s]
    \/ file[s] = Torn /\ \E p \in Procs : id[p] = s /\ pc[p] \in {"write", "crashed"}

\* What a process is about to save is what was saved, and its change.
Copied(p) ==
  \/ /\ id[p] = p /\ cmd[p] \in Starts /\ marker \notin Procs
     /\ mem[p] = Sessions!NewSession /\ saved[p] = Absent
  \/ /\ id[p] # p /\ marker = id[p]
     /\ \/ /\ cmd[p] = "run" /\ saved[id[p]].status = "active"
           /\ mem[p] = [saved[id[p]] EXCEPT !.runs = @ \cup {p}]
        \/ /\ cmd[p] # "run" /\ saved[id[p]].status = "active"
           /\ mem[p] = [saved[id[p]] EXCEPT !.status = "completed", !.checked = mem[p].checked]
        \/ /\ cmd[p] # "run" /\ (~ world.crashes => saved[id[p]].status = "active")
           /\ mem[p] = [saved[id[p]] EXCEPT !.status = "aborted"]

\* What a process knows at each step from its lookup to its save.
Knows(p) ==
  /\ stage[p] = "force" => cmd[p] # "run"
  /\ pc[p] \in {"load", "heal", "unmark"} => marker = id[p] /\ id[p] # p
  /\ pc[p] \in {"heal", "unmark"} => file[id[p]].status # "active"
  /\ pc[p] \in {"create", "mark", "name"} => marker \notin Procs /\ cmd[p] \in Starts
  /\ pc[p] \in {"mark", "name"} => id[p] = p /\ saved[p].status = "active"
  /\ pc[p] \in {"truncate", "write"} => Copied(p)

MarkerSaved ==
  marker \in Procs =>
    /\ saved[marker] # Absent
    /\ \/ world.crashes \/ saved[marker].status = "active"
       \/ \E p \in Procs : pc[p] = "unmark"

ActiveMarked ==
  \A s \in Procs : saved[s].status = "active" =>
    marker = s \/ file[s] = Torn \/ pc[s] \in {"mark", "name", "crashed"}

OrderInv ==
  /\ Solo /\ NoCrash /\ Created /\ FilesSaved /\ MarkerSaved /\ ActiveMarked
  /\ \A p \in Procs : Knows(p)

IInv == TypeOK /\ (world.overlap # "any" => OrderInv)

-----------------------------------------------------------------------------
(* Facts about the operators.                                              *)

(***************************************************************************)
(* The actions, one case of every proof below.                             *)
(***************************************************************************)
LEMMA Cases ==
  ASSUME [Next]_vars
  PROVE  \/ \E p \in Procs, c \in Commands : Launch(p, c)
         \/ \E p \in Procs, ok \in BOOLEAN : FinishWork(p, ok) \/ Create(p, ok)
         \/ \E p \in Procs : \/ ReadMarker(p) \/ LoadActive(p) \/ Heal(p) \/ LoadForced(p)
                            \/ Truncate(p) \/ WriteSession(p) \/ TruncateMarker(p)
                            \/ WriteMarker(p) \/ Unmark(p) \/ Crash(p)
         \/ UNCHANGED vars
BY DEF Next, Step

(***************************************************************************)
(* A process that looks up or saves does so while the others do neither.   *)
(***************************************************************************)
LEMMA OthersIdle ==
  ASSUME NEW p \in Procs, MayStep(p), world.overlap # "any"
  PROVE  \A q \in Procs : q # p => pc[q] \in Idle
BY DEF MayStep, Idle

(***************************************************************************)
(* Only a session that was written can be read, and it is what was saved.  *)
(***************************************************************************)
LEMMA ReadsSaved ==
  ASSUME TypeOK, FilesSaved, NEW s \in Procs, Readable(s)
  PROVE  file[s] = saved[s] /\ file[s] \in Session
<1>1. file[s] # Torn /\ file[s] # Absent
  BY DEF Readable, Torn, Absent, Sessions!Absent
<1> QED BY <1>1 DEF FilesSaved, TypeOK

-----------------------------------------------------------------------------
(* Types.                                                                  *)

(***************************************************************************)
(* Whatever a process holds says whether a check was made.                 *)
(***************************************************************************)
LEMMA CopyChecked == ASSUME TypeOK, NEW p \in Procs PROVE mem[p].checked \in BOOLEAN
<1>1. CASE mem[p] = Absent
  <2>1. Absent.checked = FALSE
    BY DEF Absent, Sessions!Absent
  <2> QED BY <1>1, <2>1
<1>2. CASE mem[p] \in Session
  BY <1>2 DEF Session
<1> QED BY <1>1, <1>2 DEF TypeOK

(***************************************************************************)
(* Every step keeps the types.                                             *)
(***************************************************************************)
LEMMA TypesStep == TypeOK /\ [Next]_vars => TypeOK'
<1> SUFFICES ASSUME TypeOK, [Next]_vars PROVE TypeOK'
  OBVIOUS
<1> USE DEF TypeOK, procVars, Goto
<1>0. /\ Torn.status = "torn" /\ Absent.status = "absent"
      /\ Sessions!NewSession \in Session
  BY DEF Torn, Absent, Sessions!Absent, Sessions!NewSession, Session
<1>1. ASSUME NEW p \in Procs, Readable(id[p]) PROVE file[id[p]] \in Session
  BY <1>0, <1>1 DEF Readable
<1>2. ASSUME NEW p \in Procs, NEW c \in Commands, Launch(p, c) PROVE TypeOK'
  BY <1>2 DEF Launch
<1>3. ASSUME NEW p \in Procs, NEW ok \in BOOLEAN, FinishWork(p, ok) PROVE TypeOK'
  <2>1. pc[p] = "work"
    BY <1>3 DEF FinishWork
  <2>2. mem[p] \in Session
    BY <2>1
  <2>3. \A s \in Session : [s EXCEPT !.checked = ok] \in Session
    BY DEF Session
  <2> QED BY <1>3, <2>2, <2>3 DEF FinishWork
<1>4. ASSUME NEW p \in Procs, NEW ok \in BOOLEAN, Create(p, ok) PROVE TypeOK'
  BY <1>0, <1>4 DEF Create
<1>5. ASSUME NEW p \in Procs, ReadMarker(p) PROVE TypeOK'
  BY <1>5 DEF ReadMarker, Named, NothingActive
<1>6. ASSUME NEW p \in Procs, LoadActive(p) PROVE TypeOK'
  <2>1. ASSUME Readable(id[p])
        PROVE  file[id[p]] \in Session /\ Updated(p, file[id[p]]) \in Session
    <3>0. TypeOK
      BY DEF TypeOK
    <3>1. mem[p].checked \in BOOLEAN
      BY <3>0, CopyChecked
    <3> QED BY <1>1, <2>1, <3>1 DEF Updated, Session
  <2>2. mem' \in [Procs -> Session \cup {Absent}]
    BY <1>6, <2>1 DEF LoadActive
  <2>3. pc' \in [Procs -> {"new", "look", "load", "heal", "create", "work", "truncate", "write",
                          "mark", "name", "unmark", "ended", "crashed"}]
    <3>1. ActiveStep(p) \in {"ended", "work", "truncate"}
      BY DEF ActiveStep
    <3>2. pc' = [pc EXCEPT ![p] = ActiveStep(p)] \/ pc' = [pc EXCEPT ![p] = "heal"]
      BY <1>6 DEF LoadActive
    <3> QED BY <3>1, <3>2
  <2>4. pc'[p] = "work" => mem'[p] \in Session
    BY <1>6, <2>1 DEF LoadActive, ActiveStep
  <2> QED BY <1>6, <2>2, <2>3, <2>4 DEF LoadActive
<1>7. ASSUME NEW p \in Procs, Heal(p) PROVE TypeOK'
  BY <1>7 DEF Heal, NothingActive
<1>8. ASSUME NEW p \in Procs, LoadForced(p) PROVE TypeOK'
  <2>1. ASSUME Readable(id[p]) PROVE [file[id[p]] EXCEPT !.status = "aborted"] \in Session
    BY <1>1, <2>1 DEF Session
  <2>2. mem' \in [Procs -> Session \cup {Absent}]
    BY <1>8, <2>1 DEF LoadForced
  <2> QED BY <1>8, <2>2 DEF LoadForced
<1>9. ASSUME NEW p \in Procs, Truncate(p) PROVE TypeOK'
  BY <1>9 DEF Truncate
<1>10. ASSUME NEW p \in Procs, WriteSession(p) PROVE TypeOK'
  BY <1>10 DEF WriteSession, AfterSave
<1>11. ASSUME NEW p \in Procs, TruncateMarker(p) PROVE TypeOK'
  BY <1>11 DEF TruncateMarker
<1>12. ASSUME NEW p \in Procs, WriteMarker(p) PROVE TypeOK'
  BY <1>12 DEF WriteMarker
<1>13. ASSUME NEW p \in Procs, Unmark(p) PROVE TypeOK'
  BY <1>13 DEF Unmark
<1>14. ASSUME NEW p \in Procs, Crash(p) PROVE TypeOK'
  BY <1>14 DEF Crash
<1>15. CASE UNCHANGED vars
  BY <1>15 DEF vars
<1> QED BY <1>2, <1>3, <1>4, <1>5, <1>6, <1>7, <1>8, <1>9, <1>10, <1>11, <1>12, <1>13, <1>14,
           <1>15, Cases

-----------------------------------------------------------------------------
(* The order of lookups and saves.                                         *)

(***************************************************************************)
(* Steps that touch neither a file nor the marker, nor what anyone is      *)
(* about to save: only the process itself has to be looked at.             *)
(***************************************************************************)
LEMMA QuietStep ==
  ASSUME TypeOK, OrderInv, NEW p \in Procs, MayStep(p), world.overlap # "any",
         UNCHANGED <<world, file, marker, saved>>,
         \A q \in Procs : q # p => /\ pc'[q] = pc[q] /\ stage'[q] = stage[q] /\ cmd'[q] = cmd[q]
                                  /\ id'[q] = id[q],
         pc[p] \notin {"write", "unmark", "mark", "name", "ended", "crashed"},
         pc'[p] # "crashed", Knows(p)'
  PROVE  OrderInv'
<1>1. \A q \in Procs : q # p => pc[q] \in Idle
  BY OthersIdle
<1>2. Solo' /\ NoCrash' /\ Created'
  BY <1>1 DEF OrderInv, Solo, NoCrash, Created
<1>3. FilesSaved'
  BY DEF OrderInv, FilesSaved
<1>4. MarkerSaved' /\ ActiveMarked'
  BY DEF OrderInv, MarkerSaved, ActiveMarked
<1>5. ASSUME NEW q \in Procs, q # p PROVE Knows(q)'
  BY <1>1, <1>5 DEF OrderInv, Knows, Idle, Resting
<1> QED BY <1>2, <1>3, <1>4, <1>5 DEF OrderInv

(***************************************************************************)
(* Steps that only look: afterwards the process knows what it read.        *)
(***************************************************************************)
LEMMA LookStep ==
  ASSUME TypeOK, OrderInv, NEW p \in Procs, world.overlap # "any",
         \/ \E c \in Commands : Launch(p, c)
         \/ \E ok \in BOOLEAN : FinishWork(p, ok) \/ Create(p, ok)
         \/ ReadMarker(p) \/ LoadActive(p) \/ LoadForced(p)
  PROVE  OrderInv'
<1> USE DEF Goto
<1>0. Knows(p) /\ Created /\ FilesSaved /\ MarkerSaved /\ ActiveMarked
  BY DEF OrderInv
<1>1. ASSUME NEW c \in Commands, Launch(p, c) PROVE OrderInv'
  <2>1. pc'[p] = "look" /\ (stage'[p] = "force" => cmd'[p] # "run")
    BY <1>1 DEF Launch, TypeOK
  <2>2. Knows(p)'
    BY <2>1 DEF Knows
  <2> QED BY <1>1, <2>1, <2>2, QuietStep DEF Launch, TypeOK
<1>2. ASSUME NEW ok \in BOOLEAN, FinishWork(p, ok) PROVE OrderInv'
  <2>1. pc'[p] \in {"look", "ended"} /\ stage'[p] \in {stage[p], "second"} /\ cmd' = cmd
    BY <1>2 DEF FinishWork, TypeOK
  <2>2. Knows(p)'
    BY <1>0, <2>1 DEF Knows
  <2> QED BY <1>2, <2>1, <2>2, QuietStep DEF FinishWork, TypeOK
<1>3. ASSUME NEW ok \in BOOLEAN, Create(p, ok) PROVE OrderInv'
  <2>0. pc[p] = "create" /\ UNCHANGED <<stage, cmd, marker, saved>>
    BY <1>3 DEF Create
  <2>1. CASE pc'[p] = "ended"
    <3>1. Knows(p)'
      BY <1>0, <2>0, <2>1 DEF Knows
    <3> QED BY <1>3, <2>0, <2>1, <3>1, QuietStep DEF Create, TypeOK
  <2>2. CASE pc'[p] = "truncate" /\ id'[p] = p /\ mem'[p] = Sessions!NewSession
    <3>1. saved[p] = Absent
      BY <1>0, <2>0 DEF Created
    <3>2. Copied(p)'
      BY <1>0, <2>0, <2>2, <3>1 DEF Copied, Knows
    <3>3. Knows(p)'
      BY <1>0, <2>0, <2>2, <3>2 DEF Knows
    <3> QED BY <1>3, <2>0, <2>2, <3>3, QuietStep DEF Create, TypeOK
  <2> QED BY <1>3, <2>1, <2>2 DEF Create, TypeOK
<1>4. CASE ReadMarker(p)
  <2>0. pc[p] = "look" /\ UNCHANGED <<cmd, marker, saved>>
    BY <1>4 DEF ReadMarker
  <2>1. CASE marker \in Procs
    <3>1. pc'[p] = "load" /\ id'[p] = marker /\ stage' = stage
      BY <1>4, <2>1 DEF ReadMarker, Named, TypeOK
    <3>2. marker # p
      BY <1>0, <2>0, <2>1 DEF MarkerSaved, Created
    <3>3. Knows(p)'
      BY <1>0, <2>0, <3>1, <3>2 DEF Knows
    <3> QED BY <1>4, <2>0, <3>1, <3>3, QuietStep DEF ReadMarker, TypeOK
  <2>2. CASE marker \notin Procs
    <3>1. \/ pc'[p] = "look" /\ stage'[p] = "first"
          \/ pc'[p] = "ended" /\ stage'[p] = stage[p]
          \/ pc'[p] = "create" /\ stage'[p] = stage[p] /\ cmd[p] \in Starts
      BY <1>4, <2>2 DEF ReadMarker, Named, NothingActive, TypeOK, Starts
    <3>2. Knows(p)'
      BY <1>0, <2>0, <2>2, <3>1 DEF Knows
    <3> QED BY <1>4, <2>0, <3>1, <3>2, QuietStep DEF ReadMarker, TypeOK
  <2> QED BY <2>1, <2>2
<1>5. CASE LoadActive(p)
  <2>0. /\ pc[p] = "load" /\ UNCHANGED <<cmd, marker, saved, file, id, stage>>
        /\ marker = id[p] /\ id[p] # p
    BY <1>0, <1>5 DEF LoadActive, Knows
  <2>1. CASE Readable(id[p]) /\ file[id[p]].status = "active"
    <3>1. file[id[p]] = saved[id[p]]
      BY <1>0, <2>1, ReadsSaved DEF TypeOK
    <3>2. CASE pc'[p] \in {"ended", "work"}
      <4>1. Knows(p)'
        BY <1>0, <2>0, <3>2 DEF Knows
      <4> QED BY <1>5, <2>0, <3>2, <4>1, QuietStep DEF LoadActive, TypeOK
    <3>3. CASE pc'[p] = "truncate"
      <4>1. stage[p] # "first"
        BY <1>5, <2>1, <3>3 DEF LoadActive, ActiveStep, TypeOK
      <4>2. mem'[p] = Updated(p, saved[id[p]])
        BY <1>5, <2>1, <3>1, <4>1 DEF LoadActive, TypeOK
      <4>3. Copied(p)'
        BY <2>0, <2>1, <3>1, <4>2 DEF Copied, Updated
      <4>4. Knows(p)'
        BY <1>0, <2>0, <3>3, <4>3 DEF Knows
      <4> QED BY <1>5, <2>0, <3>3, <4>4, QuietStep DEF LoadActive, TypeOK
    <3> QED BY <1>5, <2>1, <3>2, <3>3 DEF LoadActive, ActiveStep, TypeOK
  <2>2. CASE ~ (Readable(id[p]) /\ file[id[p]].status = "active")
    <3>1. pc'[p] = "heal" /\ file[id[p]].status # "active"
      BY <1>5, <2>2 DEF LoadActive, Readable, TypeOK
    <3>2. Knows(p)'
      BY <1>0, <2>0, <3>1 DEF Knows
    <3> QED BY <1>5, <2>0, <3>1, <3>2, QuietStep DEF LoadActive, TypeOK
  <2> QED BY <2>1, <2>2
<1>6. CASE LoadForced(p)
  <2>0. /\ pc[p] = "load" /\ UNCHANGED <<world, cmd, marker, saved, file, id, stage>>
        /\ marker = id[p] /\ id[p] # p /\ cmd[p] # "run"
    BY <1>0, <1>6 DEF LoadForced, Knows
  <2>1. CASE Readable(id[p])
    <3>1. file[id[p]] = saved[id[p]]
      BY <1>0, <2>1, ReadsSaved DEF TypeOK
    <3>2. pc'[p] = "truncate" /\ mem'[p] = [saved[id[p]] EXCEPT !.status = "aborted"]
      BY <1>6, <2>1, <3>1 DEF LoadForced, TypeOK
    <3>3. ~ world.crashes => saved[id[p]].status = "active"
      <4>1. \A q \in Procs : pc[q] # "unmark"
        BY <1>6, <2>0, OthersIdle DEF LoadForced, Idle, Resting
      <4> QED BY <1>0, <2>0, <4>1 DEF MarkerSaved, TypeOK
    <3>4. Copied(p)'
      BY <2>0, <3>2, <3>3 DEF Copied
    <3>5. Knows(p)'
      BY <1>0, <2>0, <3>2, <3>4 DEF Knows
    <3> QED BY <1>6, <2>0, <3>2, <3>5, QuietStep DEF LoadForced, TypeOK
  <2>2. CASE ~ Readable(id[p])
    <3>1. pc'[p] = "unmark" /\ file[id[p]].status # "active"
      BY <1>6, <2>2 DEF LoadForced, Readable, TypeOK
    <3>2. Knows(p)'
      BY <1>0, <2>0, <3>1 DEF Knows
    <3> QED BY <1>6, <2>0, <3>1, <3>2, QuietStep DEF LoadForced, TypeOK
  <2> QED BY <2>1, <2>2
<1> QED BY <1>1, <1>2, <1>3, <1>4, <1>5, <1>6

(***************************************************************************)
(* Whoever is idle has nothing to know, and stays alone in having nothing. *)
(***************************************************************************)
LEMMA OthersKnow ==
  ASSUME OrderInv, NEW p \in Procs, MayStep(p), world.overlap # "any",
         pc'[p] # "crashed", world' = world,
         \A q \in Procs : q # p => pc'[q] = pc[q] /\ stage'[q] = stage[q] /\ cmd'[q] = cmd[q]
  PROVE  Solo' /\ NoCrash' /\ \A q \in Procs : q # p => Knows(q)'
<1>1. \A q \in Procs : q # p => pc[q] \in Idle
  BY OthersIdle
<1>2. Solo' /\ NoCrash'
  BY <1>1 DEF OrderInv, Solo, NoCrash
<1>3. ASSUME NEW q \in Procs, q # p PROVE Knows(q)'
  BY <1>1, <1>3 DEF OrderInv, Knows, Idle, Resting
<1> QED BY <1>2, <1>3

(***************************************************************************)
(* The steps that write the marker.                                        *)
(***************************************************************************)
LEMMA MarkStep ==
  ASSUME TypeOK, OrderInv, NEW p \in Procs, world.overlap # "any",
         Heal(p) \/ Unmark(p) \/ TruncateMarker(p) \/ WriteMarker(p)
  PROVE  OrderInv'
<1> USE DEF Goto
<1>0. Knows(p) /\ Created /\ FilesSaved /\ MarkerSaved /\ ActiveMarked /\ world.overlap # "any"
  BY DEF OrderInv
<1>1. "none" \notin Procs /\ "torn" \notin Procs
  BY VigilAssumption
<1>2. UNCHANGED <<world, file, saved, id, cmd, mem>>
  BY DEF Heal, Unmark, TruncateMarker, WriteMarker
<1>3. /\ MayStep(p) /\ \A q \in Procs : q # p => pc'[q] = pc[q] /\ stage'[q] = stage[q]
      /\ pc'[p] # "crashed"
  BY DEF Heal, Unmark, TruncateMarker, WriteMarker, TypeOK, NothingActive
<1>4. Solo' /\ NoCrash' /\ \A q \in Procs : q # p => Knows(q)'
  BY <1>2, <1>3, OthersKnow
<1>5. FilesSaved'
  <2>1. pc[p] \notin {"write", "crashed"}
    BY DEF Heal, Unmark, TruncateMarker, WriteMarker
  <2> QED BY <1>0, <1>2, <1>3, <2>1 DEF FilesSaved
<1>6. CASE Heal(p) \/ Unmark(p)
  <2>1. /\ marker = id[p] /\ marker' = "none" /\ id[p] # p
        /\ file[id[p]].status # "active" /\ pc[p] \in {"heal", "unmark"}
    BY <1>0, <1>6 DEF Heal, Unmark, Knows
  <2>2. Created'
    BY <1>0, <1>2, <1>3, <2>1 DEF Created
  <2>3. MarkerSaved'
    BY <1>1, <2>1 DEF MarkerSaved
  <2>4. ActiveMarked'
    BY <1>0, <1>2, <1>3, <2>1 DEF ActiveMarked, FilesSaved
  <2>5. \/ pc'[p] \in {"ended", "look"} /\ stage'[p] \in {stage[p], "first"}
        \/ pc'[p] = "create" /\ stage'[p] = stage[p] /\ cmd[p] \in Starts
    BY <1>6 DEF Heal, Unmark, TypeOK, NothingActive, Starts
  <2>6. Knows(p)'
    BY <1>0, <1>1, <1>2, <2>1, <2>5 DEF Knows
  <2> QED BY <1>4, <1>5, <2>2, <2>3, <2>4, <2>6 DEF OrderInv
<1>7. CASE TruncateMarker(p)
  <2>1. /\ marker \notin Procs /\ marker' = "torn" /\ pc[p] = "mark" /\ pc'[p] = "name"
        /\ id[p] = p /\ saved[p].status = "active" /\ cmd[p] \in Starts /\ stage' = stage
    BY <1>0, <1>7 DEF TruncateMarker, Knows, TypeOK
  <2>2. Created'
    BY <1>0, <1>2, <1>3, <2>1 DEF Created
  <2>3. MarkerSaved' /\ ActiveMarked'
    BY <1>0, <1>1, <1>2, <1>3, <2>1 DEF MarkerSaved, ActiveMarked
  <2>4. Knows(p)'
    BY <1>0, <1>1, <1>2, <2>1 DEF Knows
  <2> QED BY <1>4, <1>5, <2>2, <2>3, <2>4 DEF OrderInv
<1>8. CASE WriteMarker(p)
  <2>1. /\ marker \notin Procs /\ marker' = p /\ pc[p] = "name" /\ pc'[p] = "ended"
        /\ id[p] = p /\ saved[p].status = "active" /\ cmd[p] \in Starts /\ stage' = stage
    BY <1>0, <1>8 DEF WriteMarker, Knows, TypeOK
  <2>2. Created'
    BY <1>0, <1>2, <1>3, <2>1 DEF Created
  <2>3. MarkerSaved'
    BY <1>2, <2>1 DEF MarkerSaved, Absent, Sessions!Absent
  <2>4. ActiveMarked'
    BY <1>0, <1>2, <1>3, <2>1 DEF ActiveMarked
  <2>5. Knows(p)'
    BY <1>0, <1>2, <2>1 DEF Knows
  <2> QED BY <1>4, <1>5, <2>2, <2>3, <2>4, <2>5 DEF OrderInv
<1> QED BY <1>6, <1>7, <1>8

(***************************************************************************)
(* What WriteSession is about to save, in the terms of the session log.    *)
(***************************************************************************)
LEMMA CopiedSession ==
  ASSUME TypeOK, OrderInv, NEW p \in Procs, Copied(p)
  PROVE  /\ mem[p].status \in {"active", "completed", "aborted"}
         /\ id[p] # p => saved[id[p]] # Absent /\ saved[id[p]].runs \subseteq mem[p].runs
         /\ id[p] # p => mem[p].status = "active" <=> cmd[p] = "run"
         /\ mem[p] # Absent
<1>0. MarkerSaved /\ id[p] \in Procs /\ saved[id[p]] \in Session \cup {Absent}
  BY DEF OrderInv, TypeOK
<1>1. CASE id[p] = p
  BY <1>1 DEF Copied, Sessions!NewSession, Absent, Sessions!Absent
<1>2. CASE id[p] # p
  <2>1. saved[id[p]] # Absent /\ saved[id[p]] \in Session
    BY <1>0, <1>2 DEF Copied, MarkerSaved
  <2>2. /\ mem[p].status \in {"active", "completed", "aborted"}
        /\ mem[p].status = "active" <=> cmd[p] = "run"
        /\ saved[id[p]].runs \subseteq mem[p].runs
    BY <1>2, <2>1 DEF Copied, Session
  <2> QED BY <2>1, <2>2 DEF Absent, Sessions!Absent
<1> QED BY <1>1, <1>2

(***************************************************************************)
(* The steps that write a session.                                         *)
(***************************************************************************)
LEMMA SaveStep ==
  ASSUME TypeOK, OrderInv, NEW p \in Procs, world.overlap # "any",
         Truncate(p) \/ WriteSession(p)
  PROVE  OrderInv'
<1> USE DEF Goto
<1>0. Knows(p) /\ Created /\ FilesSaved /\ MarkerSaved /\ ActiveMarked /\ id[p] \in Procs
  BY DEF OrderInv, TypeOK
<1>1. /\ UNCHANGED <<world, marker, cmd, stage, id, mem>> /\ MayStep(p) /\ Copied(p)
      /\ pc[p] \in {"truncate", "write"} /\ pc'[p] # "crashed"
      /\ \A q \in Procs : q # p => pc'[q] = pc[q]
  BY <1>0 DEF Truncate, WriteSession, Knows, TypeOK, AfterSave
<1>2. Solo' /\ NoCrash' /\ \A q \in Procs : q # p => Knows(q)'
  BY <1>1, OthersKnow
<1>3. CASE Truncate(p)
  <2>1. /\ file'[id[p]] = Torn /\ saved' = saved /\ pc'[p] = "write" /\ pc[p] = "truncate"
        /\ \A s \in Procs : s # id[p] => file'[s] = file[s]
    BY <1>3 DEF Truncate, TypeOK
  <2>2. Created' /\ MarkerSaved' /\ ActiveMarked'
    <3>1. Created'
      BY <1>0, <1>1, <2>1 DEF Created
    <3>2. MarkerSaved'
      BY <1>0, <1>1, <2>1 DEF MarkerSaved
    <3>3. ActiveMarked'
      BY <1>0, <1>1, <2>1 DEF ActiveMarked
    <3> QED BY <3>1, <3>2, <3>3
  <2>3. FilesSaved'
    BY <1>0, <1>1, <2>1 DEF FilesSaved
  <2>4. Knows(p)'
    BY <1>0, <1>1, <2>1 DEF Knows, Copied
  <2> QED BY <1>2, <2>2, <2>3, <2>4 DEF OrderInv
<1>4. CASE WriteSession(p)
  <2>1. /\ file'[id[p]] = mem[p] /\ saved'[id[p]] = mem[p] /\ pc[p] = "write"
        /\ pc'[p] = AfterSave(p)
        /\ \A s \in Procs : s # id[p] => file'[s] = file[s] /\ saved'[s] = saved[s]
    BY <1>4 DEF WriteSession, TypeOK
  <2>2. /\ mem[p].status \in {"active", "completed", "aborted"} /\ mem[p] # Absent
        /\ id[p] # p => saved[id[p]] # Absent /\ (mem[p].status = "active" <=> cmd[p] = "run")
    BY <1>1, CopiedSession
  <2>3. saved[p] = Absent
    BY <1>0, <2>1 DEF Created
  <2>4. /\ id[p] = p => pc'[p] = "mark" /\ marker \notin Procs /\ mem[p].status = "active"
        /\ id[p] # p => marker = id[p] /\ pc'[p] = IF cmd[p] = "run" THEN "ended" ELSE "unmark"
    <3>1. CASE id[p] = p
      <4>1. cmd[p] \in Starts /\ marker \notin Procs /\ mem[p] = Sessions!NewSession
        BY <1>1, <3>1 DEF Copied
      <4>2. AfterSave(p) = "mark" /\ mem[p].status = "active"
        <5>1. mem[p].status = "active"
          BY <4>1 DEF Sessions!NewSession
        <5>2. cmd[p] # "run"
          BY <4>1 DEF Starts
        <5> QED BY <3>1, <5>1, <5>2 DEF AfterSave
      <4> QED BY <2>1, <3>1, <4>1, <4>2
    <3>2. CASE id[p] # p
      <4>1. marker = id[p]
        BY <1>1, <3>2 DEF Copied
      <4>2. AfterSave(p) = IF cmd[p] = "run" THEN "ended" ELSE "unmark"
        BY <3>2 DEF AfterSave
      <4> QED BY <2>1, <3>2, <4>1, <4>2
    <3> QED BY <3>1, <3>2
  <2>5. Created'
    BY <1>0, <1>1, <2>1, <2>2, <2>3, <2>4 DEF Created
  <2>6. FilesSaved'
    BY <1>0, <1>1, <2>1 DEF FilesSaved
  <2>7. MarkerSaved'
    BY <1>0, <1>1, <2>1, <2>2, <2>4 DEF MarkerSaved
  <2>8. ActiveMarked'
    BY <1>0, <1>1, <2>1, <2>3, <2>4 DEF ActiveMarked
  <2>9. Knows(p)'
    <3>1. id[p] = p => cmd[p] \in Starts
      BY <1>1 DEF Copied
    <3> QED BY <1>0, <1>1, <2>1, <2>2, <2>4, <3>1 DEF Knows
  <2> QED BY <1>2, <2>5, <2>6, <2>7, <2>8, <2>9 DEF OrderInv
<1> QED BY <1>3, <1>4

(***************************************************************************)
(* A process that dies leaves its writing undone, and nothing else.        *)
(***************************************************************************)
LEMMA CrashStep ==
  ASSUME TypeOK, OrderInv, NEW p \in Procs, Crash(p)
  PROVE  OrderInv'
<1> USE DEF Goto
<1>0. /\ UNCHANGED <<world, file, marker, cmd, stage, id, mem, saved>> /\ world.crashes
      /\ pc'[p] = "crashed" /\ pc[p] \notin Resting
      /\ \A q \in Procs : q # p => pc'[q] = pc[q]
  BY DEF Crash, TypeOK
<1>1. Solo' /\ NoCrash'
  BY <1>0 DEF OrderInv, Solo, NoCrash, Idle, Resting
<1>2. Created'
  BY <1>0 DEF OrderInv, Created
<1>3. FilesSaved'
  BY <1>0 DEF OrderInv, FilesSaved
<1>4. MarkerSaved' /\ ActiveMarked'
  BY <1>0 DEF OrderInv, MarkerSaved, ActiveMarked
<1>5. ASSUME NEW q \in Procs PROVE Knows(q)'
  <2>1. Knows(q)
    BY DEF OrderInv
  <2> QED BY <1>0, <2>1 DEF Knows, Copied
<1> QED BY <1>1, <1>2, <1>3, <1>4, <1>5 DEF OrderInv

(***************************************************************************)
(* No step changes the circumstances.                                      *)
(***************************************************************************)
LEMMA WorldKept == [Next]_vars => world' = world
BY Cases DEF Launch, FinishWork, Create, ReadMarker, LoadActive, Heal, LoadForced, Truncate,
   WriteSession, TruncateMarker, WriteMarker, Unmark, Crash, vars

(***************************************************************************)
(* Every step keeps the order of lookups and saves.                        *)
(***************************************************************************)
LEMMA OrderStep == TypeOK /\ OrderInv /\ world.overlap # "any" /\ [Next]_vars => OrderInv'
<1> SUFFICES ASSUME TypeOK, OrderInv, world.overlap # "any", [Next]_vars PROVE OrderInv'
  OBVIOUS
<1>1. CASE UNCHANGED vars
  <2>0. UNCHANGED <<world, file, marker, cmd, pc, stage, id, mem, saved>>
    BY <1>1 DEF vars, procVars
  <2>1. Solo' /\ NoCrash' /\ Created' /\ FilesSaved'
    BY <2>0 DEF OrderInv, Solo, NoCrash, Created, FilesSaved
  <2>2. MarkerSaved' /\ ActiveMarked'
    BY <2>0 DEF OrderInv, MarkerSaved, ActiveMarked
  <2>3. ASSUME NEW p \in Procs PROVE Knows(p)'
    <3>1. Knows(p)
      BY DEF OrderInv
    <3> QED BY <2>0, <3>1 DEF Knows, Copied
  <2> QED BY <2>1, <2>2, <2>3 DEF OrderInv
<1> QED BY <1>1, Cases, LookStep, MarkStep, SaveStep, CrashStep

(***************************************************************************)
(* In the beginning nothing is written and nobody has looked.              *)
(***************************************************************************)
LEMMA InitInv == Init => IInv
<1> SUFFICES ASSUME Init PROVE TypeOK /\ OrderInv
  BY DEF IInv
<1>0. Absent.status = "absent" /\ "none" \notin Procs /\ world \in World
  BY VigilAssumption DEF Init, Absent, Sessions!Absent
<1>1. TypeOK
  BY <1>0 DEF Init, TypeOK
<1>2. OrderInv
  BY <1>0 DEF Init, OrderInv, Solo, NoCrash, Created, FilesSaved, MarkerSaved, ActiveMarked, Knows,
     Idle, Resting
<1> QED BY <1>1, <1>2

-----------------------------------------------------------------------------
(* The theorems.                                                           *)

(***************************************************************************)
(* The invariant: while lookups and saves do not overlap, what a process   *)
(* is about to save is what was saved, and its own change.                 *)
(***************************************************************************)
THEOREM SessionsSound == Spec => []IInv
<1>1. IInv /\ [Next]_vars => IInv'
  BY TypesStep, OrderStep, WorldKept DEF IInv
<1> QED BY InitInv, <1>1, PTL DEF Spec

(***************************************************************************)
(* FilesSaved, marker and the processes' memory are always well formed          *)
(* (manager.go, its sessions and its active marker).                       *)
(***************************************************************************)
THEOREM TypeCorrect == Spec => []TypeOK
<1>1. IInv => TypeOK
  BY DEF IInv
<1> QED BY SessionsSound, <1>1, PTL

(***************************************************************************)
(* Between commands the marker names a written session, an active session  *)
(* that it does not name is one whose start died, and an unreadable file   *)
(* one whose writer died (manager.go Start, Stop, ForceStop, GetActive).   *)
(***************************************************************************)
THEOREM MarkerAndFilesAgree == Spec => []MarkerAgrees
<1>1. IInv => MarkerAgrees
  <2> SUFFICES ASSUME IInv, world.overlap # "any", Quiet
               PROVE  /\ marker \in Procs => file[marker] # Absent
                      /\ \A s \in Procs : file[s].status = "active" /\ marker # s
                                            => pc[s] = "crashed"
                      /\ \A s \in Procs : file[s] = Torn
                                            => \E p \in Procs : pc[p] = "crashed" /\ id[p] = s
    BY DEF MarkerAgrees
  <2>0. TypeOK /\ FilesSaved /\ MarkerSaved /\ ActiveMarked
    BY DEF IInv, OrderInv
  <2>1. Torn.status = "torn" /\ Torn # Absent
    BY DEF Torn, Absent, Sessions!Absent
  <2>2. \A p \in Procs : pc[p] \notin {"write", "mark", "name", "unmark"}
    BY DEF Quiet, Resting
  <2>3. ASSUME marker \in Procs PROVE file[marker] # Absent
    BY <2>0, <2>1, <2>3 DEF FilesSaved, MarkerSaved
  <2>4. ASSUME NEW s \in Procs, file[s].status = "active", marker # s PROVE pc[s] = "crashed"
    BY <2>0, <2>1, <2>2, <2>4 DEF FilesSaved, ActiveMarked
  <2>5. ASSUME NEW s \in Procs, file[s] = Torn
        PROVE  \E p \in Procs : pc[p] = "crashed" /\ id[p] = s
    <3>1. saved[s] # Torn
      BY <2>0, <2>1 DEF TypeOK, Session
    <3> QED BY <2>0, <2>2, <2>5, <3>1 DEF FilesSaved
  <2> QED BY <2>3, <2>4, <2>5
<1> QED BY SessionsSound, <1>1, PTL

(***************************************************************************)
(* What is saved only changes when a session is written.                   *)
(***************************************************************************)
LEMMA SavedKept ==
  [Next]_vars => saved' = saved \/ \E p \in Procs : WriteSession(p)
BY Cases DEF Launch, FinishWork, Create, ReadMarker, LoadActive, Heal, LoadForced, Truncate,
   TruncateMarker, WriteMarker, Unmark, Crash, vars

(***************************************************************************)
(* No command writes back a session it read too early: a recorded run      *)
(* stays, whoever dies when (manager.go AddToolRun, Stop, ForceStop).      *)
(***************************************************************************)
THEOREM RunsStayRecorded == Spec => RunsKept
<1>1. IInv /\ [Next]_vars
        => (world.overlap # "any" => \A s \in Procs : saved[s].runs \subseteq saved'[s].runs)
  <2> SUFFICES ASSUME IInv, [Next]_vars, world.overlap # "any", NEW s \in Procs
               PROVE  saved[s].runs \subseteq saved'[s].runs
    OBVIOUS
  <2>1. ASSUME NEW p \in Procs, WriteSession(p) PROVE saved[s].runs \subseteq saved'[s].runs
    <3>0. TypeOK /\ OrderInv /\ Copied(p)
      BY <2>1 DEF IInv, OrderInv, Knows, WriteSession
    <3>1. saved' = [saved EXCEPT ![id[p]] = mem[p]] /\ saved \in [Procs -> Session \cup {Absent}]
      BY <2>1, <3>0 DEF WriteSession, TypeOK
    <3>2. CASE s = id[p] /\ id[p] = p
      <4>1. saved[s] = Absent
        BY <3>0, <3>2 DEF Copied
      <4> QED BY <4>1 DEF Absent, Sessions!Absent
    <3>3. CASE s = id[p] /\ id[p] # p
      <4>1. saved[s].runs \subseteq mem[p].runs
        BY <3>0, <3>3, CopiedSession
      <4> QED BY <3>1, <3>3, <4>1
    <3>4. CASE s # id[p]
      BY <3>1, <3>4
    <3> QED BY <3>2, <3>3, <3>4
  <2> QED BY <2>1, SavedKept
<1> QED BY SessionsSound, <1>1, PTL DEF Spec, RunsKept

(***************************************************************************)
(* Without crashes every save is one step of the session log: the start of *)
(* a session when none is active, a run recorded in the active one, or its *)
(* end (manager.go Start, AddToolRun, Stop, ForceStop).                    *)
(***************************************************************************)
LEMMA SaveIsLogged ==
  ASSUME TypeOK, OrderInv, ~ world.crashes, world.overlap # "any",
         NEW p \in Procs, WriteSession(p)
  PROVE  Sessions!Next
<1> DEFINE s == id[p]
<1>0. /\ Copied(p) /\ saved' = [saved EXCEPT ![s] = mem[p]]
      /\ saved \in [Procs -> Session \cup {Absent}] /\ s \in Procs /\ pc[p] = "write" /\ MayStep(p)
  BY DEF OrderInv, Knows, WriteSession, TypeOK
<1>1. CASE s = p
  <2>1. /\ marker \notin Procs /\ mem[p] = Sessions!NewSession /\ saved[p] = Absent
        /\ file[p] # saved[p] => \E q \in Procs : id[q] = p /\ pc[q] \in {"write", "crashed"}
    BY <1>0, <1>1 DEF Copied, OrderInv, FilesSaved
  <2>2. Sessions!Active = {}
    <3> SUFFICES ASSUME NEW t \in Procs, saved[t].status = "active" PROVE FALSE
      BY DEF Sessions!Active
    <3>1. \A q \in Procs : q # p => pc[q] \notin {"write", "crashed", "mark", "name"}
      BY <1>0, OthersIdle DEF Idle, Resting, OrderInv, NoCrash
    <3>2. t # p
      BY <2>1 DEF Absent, Sessions!Absent
    <3>3. file[t] = saved[t]
      BY <1>1, <3>1, <3>2 DEF OrderInv, FilesSaved
    <3>4. file[t] # Torn
      BY <3>3 DEF Torn, Absent, Sessions!Absent
    <3> QED BY <2>1, <3>1, <3>2, <3>4 DEF OrderInv, ActiveMarked
  <2>3. saved[p].status = "absent"
    BY <2>1 DEF Absent, Sessions!Absent
  <2>4. Sessions!Start(p)
    BY <1>0, <1>1, <2>1, <2>2, <2>3 DEF Sessions!Start
  <2> QED BY <2>4 DEF Sessions!Next
<1>2. CASE s # p
  <2>1. saved[s].status = "active"
    BY <1>0, <1>2 DEF Copied
  <2>2. saved[s] \in Session /\ s \in Sessions!Active
    BY <1>0, <2>1 DEF Absent, Sessions!Absent, Sessions!Active
  <2>3. CASE mem[p] = [saved[s] EXCEPT !.runs = @ \cup {p}]
    BY <1>0, <2>2, <2>3 DEF Sessions!Record, Sessions!Next
  <2>4. CASE mem[p] = [saved[s] EXCEPT !.status = "completed", !.checked = mem[p].checked]
    <3>0. mem[p].checked \in BOOLEAN
      BY CopyChecked
    <3>1. saved' = [saved EXCEPT ![s].status = "completed", ![s].checked = mem[p].checked]
      BY <1>0, <2>4
    <3>2. \E c \in BOOLEAN : saved' = [saved EXCEPT ![s].status = "completed", ![s].checked = c]
      BY <3>0, <3>1, Zenon
    <3>3. Sessions!Stop(s)
      BY <2>2, <3>2, Zenon DEF Sessions!Stop
    <3> QED BY <1>0, <3>3 DEF Sessions!Next
  <2>5. CASE mem[p] = [saved[s] EXCEPT !.status = "aborted"]
    BY <1>0, <2>2, <2>5 DEF Sessions!ForceStop, Sessions!Next
  <2> QED BY <1>0, <1>2, <2>3, <2>4, <2>5 DEF Copied
<1> QED BY <1>1, <1>2

(***************************************************************************)
(* The session files implement the session log when no process dies and    *)
(* no two commands look up and save at once: one active session, runs only *)
(* in it, ends that stay (manager.go Start, Stop, ForceStop, AddToolRun).  *)
(***************************************************************************)
THEOREM FilesImplementLog == Spec => ImplementsSessionLog
<1>1. Init => Sessions!Init
  BY DEF Init, Sessions!Init, Absent
<1>2. IInv /\ [Next]_vars => (world.overlap # "any" /\ ~world.crashes => [Sessions!Next]_saved)
  BY SavedKept, SaveIsLogged DEF IInv
<1> QED BY SessionsSound, <1>1, <1>2, PTL DEF Spec, ImplementsSessionLog

-----------------------------------------------------------------------------
(* Audit: what stop and audit find, and the watcher and the policies *)

\* The lists that MergeOrgPolicy merges are lists.
Policies == \A field \in ListFields : IsList(cfg.repo[field]) /\ IsList(cfg.org[field])

\* The trees, a change, an event.
Tree == [Files -> Content]
GitCommands == {"committed", "staged", "unstaged", "untracked"}
Change == [path : Names, source : GitCommands]
Event == [kind : {"write", "remove", "rename"}, file : Files, n : Nat]
Notices == Event \cup [kind : {"directory"}, file : {""}, n : Nat]
Pass ==
  [pc : GitCommands \cup {"idle", "engine", "scan", "save", "done"},
   command : {"", "stop", "audit"}, diffed : BOOLEAN, checked : BOOLEAN, changes : SUBSET Change,
   renamed : SUBSET (Files \X Files), todo : SUBSET Names, secrets : SUBSET Names,
   writes : SUBSET [rule : {"read_only", "no_write", "allowed_write"}, file : Names]]

\* The types of all variables but the watcher.
AuditTypes ==
  /\ work \in Tree /\ index \in Tree /\ head \in Tree /\ base \in Tree
  /\ edits \in Nat /\ touched \subseteq Files
  /\ pass \in Pass
  /\ session.status \in {"none", "active", "completed"} /\ session.changes \subseteq Change
  /\ pass.pc # "idle" => session.status # "none"

\* No name is twice among changes.
Once(changes) == \A c, d \in changes : c.path = d.path => c = d

\* One of the names that git's lines leave of a file is among the changes.
IsNamed(f) == NamesOf(f) \cap Paths(pass.changes) # {}

\* The commands of DiffSince that have run, and what each compares.
Ran(step) ==
  IF step = "committed" THEN {}
  ELSE IF step = "staged" THEN {"committed"}
  ELSE IF step = "unstaged" THEN {"committed", "staged"}
  ELSE IF step = "untracked" THEN {"committed", "staged", "unstaged"}
  ELSE GitCommands
Differs(command, f) ==
  IF command = "committed" THEN base[f] # head[f]
  ELSE IF command = "staged" THEN head[f] # index[f]
  ELSE IF command = "unstaged" THEN index[f] # Tracked[f]
  ELSE index[f] = "absent" /\ work[f] # "absent"

\* They have named the files that differ, no name twice.
DiffInv ==
  /\ Once(pass.changes) /\ Once(session.changes)
  /\ pass.pc # "idle" /\ pass.diffed =>
       \A f \in Steady : \A command \in Ran(pass.pc) : Differs(command, f) => IsNamed(f)

\* What has been scanned was found, and nothing else.
ScanInv ==
  /\ pass.pc \in GitCommands \cup {"engine"} => ~pass.checked /\ pass.secrets = {}
  /\ pass.pc = "scan" => pass.checked
  /\ pass.checked =>
       /\ pass.todo \cup pass.secrets \subseteq Paths(pass.changes)
       /\ \A f \in Steady : /\ f \in Paths(pass.changes) \ pass.todo /\ Found(work[f]) => f \in pass.secrets
                            /\ f \in pass.secrets => Found(work[f])
  /\ pass.checked /\ pass.pc \in {"save", "done"} => pass.todo = {} /\ pass.writes = CheckWrites(Paths(pass.changes))

\* The inductive invariant of the policies and of stop and audit.
AuditInv == Policies /\ AuditTypes /\ DiffInv /\ ScanInv

\* The watcher: a file whose last change was reported is scanned, or will be,
\* from the last notice of it.
WatchTypes ==
  /\ DOMAIN watch = DOMAIN NoWatch
  /\ watch.pc \in {"off", "on", "stopping"}
  /\ watch.events \in Seq(Notices) /\ watch.handling \in Event \cup {NoEvent}
  /\ \A f \in DOMAIN watch.timers : watch.timers[f] \in Event /\ watch.timers[f].file = f
  /\ watch.running \subseteq Event

\* A notice of a file, from which what is there now will be found; and where
\* one is on its way.
Of(e, f) == e.kind \in {"write", "remove"} /\ e.file = f
Fits(e, f) == Of(e, f) /\ (Found(work[f]) => e.kind = "write")
Unnoticed(f) == \A i \in DOMAIN watch.events : ~Of(watch.events[i], f)
WillScan(f) ==
  \/ \E i \in DOMAIN watch.events :
       Fits(watch.events[i], f) /\ \A j \in DOMAIN watch.events : j > i => ~Of(watch.events[j], f)
  \/ Unnoticed(f) /\ Fits(watch.handling, f)
  \/ Unnoticed(f) /\ ~Of(watch.handling, f) /\ f \in DOMAIN watch.timers /\ Fits(watch.timers[f], f)
  \/ \E e \in watch.running : Fits(e, f)
  \/ f \in watch.changes /\ (Found(work[f]) => f \in watch.secrets)
Watched == watch.pc = "on" => \A f \in due : f \in Files /\ WillScan(f)

\* The inductive invariant of the watcher.
WatchInv == WatchTypes /\ Watched

-----------------------------------------------------------------------------
(* Merging two lists.                                                      *)

\* The recursive function inside mergeStringSlices, up to n strings.
IsMerging(g, all, n) == g = [k \in 0..n |-> IF k = 0 THEN << >> ELSE AddUnlessSeen(g[k - 1], all[k])]

(***************************************************************************)
(* There is such a function: one for fewer strings can be extended.        *)
(***************************************************************************)
LEMMA MergingExists ==
  ASSUME NEW all, NEW N \in Nat
  PROVE  \E g : IsMerging(g, all, N)
<1> DEFINE C == { m \in 0..N : ~ \E g : IsMerging(g, all, m) }
<1> SUFFICES ASSUME C # {} PROVE FALSE
  OBVIOUS
<1>1. PICK m \in C : \A k \in C : m <= k
  <2> C \subseteq 0..N
    OBVIOUS
  <2> HIDE DEF C
  <2> QED BY LeastNumber
<1>2. m # 0
  <2> DEFINE g == [k \in 0..0 |-> << >>]
  <2>1. IsMerging(g, all, 0)
    <3>1. \A k \in 0..0 : k = 0
      OBVIOUS
    <3> QED BY <3>1 DEF IsMerging
  <2> QED BY <1>1, <2>1
<1>3. m \in Nat /\ m - 1 \in 0..N /\ m - 1 \notin C
  BY <1>1, <1>2
<1>4. PICK g : IsMerging(g, all, m - 1)
  BY <1>3
<1> DEFINE h == [k \in 0..m |-> IF k = m THEN AddUnlessSeen(g[m - 1], all[m]) ELSE g[k]]
           f == [k \in 0..m |-> IF k = 0 THEN << >> ELSE AddUnlessSeen(h[k - 1], all[k])]
<1>5. \A k \in 0..(m - 1) : h[k] = g[k]
  BY <1>3
<1>6. ASSUME NEW k \in 0..m PROVE h[k] = f[k]
  <2>1. CASE k = m
    <3>1. h[m - 1] = g[m - 1]
      BY <1>2, <1>3, <1>5
    <3>2. h[m] = AddUnlessSeen(g[m - 1], all[m])
      BY <1>3
    <3>3. f[m] = AddUnlessSeen(h[m - 1], all[m])
      <4> HIDE DEF h
      <4> QED BY <1>2, <1>3
    <3> HIDE DEF h, f
    <3> QED BY <2>1, <3>1, <3>2, <3>3
  <2>2. CASE k = 0
    <3>1. h[0] = g[0] /\ g[0] = << >>
      BY <1>2, <1>3, <1>4, <1>5 DEF IsMerging
    <3> QED BY <2>2, <3>1
  <2>3. CASE k # m /\ k # 0
    <3>1. k \in 0..(m - 1) /\ k - 1 \in 0..(m - 1)
      BY <1>3, <2>3
    <3>2. h[k] = g[k] /\ h[k - 1] = g[k - 1]
      BY <1>5, <3>1
    <3>3. g[k] = AddUnlessSeen(g[k - 1], all[k])
      BY <1>4, <2>3, <3>1 DEF IsMerging
    <3>4. f[k] = AddUnlessSeen(h[k - 1], all[k])
      <4> HIDE DEF h
      <4> QED BY <2>3
    <3> HIDE DEF h, f
    <3> QED BY <3>2, <3>3, <3>4
  <2> QED BY <2>1, <2>2, <2>3
<1>7. h = [k \in 0..m |-> h[k]] /\ f = [k \in 0..m |-> f[k]]
  <2>1. h = [k \in 0..m |-> h[k]]
    OBVIOUS
  <2>2. f = [k \in 0..m |-> f[k]]
    <3> HIDE DEF h
    <3> QED OBVIOUS
  <2> QED BY <2>1, <2>2
<1>8. h = f
  <2> HIDE DEF h, f
  <2> QED BY <1>6, <1>7
<1>9. IsMerging(h, all, m)
  <2> HIDE DEF h
  <2> QED BY <1>8 DEF IsMerging
<1> QED BY <1>1, <1>9

(***************************************************************************)
(* After each string the list has those so far.                            *)
(***************************************************************************)
LEMMA MergingKeeps ==
  ASSUME NEW V, NEW all \in Seq(V), NEW g, IsMerging(g, all, Len(all)), NEW n \in 0..Len(all)
  PROVE  g[n] \in Seq(V) /\ ToSet(g[n]) = {all[i] : i \in 1..n}
<1> DEFINE Keeps(k) == g[k] \in Seq(V) /\ ToSet(g[k]) = {all[i] : i \in 1..k}
           C == { k \in 0..Len(all) : ~Keeps(k) }
<1> SUFFICES ASSUME C # {} PROVE FALSE
  OBVIOUS
<1>1. PICK m \in C : \A k \in C : m <= k
  <2> C \subseteq 0..Len(all) /\ Len(all) \in Nat
    OBVIOUS
  <2> HIDE DEF C
  <2> QED BY LeastNumber
<1>2. m # 0
  <2>1. 0 \in 0..Len(all) /\ g[0] = << >>
    BY DEF IsMerging
  <2>2. Keeps(0)
    BY <2>1 DEF ToSet
  <2> QED BY <1>1, <2>2
<1>3. m \in 1..Len(all) /\ m - 1 \in 0..Len(all) /\ m - 1 \notin C /\ m \in Nat
  <2>1. m \in 0..Len(all) /\ Len(all) \in Nat
    BY <1>1
  <2>2. m \in 1..Len(all) /\ m - 1 \in 0..Len(all) /\ m \in Nat /\ ~(m <= m - 1)
    BY <1>2, <2>1
  <2> HIDE DEF C
  <2> QED BY <1>1, <2>2
<1>4. g[m] = AddUnlessSeen(g[m - 1], all[m])
  BY <1>1, <1>2 DEF IsMerging
<1>5. g[m - 1] \in Seq(V) /\ ToSet(g[m - 1]) = {all[i] : i \in 1..(m - 1)} /\ all[m] \in V
  BY <1>3
<1>6. {all[i] : i \in 1..m} = {all[i] : i \in 1..(m - 1)} \cup {all[m]}
  <2>1. 1..m = (1..(m - 1)) \cup {m}
    BY <1>3
  <2> QED BY <2>1
<1>7. g[m] \in Seq(V) /\ ToSet(g[m]) = ToSet(g[m - 1]) \cup {all[m]}
  <2>1. CASE all[m] \in ToSet(g[m - 1])
    BY <1>4, <1>5, <2>1 DEF AddUnlessSeen
  <2>2. CASE all[m] \notin ToSet(g[m - 1])
    <3> DEFINE old == g[m - 1]
    <3>1. g[m] = Append(old, all[m]) /\ old \in Seq(V)
      BY <1>4, <1>5, <2>2 DEF AddUnlessSeen
    <3> HIDE DEF old
    <3>2. g[m] \in Seq(V) /\ Len(g[m]) = Len(old) + 1 /\ g[m][Len(old) + 1] = all[m]
          /\ \A i \in 1..Len(old) : g[m][i] = old[i]
      BY <1>5, <3>1
    <3>3. DOMAIN g[m] = 1..(Len(old) + 1) /\ DOMAIN old = 1..Len(old) /\ Len(old) \in Nat
      BY <3>1, <3>2
    <3>4. DOMAIN g[m] = DOMAIN old \cup {Len(old) + 1}
      BY <3>3
    <3>5. ToSet(g[m]) = ToSet(old) \cup {all[m]}
      <4> DEFINE new == g[m]  last == Len(old) + 1
      <4>1. DOMAIN new = DOMAIN old \cup {last} /\ new[last] = all[m] /\ \A i \in DOMAIN old : new[i] = old[i]
        BY <3>2, <3>3, <3>4
      <4> HIDE DEF new, last
      <4>2. {new[i] : i \in DOMAIN new} = {old[i] : i \in DOMAIN old} \cup {all[m]}
        BY ONLY <4>1
      <4> QED BY <4>2 DEF ToSet, new
    <3> QED BY <3>2, <3>5 DEF old
  <2> QED BY <2>1, <2>2
<1> QED BY <1>1, <1>5, <1>6, <1>7

(***************************************************************************)
(* Merging keeps every string of both lists, and nothing else.             *)
(***************************************************************************)
LEMMA MergedSet ==
  ASSUME NEW first, NEW then, IsList(first), IsList(then)
  PROVE  ToSet(mergeStringSlices(first, then)) = ToSet(first) \cup ToSet(then)
<1> DEFINE all == first \o then
           V == ToSet(first) \cup ToSet(then)
           g == CHOOSE g : IsMerging(g, all, Len(all))
<1>1. first \in Seq(V) /\ then \in Seq(V)
  BY DEF IsList
<1>2. all \in Seq(V) /\ Len(all) = Len(first) + Len(then) /\ Len(first) \in Nat /\ Len(then) \in Nat
      /\ (\A i \in 1..Len(first) : all[i] = first[i]) /\ \A i \in 1..Len(then) : all[Len(first) + i] = then[i]
  <2> HIDE DEF V
  <2> QED BY <1>1
<1>3. mergeStringSlices(first, then) = g[Len(all)]
  BY DEF mergeStringSlices, IsMerging
<1>4. Len(all) \in Nat /\ IsMerging(g, all, Len(all))
  <2> HIDE DEF all
  <2> QED BY <1>2, MergingExists
<1> HIDE DEF g
<1>5. ToSet(g[Len(all)]) = {all[i] : i \in 1..Len(all)}
  <2>1. Len(all) \in 0..Len(all)
    BY <1>4
  <2> HIDE DEF all, V
  <2> QED BY <1>2, <1>4, <2>1, MergingKeeps
<1>6. ToSet(first) = {first[i] : i \in 1..Len(first)} /\ ToSet(then) = {then[i] : i \in 1..Len(then)}
  <2> HIDE DEF V
  <2> QED BY <1>1 DEF ToSet
<1>7. \A i \in 1..Len(all) : i \in 1..Len(first) \/ (i - Len(first) \in 1..Len(then) /\ i = Len(first) + (i - Len(first)))
  <2> HIDE DEF all
  <2> QED BY <1>2
<1>8. \A i \in 1..Len(first) : i \in 1..Len(all)
  <2> HIDE DEF all
  <2> QED BY <1>2
<1>9. \A i \in 1..Len(then) : Len(first) + i \in 1..Len(all)
  <2> HIDE DEF all
  <2> QED BY <1>2
<1>10. {all[i] : i \in 1..Len(all)} = {first[i] : i \in 1..Len(first)} \cup {then[i] : i \in 1..Len(then)}
  <2>1. ASSUME NEW i \in 1..Len(all) PROVE all[i] \in {first[j] : j \in 1..Len(first)} \cup {then[j] : j \in 1..Len(then)}
    <3> HIDE DEF all
    <3>1. CASE i \in 1..Len(first)
      BY <1>2, <3>1
    <3>2. CASE i - Len(first) \in 1..Len(then) /\ i = Len(first) + (i - Len(first))
      BY <1>2, <3>2
    <3> QED BY <1>7, <3>1, <3>2
  <2>2. ASSUME NEW i \in 1..Len(first) PROVE first[i] \in {all[j] : j \in 1..Len(all)}
    <3> HIDE DEF all
    <3> QED BY <1>2, <1>8
  <2>3. ASSUME NEW i \in 1..Len(then) PROVE then[i] \in {all[j] : j \in 1..Len(all)}
    <3> HIDE DEF all
    <3> QED BY <1>2, <1>9
  <2> HIDE DEF all
  <2> QED BY <2>1, <2>2, <2>3
<1> QED BY <1>3, <1>5, <1>6, <1>10

(***************************************************************************)
(* What the merged policy and policy show say, for lists that may be as    *)
(* long as they like.                                                      *)
(***************************************************************************)
LEMMA LockedHold == Policies => LockedFieldsHold
<1> SUFFICES ASSUME Policies PROVE LockedFieldsHold
  OBVIOUS
<1> DEFINE merged == MergeOrgPolicy(cfg).merged
           view == MergedConfigView(cfg)
<1>1. \A field \in Fields :
        merged[field] = IF field \in cfg.locked \cap Merging THEN cfg.org[field]
                        ELSE IF field \in ListFields THEN mergeStringSlices(cfg.org[field], cfg.repo[field])
                        ELSE cfg.repo[field]
  BY DEF MergeOrgPolicy
<1>2. ASSUME NEW field \in cfg.locked \cap Merging, Valid(cfg) PROVE cfg.repo[field] \in {cfg.org[field], << >>}
  <2>1. MergeOrgPolicy(cfg).complaints =
          {x \in cfg.locked \cap Merging : cfg.repo[x] # cfg.org[x] /\ (x \in ListFields => cfg.repo[x] # << >>)}
    BY DEF MergeOrgPolicy
  <2> QED BY <1>2, <2>1 DEF Valid
<1>3. ListFields \subseteq Merging /\ Merging \subseteq Fields /\ ListFields \cap (Fields \ Merging) = {}
  BY DEF Merging, Fields
<1>4. ASSUME NEW field \in ListFields \ cfg.locked
      PROVE  ToSet(merged[field]) = ToSet(cfg.org[field]) \cup ToSet(cfg.repo[field])
  <2>1. merged[field] = mergeStringSlices(cfg.org[field], cfg.repo[field])
    BY <1>1, <1>3
  <2> QED BY <2>1, MergedSet DEF Policies
<1>5. \A field \in DOMAIN view :
        /\ field \in ListFields /\ field \in Merging
        /\ view[field] = IF field \in cfg.locked THEN "org-locked" ELSE IF cfg.org[field] # << >> THEN "merged" ELSE "repo"
  BY DEF MergedConfigView, ListFields, Merging
<1>6. ASSUME NEW field \in DOMAIN view, view[field] = "repo" PROVE ToSet(merged[field]) = ToSet(cfg.repo[field])
  <2>1. field \in ListFields \ cfg.locked /\ cfg.org[field] = << >>
    BY <1>5, <1>6
  <2>2. ToSet(<< >>) = {}
    BY DEF ToSet
  <2> QED BY <1>4, <2>1, <2>2
<1>7. ASSUME NEW field \in DOMAIN view, view[field] = "org-locked" PROVE merged[field] = cfg.org[field]
  BY <1>1, <1>3, <1>5, <1>7
<1>8. \A field \in cfg.locked \cap Merging : merged[field] = cfg.org[field]
  BY <1>1, <1>3
<1>9. \A field \in Fields \ Merging : merged[field] = cfg.repo[field]
  BY <1>1, <1>3
<1> HIDE DEF merged, view
<1>10. /\ \A field \in cfg.locked \cap Merging : merged[field] = cfg.org[field]
                                                /\ (Valid(cfg) => cfg.repo[field] \in {cfg.org[field], << >>})
       /\ \A field \in ListFields \ cfg.locked : ToSet(merged[field]) = ToSet(cfg.org[field]) \cup ToSet(cfg.repo[field])
       /\ \A field \in Fields \ Merging : merged[field] = cfg.repo[field]
       /\ \A field \in DOMAIN view : /\ view[field] = "repo" => ToSet(merged[field]) = ToSet(cfg.repo[field])
                                     /\ view[field] = "org-locked" => merged[field] = cfg.org[field]
  BY <1>2, <1>4, <1>6, <1>7, <1>8, <1>9
<1> QED BY <1>10 DEF LockedFieldsHold, merged, view

(***************************************************************************)
(* Both policies as loaded are lists.                                      *)
(***************************************************************************)
LEMMA PoliciesInit == AuditAssumption /\ AuditInit => Policies
<1> SUFFICES ASSUME AuditAssumption, AuditInit PROVE Policies
  OBVIOUS
<1>1. PICK c \in Configs : cfg = [repo |-> LoadConfig(c), org |-> LoadOrgPolicy(c), locked |-> c.locked,
                                 edits |-> c.edits, watched |-> c.watched]
  BY DEF AuditInit
<1>2. cfg.repo = LoadConfig(c) /\ cfg.org = LoadOrgPolicy(c)
  BY <1>1
<1>3. IsList(<< >>)
  BY DEF IsList
<1>4. ASSUME NEW field \in ListFields PROVE IsList(cfg.repo[field]) /\ IsList(cfg.org[field])
  <2>1. field \in Fields /\ field \notin Flags
    BY DEF ListFields, Fields, Flags, Merging
  <2>2. cfg.org[field] = IF field \in DOMAIN c.org THEN c.org[field] ELSE << >>
    BY <1>2, <2>1 DEF LoadOrgPolicy
  <2>3. cfg.repo[field] = IF field \in DOMAIN c.vigil THEN c.vigil[field] ELSE DefaultConfig[field]
    BY <1>2, <2>1 DEF LoadConfig
  <2>4. DefaultConfig[field] \in {DefaultPatterns, DefaultReadOnly, << >>}
    BY <2>1 DEF DefaultConfig, ListFields
  <2>5. IsList(DefaultPatterns) /\ IsList(DefaultReadOnly)
    BY DEF AuditAssumption, ArePatterns
  <2>6. (field \in DOMAIN c.vigil => IsList(c.vigil[field])) /\ (field \in DOMAIN c.org => IsList(c.org[field]))
    BY <1>1 DEF AuditAssumption
  <2>7. IsList(DefaultConfig[field])
    BY <1>3, <2>4, <2>5
  <2>8. IsList(cfg.org[field])
    BY <1>3, <2>2, <2>6
  <2> QED BY <2>3, <2>6, <2>7, <2>8
<1> QED BY <1>4 DEF Policies

(***************************************************************************)
(* For all pairs of policies: a locked field that MergeOrgPolicy has a     *)
(* case for has the organisation's value, and a project that passes policy *)
(* validate has it too or an empty list; every other list is the union of  *)
(* both; and a lock on a field without a case changes nothing.             *)
(***************************************************************************)
THEOREM LockedFieldsAlwaysHold == AuditSpec => []LockedFieldsHold
<1>1. Policies /\ [AuditNext]_auditVars => Policies'
  <2> SUFFICES ASSUME Policies, [AuditNext]_auditVars PROVE Policies'
    OBVIOUS
  <2>1. cfg' = cfg
    BY DEF auditVars, AuditNext, Edit, GitAdd, Fire, MakeDirectory, GitCommit, StartWatching, TakeEvent, HandleEvent,
       ProcessFile, CloseWatcher, StopWatcher, Snapshot, Stop, AuditSession, DiffCommitted, DiffStaged, DiffUnstaged,
       DiffUntracked, DiffStep, DiffFails, NewPolicyEngine, ScanFile, CheckPostSession, Finalize, Done
  <2> QED BY <2>1 DEF Policies
<1> QED BY <1>1, AuditAssumption, PoliciesInit, LockedHold, PTL DEF AuditSpec

-----------------------------------------------------------------------------
(* Stop and audit.                                                         *)

(***************************************************************************)
(* There is no session yet.                                                *)
(***************************************************************************)
LEMMA AuditInitInv == AuditAssumption /\ AuditInit => AuditInv
<1> SUFFICES ASSUME AuditAssumption, AuditInit PROVE AuditInv
  OBVIOUS
<1>1. Policies
  BY PoliciesInit
<1>2. pass = NoPass /\ session = NoSession /\ touched = {} /\ edits = 0
  BY DEF AuditInit
<1>3. work \in Tree /\ index \in Tree /\ head \in Tree /\ base \in Tree
  BY DEF AuditInit, Tree, Content
<1>4. pass \in Pass
  BY <1>2 DEF NoPass, Pass
<1>5. pass.pc = "idle" /\ pass.changes = {} /\ ~pass.checked /\ session.status = "none" /\ session.changes = {}
  BY <1>2 DEF NoPass, NoSession
<1>6. AuditTypes
  BY <1>2, <1>3, <1>4, <1>5 DEF AuditTypes
<1>7. DiffInv /\ ScanInv
  BY <1>5 DEF DiffInv, ScanInv, Once, GitCommands
<1> QED BY <1>1, <1>6, <1>7 DEF AuditInv

(***************************************************************************)
(* Under the same policy the same content is found.                        *)
(***************************************************************************)
LEMMA SameSecrets == cfg' = cfg => (\A c : Found(c)' = Found(c)) /\ \A paths : CheckWrites(paths)' = CheckWrites(paths)
BY DEF Found, Scanned, Secret, SecretPatterns, CheckWrites, MatchesAny

(***************************************************************************)
(* What happens in the project during a pass touches what it changes.      *)
(***************************************************************************)
LEMMA ProjectStep ==
  ASSUME AuditInv, work' \in Tree, index' \in Tree, head' \in Tree, edits' \in Nat,
         touched \subseteq touched', touched' \subseteq Files,
         \A f \in Files \ touched' : work'[f] = work[f] /\ index'[f] = index[f] /\ head'[f] = head[f],
         UNCHANGED <<cfg, base, session, pass>>
  PROVE  AuditInv'
<1>1. Policies /\ AuditTypes /\ DiffInv /\ ScanInv
  BY DEF AuditInv
<1>2. AuditTypes' /\ Policies'
  BY <1>1 DEF AuditTypes, Policies
<1>3. Steady' \subseteq Steady /\ \A f \in Steady' : f \in Files \ touched'
  BY DEF Steady
<1>4. \A f \in Steady' : \A command : Differs(command, f)' = Differs(command, f)
  <2> SUFFICES ASSUME NEW f \in Steady', NEW command PROVE Differs(command, f)' = Differs(command, f)
    OBVIOUS
  <2>1. work'[f] = work[f] /\ index'[f] = index[f] /\ head'[f] = head[f] /\ base' = base /\ f \in Files
    BY <1>3
  <2>2. Tracked'[f] = Tracked[f]
    BY <2>1 DEF Tracked
  <2> QED BY <2>1, <2>2 DEF Differs
<1>5. DiffInv'
  <2>1. \A f : IsNamed(f)' = IsNamed(f)
    BY DEF IsNamed, NamesOf
  <2> QED BY <1>1, <1>3, <1>4, <2>1 DEF DiffInv
<1>6. ScanInv'
  BY <1>1, <1>3, SameSecrets DEF ScanInv
<1> QED BY <1>2, <1>5, <1>6 DEF AuditInv

(***************************************************************************)
(* Steps of the project and of the watcher.                                *)
(***************************************************************************)
LEMMA ProjectActions ==
  ASSUME AuditAssumption, AuditInv,
         (\E f \in Files : Edit(f) \/ GitAdd(f) \/ Fire(f)) \/ MakeDirectory \/ GitCommit \/ StartWatching \/ TakeEvent
           \/ HandleEvent \/ ProcessFile \/ CloseWatcher \/ StopWatcher \/ UNCHANGED auditVars
  PROVE  AuditInv'
<1>1. work \in Tree /\ index \in Tree /\ head \in Tree /\ edits \in Nat /\ touched \subseteq Files
  BY DEF AuditInv, AuditTypes
<1>2. ASSUME NEW f \in Files, Edit(f) PROVE AuditInv'
  <2>1. PICK content \in Content, kind \in {"write", "remove", "rename"} :
          /\ edits' = edits + 1 /\ work' = [work EXCEPT ![f] = content] /\ touched' = touched \cup {f}
          /\ UNCHANGED <<cfg, index, head, directory, base, session, pass>>
    BY <1>2 DEF Edit
  <2>2. work' \in Tree /\ \A g \in Files \ touched' : work'[g] = work[g]
    BY <1>1, <2>1 DEF Tree
  <2> QED BY <1>1, <2>1, <2>2, ProjectStep
<1>3. ASSUME NEW f \in Files, GitAdd(f) PROVE AuditInv'
  <2>1. /\ edits' = edits + 1 /\ index' = [index EXCEPT ![f] = work[f]] /\ touched' = touched \cup {f}
        /\ UNCHANGED <<cfg, work, head, directory, base, watch, due, session, pass>>
    BY <1>3 DEF GitAdd
  <2>2. index' \in Tree /\ \A g \in Files \ touched' : index'[g] = index[g]
    BY <1>1, <2>1 DEF Tree
  <2> QED BY <1>1, <2>1, <2>2, ProjectStep
<1>4. CASE GitCommit
  <2>1. /\ edits' = edits + 1 /\ head' = index /\ touched' = touched \cup {f \in Files : head[f] # index[f]}
        /\ UNCHANGED <<cfg, work, index, directory, base, watch, due, session, pass>>
    BY <1>4 DEF GitCommit
  <2>2. touched' \subseteq Files /\ \A g \in Files \ touched' : head'[g] = head[g]
    BY <1>1, <2>1
  <2> QED BY <1>1, <2>1, <2>2, ProjectStep
<1>5. CASE UNCHANGED <<cfg, work, index, head, edits, base, session, pass, touched>>
  BY <1>1, <1>5, ProjectStep
<1>6. (\E f \in Files : Fire(f)) \/ MakeDirectory \/ StartWatching \/ TakeEvent \/ HandleEvent \/ ProcessFile \/ CloseWatcher
        \/ StopWatcher \/ UNCHANGED auditVars => UNCHANGED <<cfg, work, index, head, edits, base, session, pass, touched>>
  BY DEF Fire, MakeDirectory, StartWatching, TakeEvent, HandleEvent, ProcessFile, CloseWatcher, StopWatcher, auditVars, trees
<1> QED BY <1>2, <1>3, <1>4, <1>5, <1>6

(***************************************************************************)
(* Steps that begin or end a session or a pass.                            *)
(***************************************************************************)
LEMMA BeginStep == ASSUME AuditInv, Snapshot \/ Stop \/ AuditSession \/ Done PROVE AuditInv'
<1>1. Policies /\ AuditTypes /\ DiffInv /\ ScanInv /\ UNCHANGED <<cfg, trees>>
  BY DEF AuditInv, Snapshot, Stop, AuditSession, Done
<1>2. Policies'
  BY <1>1 DEF Policies
<1>3. NoPass \in Pass /\ Once({})
  BY DEF NoPass, Pass, Once
<1>4. CASE Snapshot
  <2>1. pass' = pass /\ pass.pc = "idle" /\ session'.status = "active" /\ session'.changes = {} /\ base' = head /\ touched' = touched
    BY <1>1, <1>4 DEF Snapshot, NoSession, AuditTypes
  <2>2. AuditTypes'
    BY <1>1, <2>1 DEF AuditTypes, trees
  <2>3. DiffInv'
    BY <1>1, <1>3, <2>1 DEF DiffInv
  <2>4. ScanInv'
    <3>1. work' = work /\ Steady' = Steady
      BY <1>1, <2>1 DEF trees, Steady
    <3> QED BY <1>1, <2>1, <3>1, SameSecrets DEF ScanInv
  <2> QED BY <1>2, <2>2, <2>3, <2>4 DEF AuditInv
<1>5. CASE Stop \/ AuditSession
  <2>1. /\ pass'.pc \in {"committed", "engine"} /\ (pass'.diffed => pass'.pc = "committed") /\ ~pass'.checked
        /\ pass'.secrets = {} /\ pass'.changes \in {{}, session.changes} /\ pass' \in Pass
    <3> DEFINE full == [NoPass EXCEPT !.pc = "committed", !.diffed = TRUE]
               again == [NoPass EXCEPT !.pc = "engine", !.changes = session.changes]
    <3>1. /\ full \in Pass /\ full.pc = "committed" /\ ~full.checked /\ full.secrets = {} /\ full.changes = {}
          /\ again \in Pass /\ again.pc = "engine" /\ ~again.checked /\ ~again.diffed /\ again.secrets = {}
          /\ again.changes = session.changes
      <4>1. session.changes \subseteq Change
        BY <1>1 DEF AuditTypes
      <4> QED BY <1>3, <4>1 DEF NoPass, Pass, GitCommands
    <3>2. PICK p \in {full, again}, command \in {"stop", "audit"} : pass' = [p EXCEPT !.command = command]
      BY <1>5 DEF Stop, AuditSession, Begin
    <3> HIDE DEF full, again
    <3>3. p \in Pass
      BY <3>1, <3>2
    <3>4. /\ pass' \in Pass /\ pass'.pc = p.pc /\ pass'.diffed = p.diffed /\ pass'.checked = p.checked
          /\ pass'.secrets = p.secrets /\ pass'.changes = p.changes
      BY <3>2, <3>3 DEF Pass
    <3> QED BY <3>1, <3>2, <3>4
  <2>2. session' = session /\ base' = base /\ touched' = {} /\ session.status # "none"
    BY <1>5 DEF Stop, AuditSession, Begin
  <2>3. AuditTypes'
    BY <1>1, <2>1, <2>2 DEF AuditTypes, trees
  <2>4. DiffInv'
    BY <1>1, <1>3, <2>1, <2>2 DEF DiffInv, Ran
  <2>5. ScanInv'
    BY <2>1 DEF ScanInv
  <2> QED BY <1>2, <2>3, <2>4, <2>5 DEF AuditInv
<1>6. CASE Done
  <2>1. pass' = NoPass /\ session' = session /\ base' = base /\ touched' = touched
    BY <1>6 DEF Done
  <2>2. pass'.pc = "idle" /\ pass'.changes = {} /\ ~pass'.checked
    BY <2>1 DEF NoPass
  <2>3. AuditTypes'
    BY <1>1, <1>3, <2>1, <2>2 DEF AuditTypes, trees
  <2>4. DiffInv' /\ ScanInv'
    BY <1>1, <1>3, <2>1, <2>2 DEF DiffInv, ScanInv, GitCommands
  <2> QED BY <1>2, <2>3, <2>4 DEF AuditInv
<1> QED BY <1>4, <1>5, <1>6

(***************************************************************************)
(* A file that was named is not named again.                               *)
(***************************************************************************)
LEMMA PathsAdded ==
  ASSUME NEW changes, NEW more, Once(changes), Once(more)
  PROVE  Once(AddUnseen(changes, more)) /\ Paths(AddUnseen(changes, more)) = Paths(changes) \cup Paths(more)
<1>1. Once(AddUnseen(changes, more))
  BY DEF Once, AddUnseen
<1>2. \A c \in more : c.path \in Paths(AddUnseen(changes, more))
  <2> SUFFICES ASSUME NEW c \in more PROVE c.path \in Paths(AddUnseen(changes, more))
    OBVIOUS
  <2>1. CASE \E d \in changes : d.path = c.path
    BY <2>1 DEF Paths, AddUnseen
  <2>2. CASE \A d \in changes : d.path # c.path
    BY <2>2 DEF Paths, AddUnseen
  <2> QED BY <2>1, <2>2
<1> QED BY <1>1, <1>2 DEF Paths, AddUnseen

(***************************************************************************)
(* One command of DiffSince names what it compares, by the name that its   *)
(* line leaves of the file or of a rename of it.                           *)
(***************************************************************************)
LEMMA DiffStepInv ==
  ASSUME AuditInv, NEW step \in GitCommands, NEW next \in GitCommands \cup {"engine"}, Ran(next) = Ran(step) \cup {step},
         NEW more \in SUBSET Change, Once(more), NEW renames \in SUBSET (Files \X Files),
         DiffStep(step, next, more, renames),
         \A f \in Files \ Ignored : Differs(step, f) =>
            \/ numstatField[f] \in Paths(more) \/ listedName[f] \in Paths(more)
            \/ \E r \in renames : f \in {r[1], r[2]} /\ renameField[r] \in Paths(more)
  PROVE  AuditInv'
<1>1. Policies /\ AuditTypes /\ DiffInv /\ ScanInv /\ UNCHANGED <<cfg, work, index, head, edits, base, session, touched>>
  BY DEF AuditInv, DiffStep, trees
<1>2. /\ pass.pc = step /\ pass \in Pass
      /\ pass' = [pass EXCEPT !.pc = next, !.changes = AddUnseen(pass.changes, more), !.renamed = pass.renamed \cup renames]
  BY <1>1 DEF DiffStep, AuditTypes
<1>3. pass.changes \subseteq Change /\ pass.renamed \subseteq Files \X Files
  BY <1>2 DEF Pass
<1>4. AddUnseen(pass.changes, more) \subseteq Change /\ pass.renamed \cup renames \subseteq Files \X Files
  BY <1>3 DEF AddUnseen
<1>5. /\ pass' \in Pass /\ pass'.pc = next /\ pass'.changes = AddUnseen(pass.changes, more)
      /\ pass'.renamed = pass.renamed \cup renames /\ pass'.diffed = pass.diffed
      /\ pass'.checked = pass.checked /\ pass'.secrets = pass.secrets
  BY <1>2, <1>4 DEF Pass
<1>6. pass.pc \in GitCommands /\ pass.pc # "idle" /\ next \notin {"idle", "scan", "save", "done"}
  BY <1>2 DEF GitCommands
<1>7. Once(pass'.changes) /\ Paths(pass'.changes) = Paths(pass.changes) \cup Paths(more)
  BY <1>1, <1>5, PathsAdded DEF DiffInv
<1>8. \A command, f : Differs(command, f)' = Differs(command, f)
  BY <1>1 DEF Differs, Tracked
<1>9. Steady' = Steady /\ \A f \in Steady : f \in Files \ Ignored
  BY <1>1 DEF Steady
<1>10. ASSUME NEW f \in Steady, pass'.diffed, NEW command \in Ran(next), Differs(command, f) PROVE IsNamed(f)'
  <2>1. NamesOf(f)' = NamesOf(f) \cup {renameField[r] : r \in {q \in renames : f \in {q[1], q[2]}}}
    BY <1>5 DEF NamesOf
  <2>2. numstatField[f] \in NamesOf(f) /\ listedName[f] \in NamesOf(f)
    BY DEF NamesOf
  <2>3. CASE command = step
    <3>1. \E name \in Paths(more) : name \in NamesOf(f)'
      BY <1>9, <1>10, <2>1, <2>2, <2>3
    <3> QED BY <1>7, <3>1 DEF IsNamed
  <2>4. CASE command \in Ran(step)
    <3>1. IsNamed(f)
      BY <1>1, <1>2, <1>5, <1>6, <1>10, <2>4 DEF DiffInv
    <3> QED BY <1>7, <2>1, <3>1 DEF IsNamed
  <2> QED BY <1>10, <2>3, <2>4
<1>11. Policies' /\ AuditTypes'
  BY <1>1, <1>5, <1>6 DEF Policies, AuditTypes
<1>12. DiffInv'
  BY <1>1, <1>5, <1>7, <1>8, <1>9, <1>10 DEF DiffInv
<1>13. ScanInv'
  BY <1>1, <1>5, <1>6 DEF ScanInv
<1> QED BY <1>11, <1>12, <1>13 DEF AuditInv

(***************************************************************************)
(* Changes made from a set of names have each of them once.                *)
(***************************************************************************)
LEMMA NamedOnce ==
  ASSUME NEW source \in GitCommands, NEW named \in SUBSET Names, NEW changes,
         changes = {[path |-> f, source |-> source] : f \in named}
  PROVE  Paths(changes) = named /\ changes \subseteq Change /\ Once(changes)
<1>1. \A f \in named : [path |-> f, source |-> source] \in changes /\ [path |-> f, source |-> source].path = f
  OBVIOUS
<1>2. ASSUME NEW c \in changes PROVE c.path \in named /\ c = [path |-> c.path, source |-> source]
  OBVIOUS
<1>3. Paths(changes) = named
  <2>1. \A f \in named : \E c \in changes : c.path = f
    BY <1>1
  <2> QED BY <1>2, <2>1 DEF Paths
<1>4. changes \subseteq Change
  <2>1. \A f \in named : [path |-> f, source |-> source] \in Change
    BY DEF Change
  <2> QED BY <1>2, <2>1
<1>5. Once(changes)
  BY <1>2 DEF Once
<1> QED BY <1>3, <1>4, <1>5

(***************************************************************************)
(* parseNumstatLine names the files that differ, or their renames, by the  *)
(* third field.                                                            *)
(***************************************************************************)
LEMMA NumstatNames ==
  ASSUME AuditAssumption, NEW from, NEW to, NEW source \in GitCommands, NEW renames \in SUBSET (Files \X Files)
  PROVE  /\ Numstat(from, to, source, renames) \subseteq Change /\ Once(Numstat(from, to, source, renames))
         /\ \A f \in Files : from[f] # to[f] =>
              \/ numstatField[f] \in Paths(Numstat(from, to, source, renames))
              \/ \E r \in renames : f \in {r[1], r[2]} /\ renameField[r] \in Paths(Numstat(from, to, source, renames))
<1> DEFINE other == {f \in Files : from[f] # to[f]} \ UNION {{r[1], r[2]} : r \in renames}
           named == {numstatField[f] : f \in other} \cup {renameField[r] : r \in renames}
<1>1. Numstat(from, to, source, renames) = {[path |-> f, source |-> source] : f \in named}
  BY DEF Numstat
<1>2. named \subseteq Names
  <2>1. \A f \in other : numstatField[f] \in Names
    BY DEF AuditAssumption
  <2>2. \A r \in renames : renameField[r] \in Names
    BY DEF AuditAssumption
  <2> HIDE DEF other
  <2> QED BY <2>1, <2>2
<1>3. \A f \in Files : from[f] # to[f] =>
        numstatField[f] \in named \/ \E r \in renames : f \in {r[1], r[2]} /\ renameField[r] \in named
  <2> SUFFICES ASSUME NEW f \in Files, from[f] # to[f], f \notin other
               PROVE  \E r \in renames : f \in {r[1], r[2]} /\ renameField[r] \in named
    OBVIOUS
  <2>1. PICK r \in renames : f \in {r[1], r[2]}
    OBVIOUS
  <2> QED BY <2>1
<1> HIDE DEF named
<1>4. LET changes == Numstat(from, to, source, renames)
      IN  Paths(changes) = named /\ changes \subseteq Change /\ Once(changes)
  BY <1>1, <1>2, NamedOnce
<1> QED BY <1>3, <1>4

(***************************************************************************)
(* The four commands.                                                      *)
(***************************************************************************)
LEMMA DiffSteps ==
  ASSUME AuditAssumption, AuditInv, DiffCommitted \/ DiffStaged \/ DiffUnstaged \/ DiffUntracked PROVE AuditInv'
<1>1. \A from, to : Renames(from, to) \subseteq SUBSET (Files \X Files)
  BY DEF Renames
<1>2. /\ Ran("staged") = Ran("committed") \cup {"committed"} /\ Ran("unstaged") = Ran("staged") \cup {"staged"}
      /\ Ran("untracked") = Ran("unstaged") \cup {"unstaged"} /\ Ran("engine") = Ran("untracked") \cup {"untracked"}
  BY DEF Ran, GitCommands
<1>3. /\ "committed" \in GitCommands /\ "staged" \in GitCommands /\ "unstaged" \in GitCommands /\ "untracked" \in GitCommands
      /\ \A f : /\ Differs("committed", f) = (base[f] # head[f]) /\ Differs("staged", f) = (head[f] # index[f])
               /\ Differs("unstaged", f) = (index[f] # Tracked[f])
               /\ Differs("untracked", f) = (index[f] = "absent" /\ work[f] # "absent")
  BY DEF GitCommands, Differs
<1>4. CASE DiffCommitted
  <2>1. PICK R \in Renames(base, head) : DiffStep("committed", "staged", Numstat(base, head, "committed", R), R)
    BY <1>4 DEF DiffCommitted
  <2> DEFINE more == Numstat(base, head, "committed", R)
  <2>2. R \in SUBSET (Files \X Files)
    BY <1>1
  <2>3. /\ more \in SUBSET Change /\ Once(more)
        /\ \A f \in Files : base[f] # head[f] =>
             \/ numstatField[f] \in Paths(more)
             \/ \E r \in R : f \in {r[1], r[2]} /\ renameField[r] \in Paths(more)
    BY <1>3, <2>2, NumstatNames, SMTT(60)
  <2>4. \A f \in Files \ Ignored : Differs("committed", f) =>
          \/ numstatField[f] \in Paths(more) \/ listedName[f] \in Paths(more)
          \/ \E r \in R : f \in {r[1], r[2]} /\ renameField[r] \in Paths(more)
    <3> HIDE DEF more
    <3> QED BY <1>3, <2>3
  <2> HIDE DEF more
  <2> QED BY <1>2, <1>3, <2>1, <2>2, <2>3, <2>4, DiffStepInv DEF more
<1>5. CASE DiffStaged
  <2>1. PICK R \in Renames(head, index) : DiffStep("staged", "unstaged", Numstat(head, index, "staged", R), R)
    BY <1>5 DEF DiffStaged
  <2> DEFINE more == Numstat(head, index, "staged", R)
  <2>2. R \in SUBSET (Files \X Files)
    BY <1>1
  <2>3. /\ more \in SUBSET Change /\ Once(more)
        /\ \A f \in Files : head[f] # index[f] =>
             \/ numstatField[f] \in Paths(more)
             \/ \E r \in R : f \in {r[1], r[2]} /\ renameField[r] \in Paths(more)
    BY <1>3, <2>2, NumstatNames, SMTT(60)
  <2>4. \A f \in Files \ Ignored : Differs("staged", f) =>
          \/ numstatField[f] \in Paths(more) \/ listedName[f] \in Paths(more)
          \/ \E r \in R : f \in {r[1], r[2]} /\ renameField[r] \in Paths(more)
    <3> HIDE DEF more
    <3> QED BY <1>3, <2>3
  <2> HIDE DEF more
  <2> QED BY <1>2, <1>3, <2>1, <2>2, <2>3, <2>4, DiffStepInv DEF more
<1>6. CASE DiffUnstaged
  <2> DEFINE more == Numstat(index, Tracked, "unstaged", {})
  <2>1. DiffStep("unstaged", "untracked", more, {})
    BY <1>6 DEF DiffUnstaged
  <2>2. {} \in SUBSET (Files \X Files)
    OBVIOUS
  <2>3. /\ more \in SUBSET Change /\ Once(more)
        /\ \A f \in Files : index[f] # Tracked[f] =>
             \/ numstatField[f] \in Paths(more)
             \/ \E r \in {} : f \in {r[1], r[2]} /\ renameField[r] \in Paths(more)
    BY <1>3, <2>2, NumstatNames, SMTT(60)
  <2>4. \A f \in Files \ Ignored : Differs("unstaged", f) =>
          \/ numstatField[f] \in Paths(more) \/ listedName[f] \in Paths(more)
          \/ \E r \in {} : f \in {r[1], r[2]} /\ renameField[r] \in Paths(more)
    <3> HIDE DEF more
    <3> QED BY <1>3, <2>3
  <2> HIDE DEF more
  <2> QED BY <1>2, <1>3, <2>1, <2>2, <2>3, <2>4, DiffStepInv
<1>7. CASE DiffUntracked
  <2> DEFINE files == {f \in Files \ Ignored : index[f] = "absent" /\ work[f] # "absent"}
             names == {listedName[f] : f \in files}
             more == {[path |-> listedName[f], source |-> "untracked"] : f \in files}
  <2>1. DiffStep("untracked", "engine", more, {})
    BY <1>7 DEF DiffUntracked
  <2>2. {} \in SUBSET (Files \X Files)
    OBVIOUS
  <2>3. Paths(more) = names /\ more \in SUBSET Change /\ Once(more)
    <3>1. \A f \in files : listedName[f] \in Names
      BY DEF AuditAssumption
    <3>2. more = {[path |-> f, source |-> "untracked"] : f \in names}
      OBVIOUS
    <3>3. names \subseteq Names
      <4> HIDE DEF files
      <4> QED BY <3>1
    <3> HIDE DEF files, more, names
    <3> QED BY <1>3, <3>2, <3>3, NamedOnce
  <2>4. \A f \in Files \ Ignored : Differs("untracked", f) =>
          \/ numstatField[f] \in Paths(more) \/ listedName[f] \in Paths(more)
          \/ \E r \in {} : f \in {r[1], r[2]} /\ renameField[r] \in Paths(more)
    <3> HIDE DEF more
    <3> QED BY <1>3, <2>3
  <2> HIDE DEF more, files, names
  <2> QED BY <1>2, <1>3, <2>1, <2>2, <2>3, <2>4, DiffStepInv
<1> QED BY <1>4, <1>5, <1>6, <1>7

(***************************************************************************)
(* The paths of changes are names.                                         *)
(***************************************************************************)
LEMMA PathsAreNames == pass \in Pass => Paths(pass.changes) \subseteq Names
<1> SUFFICES ASSUME pass \in Pass PROVE Paths(pass.changes) \subseteq Names
  OBVIOUS
<1>1. pass.changes \subseteq Change
  BY DEF Pass
<1>2. \A c \in pass.changes : c.path \in Names
  BY <1>1 DEF Change
<1> QED BY <1>2 DEF Paths

(***************************************************************************)
(* The engine, the scan, the check of the writes and the save.             *)
(***************************************************************************)
LEMMA CheckSteps ==
  ASSUME AuditInv, DiffFails \/ NewPolicyEngine \/ ScanFile \/ CheckPostSession \/ Finalize PROVE AuditInv'
<1>1. Policies /\ AuditTypes /\ DiffInv /\ ScanInv /\ UNCHANGED <<cfg, work, index, head, edits, base, touched>> /\ pass \in Pass
  BY DEF AuditInv, AuditTypes, DiffFails, NewPolicyEngine, ScanFile, CheckPostSession, Finalize, trees
<1>2. Policies' /\ (\A command, f : Differs(command, f)' = Differs(command, f))
  BY <1>1 DEF Policies, Differs, Tracked
<1>3. ASSUME pass' \in Pass, pass'.pc \in {"engine", "scan", "save", "done"}, pass'.changes = pass.changes,
             pass'.renamed = pass.renamed, pass'.diffed = pass.diffed, pass.pc \in {"engine", "scan", "save"},
             session'.changes \in {session.changes, pass.changes}, session'.status \in {session.status, "completed"}
      PROVE  AuditTypes' /\ DiffInv'
  <2>1. AuditTypes'
    BY <1>1, <1>3 DEF AuditTypes, Pass
  <2>2. Steady' = Steady /\ Ran(pass'.pc) = Ran(pass.pc) /\ pass.pc # "idle" /\ \A f : IsNamed(f)' = IsNamed(f)
    BY <1>1, <1>3 DEF Steady, Ran, IsNamed, NamesOf
  <2>3. DiffInv'
    BY <1>1, <1>2, <1>3, <2>2 DEF DiffInv
  <2> QED BY <2>1, <2>3
<1>4. CASE DiffFails
  <2>1. /\ pass' = [pass EXCEPT !.pc = "engine", !.changes = {}, !.diffed = FALSE] /\ pass.pc \in GitCommands /\ UNCHANGED session
    BY <1>4 DEF DiffFails, GitCommands
  <2>2. pass' \in Pass /\ pass'.pc = "engine" /\ pass'.changes = {} /\ ~pass'.diffed /\ pass'.checked = pass.checked
        /\ pass'.secrets = pass.secrets
    BY <1>1, <2>1 DEF Pass
  <2>3. AuditTypes' /\ DiffInv'
    <3>1. pass.pc # "idle"
      BY <2>1 DEF GitCommands
    <3> QED BY <1>1, <2>1, <2>2, <3>1 DEF AuditTypes, DiffInv, Once
  <2>4. ScanInv'
    BY <1>1, <2>1, <2>2 DEF ScanInv
  <2> QED BY <1>2, <2>3, <2>4 DEF AuditInv
<1>5. CASE NewPolicyEngine
  <2>1. pass.pc = "engine" /\ UNCHANGED session /\ ~pass.checked /\ pass.secrets = {} /\ Paths(pass.changes) \subseteq Names
    BY <1>1, <1>5, PathsAreNames DEF NewPolicyEngine, ScanInv
  <2>2. CASE pass' = [pass EXCEPT !.pc = "scan", !.checked = TRUE, !.todo = Paths(pass.changes)]
    <3>1. /\ pass' \in Pass /\ pass'.pc = "scan" /\ pass'.changes = pass.changes /\ pass'.renamed = pass.renamed
          /\ pass'.diffed = pass.diffed /\ pass'.checked /\ pass'.todo = Paths(pass.changes) /\ pass'.secrets = pass.secrets
      BY <1>1, <2>1, <2>2 DEF Pass
    <3>2. AuditTypes' /\ DiffInv'
      BY <1>3, <2>1, <3>1
    <3>3. ScanInv'
      BY <2>1, <3>1 DEF ScanInv, GitCommands
    <3> QED BY <1>2, <3>2, <3>3 DEF AuditInv
  <2>3. CASE \E step \in {"save", "done"} : pass' = [pass EXCEPT !.pc = step]
    <3>1. /\ pass' \in Pass /\ pass'.pc \in {"save", "done"} /\ pass'.changes = pass.changes /\ pass'.renamed = pass.renamed
          /\ pass'.diffed = pass.diffed /\ pass'.checked = pass.checked
      BY <1>1, <2>3 DEF Pass
    <3>2. AuditTypes' /\ DiffInv'
      BY <1>3, <2>1, <3>1
    <3>3. ScanInv'
      BY <2>1, <3>1 DEF ScanInv, GitCommands
    <3> QED BY <1>2, <3>2, <3>3 DEF AuditInv
  <2> QED BY <1>5, <2>2, <2>3 DEF NewPolicyEngine
<1>6. CASE ScanFile
  <2>1. PICK name \in pass.todo :
          pass' = [pass EXCEPT !.todo = pass.todo \ {name},
                               !.secrets = IF Found(Held(work, name)) THEN pass.secrets \cup {name} ELSE pass.secrets]
    BY <1>6 DEF ScanFile
  <2>2. pass.pc = "scan" /\ UNCHANGED session /\ name \in Names /\ pass.checked
    BY <1>1, <1>6 DEF ScanFile, Pass, ScanInv
  <2>3. /\ pass' \in Pass /\ pass'.pc = "scan" /\ pass'.changes = pass.changes /\ pass'.renamed = pass.renamed
        /\ pass'.diffed = pass.diffed /\ pass'.checked = pass.checked /\ pass'.todo = pass.todo \ {name}
        /\ pass'.secrets = IF Found(Held(work, name)) THEN pass.secrets \cup {name} ELSE pass.secrets
    BY <1>1, <2>1, <2>2 DEF Pass
  <2>4. AuditTypes' /\ DiffInv'
    BY <1>3, <2>2, <2>3
  <2>5. Steady' = Steady /\ \A g \in Steady : Found(work[g])' = Found(work[g])
    BY <1>1, SameSecrets DEF Steady
  <2>6. ScanInv'
    <3>1. \A g \in Steady : Held(work, g) = work[g]
      BY DEF Steady, Held
    <3>2. \A g \in Steady : /\ g \in Paths(pass.changes) \ pass'.todo /\ Found(work[g]) => g \in pass'.secrets
                            /\ g \in pass'.secrets => Found(work[g])
      BY <1>1, <2>2, <2>3, <3>1 DEF ScanInv
    <3>3. pass'.todo \cup pass'.secrets \subseteq Paths(pass.changes)
      BY <1>1, <2>1, <2>2, <2>3 DEF ScanInv
    <3> QED BY <2>2, <2>3, <2>5, <3>2, <3>3 DEF ScanInv, GitCommands
  <2> QED BY <1>2, <2>4, <2>6 DEF AuditInv
<1>7. CASE CheckPostSession
  <2>1. PICK step \in {"save", "done"} : pass' = [pass EXCEPT !.pc = step, !.writes = CheckWrites(Paths(pass.changes))]
    BY <1>7 DEF CheckPostSession
  <2>2. pass.pc = "scan" /\ UNCHANGED session /\ pass.checked /\ pass.todo = {}
    BY <1>1, <1>7 DEF CheckPostSession, ScanInv
  <2>3. CheckWrites(Paths(pass.changes)) \subseteq [rule : {"read_only", "no_write", "allowed_write"}, file : Names]
    <3>1. Paths(pass.changes) \subseteq Names
      BY <1>1, PathsAreNames
    <3> DEFINE paths == Paths(pass.changes)
    <3> HIDE DEF paths
    <3>2. paths \subseteq Names
      BY <3>1 DEF paths
    <3> QED BY <3>2 DEF CheckWrites, paths
  <2>4. /\ pass' \in Pass /\ pass'.pc = step /\ pass'.changes = pass.changes /\ pass'.renamed = pass.renamed
        /\ pass'.diffed = pass.diffed /\ pass'.checked = pass.checked /\ pass'.todo = pass.todo
        /\ pass'.secrets = pass.secrets /\ pass'.writes = CheckWrites(Paths(pass.changes))
    BY <1>1, <2>1, <2>3 DEF Pass
  <2>5. AuditTypes' /\ DiffInv'
    BY <1>3, <2>2, <2>4
  <2>6. /\ Steady' = Steady /\ (\A g \in Steady : Found(work[g])' = Found(work[g]))
        /\ CheckWrites(Paths(pass.changes))' = CheckWrites(Paths(pass.changes))
    BY <1>1, <2>4, SameSecrets DEF Steady
  <2>7. ScanInv'
    BY <1>1, <2>2, <2>4, <2>6 DEF ScanInv, GitCommands
  <2> QED BY <1>2, <2>5, <2>7 DEF AuditInv
<1>8. CASE Finalize
  <2>1. /\ pass.pc = "save" /\ pass' = [pass EXCEPT !.pc = "done"] /\ session'.status = "completed"
        /\ session'.changes = pass.changes
    BY <1>8 DEF Finalize
  <2>2. /\ pass' \in Pass /\ pass'.pc = "done" /\ pass'.changes = pass.changes /\ pass'.renamed = pass.renamed
        /\ pass'.diffed = pass.diffed /\ pass'.checked = pass.checked /\ pass'.todo = pass.todo
        /\ pass'.secrets = pass.secrets /\ pass'.writes = pass.writes
    BY <1>1, <2>1 DEF Pass
  <2>3. AuditTypes' /\ DiffInv'
    BY <1>3, <2>1, <2>2
  <2>4. /\ Steady' = Steady /\ (\A g \in Steady : Found(work[g])' = Found(work[g]))
        /\ CheckWrites(Paths(pass.changes))' = CheckWrites(Paths(pass.changes))
    BY <1>1, <2>2, SameSecrets DEF Steady
  <2>5. ScanInv'
    BY <1>1, <2>1, <2>2, <2>4 DEF ScanInv, GitCommands
  <2> QED BY <1>2, <2>3, <2>5 DEF AuditInv
<1> QED BY <1>4, <1>5, <1>6, <1>7, <1>8

(***************************************************************************)
(* The invariant is inductive.                                             *)
(***************************************************************************)
LEMMA AuditStep == AuditAssumption /\ AuditInv /\ [AuditNext]_auditVars => AuditInv'
<1> SUFFICES ASSUME AuditAssumption, AuditInv, [AuditNext]_auditVars PROVE AuditInv'
  OBVIOUS
<1> QED BY ProjectActions, BeginStep, DiffSteps, CheckSteps DEF AuditNext

(***************************************************************************)
(* All four commands together compare the working tree with the snapshot:  *)
(* what differs from it differs somewhere between the snapshot, the last   *)
(* commit, the index and the working tree, or is not in the index.         *)
(***************************************************************************)
LEMMA DifferenceNamed ==
  ASSUME AuditInv, pass.pc \in {"engine", "scan", "save", "done"}, pass.diffed, NEW f \in Steady, work[f] # base[f]
  PROVE  IsNamed(f)
<1>1. DiffInv /\ f \in Files /\ pass.pc # "idle"
  BY DEF AuditInv, Steady
<1>2. Ran(pass.pc) = GitCommands
  BY DEF Ran
<1>3. \A command \in GitCommands : Differs(command, f) => IsNamed(f)
  BY <1>1, <1>2 DEF DiffInv
<1>4. \/ base[f] # head[f] \/ head[f] # index[f] \/ index[f] # Tracked[f]
      \/ index[f] = "absent" /\ work[f] # "absent"
  BY <1>1 DEF Tracked
<1> QED BY <1>3, <1>4 DEF Differs, GitCommands

(***************************************************************************)
(* The invariant says that the changes are complete.                       *)
(***************************************************************************)
LEMMA ChangesNamed == AuditInv => ChangesComplete
<1> SUFFICES ASSUME AuditInv, pass.pc = "engine", pass.diffed PROVE ChangesComplete
  BY DEF ChangesComplete
<1>1. ASSUME NEW f \in Steady, work[f] # base[f] PROVE NamesOf(f) \cap Paths(pass.changes) # {}
  BY <1>1, DifferenceNamed DEF IsNamed
<1> QED BY <1>1 DEF ChangesComplete, AuditInv, DiffInv, Once

(***************************************************************************)
(* For all projects and policies and any number of edits, adds and commits:*)
(* a file that is not as the snapshot has it is among the changes by one of*)
(* the names that git's lines leave of it, and no name is there twice,     *)
(* unless it was touched between the commands.                             *)
(***************************************************************************)
THEOREM ChangesAreComplete == AuditSpec => []ChangesComplete
<1> QED BY AuditAssumption, AuditInitInv, AuditStep, ChangesNamed, PTL DEF AuditSpec

(***************************************************************************)
(* And that a check that is over has found what there was.                 *)
(***************************************************************************)
LEMMA FindingsAreReported == AuditInv => FindingsReported
<1> SUFFICES ASSUME AuditInv, pass.pc = "done", pass.checked PROVE FindingsReported
  BY DEF FindingsReported
<1>1. ASSUME NEW f \in Steady, pass.diffed /\ work[f] # base[f] /\ NamesOf(f) = {f} PROVE f \in Paths(pass.changes)
  BY <1>1, DifferenceNamed DEF IsNamed
<1>2. /\ pass.secrets \subseteq Paths(pass.changes) /\ pass.writes = CheckWrites(Paths(pass.changes))
      /\ \A f \in Steady : /\ f \in Paths(pass.changes) /\ Found(work[f]) => f \in pass.secrets
                           /\ f \in pass.secrets => Found(work[f])
  BY DEF AuditInv, ScanInv
<1>3. \A f \in Paths(pass.changes) :
        MatchesAny(cfg.repo["read_only"], f) => [rule |-> "read_only", file |-> f] \in pass.writes
  BY <1>2 DEF CheckWrites
<1> QED BY <1>1, <1>2, <1>3 DEF FindingsReported

(***************************************************************************)
(* For all projects and policies: a check that was made reports the secrets*)
(* that it can read in the files that the changes name, no others, and each*)
(* write to a read-only file; and the changes name each changed file whose *)
(* name git's lines keep.                                                  *)
(***************************************************************************)
THEOREM FindingsAlwaysReported == AuditSpec => []FindingsReported
<1> QED BY AuditAssumption, AuditInitInv, AuditStep, FindingsAreReported, PTL DEF AuditSpec

-----------------------------------------------------------------------------
(* The watcher.                                                            *)

(***************************************************************************)
(* Nothing is watched yet.                                                 *)
(***************************************************************************)
LEMMA WatchInitInv == AuditInit => WatchInv
<1> SUFFICES ASSUME AuditInit PROVE WatchInv
  OBVIOUS
<1>1. watch = NoWatch /\ due = {}
  BY DEF AuditInit
<1>2. /\ watch.pc = "off" /\ watch.nested = FALSE /\ watch.events = << >> /\ watch.handling = NoEvent /\ watch.timers = << >>
      /\ watch.running = {} /\ DOMAIN watch = DOMAIN NoWatch
  BY <1>1 DEF NoWatch
<1>3. DOMAIN watch.timers = {} /\ << >> \in Seq(Notices)
  BY <1>2
<1> QED BY <1>2, <1>3 DEF WatchInv, WatchTypes, Watched

(***************************************************************************)
(* A notice of something else leaves a file's own notices the last ones.   *)
(***************************************************************************)
LEMMA AppendKeeps ==
  ASSUME WatchTypes, NEW e \in Notices, watch' = [watch EXCEPT !.events = Append(watch.events, e)], cfg' = cfg,
         NEW g, work'[g] = work[g], ~Of(e, g), WillScan(g)
  PROVE  WillScan(g)'
<1>1. watch.events \in Seq(Notices) /\ DOMAIN watch = DOMAIN NoWatch
  BY DEF WatchTypes
<1> DEFINE old == watch.events
           new == watch'.events
<1>2. /\ new = Append(old, e) /\ watch'.handling = watch.handling /\ watch'.timers = watch.timers
      /\ watch'.running = watch.running /\ watch'.changes = watch.changes /\ watch'.secrets = watch.secrets
  BY <1>1 DEF NoWatch
<1>3. Found(work[g])' = Found(work[g])
  BY DEF Found, Scanned, Secret, SecretPatterns
<1>4. /\ DOMAIN old = 1..Len(old) /\ DOMAIN new = 1..(Len(old) + 1) /\ Len(old) \in Nat
      /\ new[Len(old) + 1] = e /\ \A i \in DOMAIN old : new[i] = old[i]
  <2>1. old \in Seq(Notices)
    BY <1>1
  <2> HIDE DEF old, new
  <2> QED BY <1>2, <2>1
<1> HIDE DEF old, new
<1>5. \A j \in DOMAIN new : j \in DOMAIN old \/ new[j] = e
  BY <1>4
<1>6. Unnoticed(g) => Unnoticed(g)'
  BY <1>4, <1>5 DEF Unnoticed, Of, old, new
<1>7. ASSUME NEW i \in DOMAIN old, Fits(old[i], g), \A j \in DOMAIN old : j > i => ~Of(old[j], g)
      PROVE  WillScan(g)'
  <2>1. i \in DOMAIN new /\ new[i] = old[i]
    BY <1>4
  <2>2. \A j \in DOMAIN new : j > i => ~Of(new[j], g)
    BY <1>4, <1>5, <1>7
  <2>3. Of(new[i], g) /\ (Found(work[g])' => new[i].kind = "write")
    BY <1>3, <1>7, <2>1 DEF Fits
  <2> QED BY <2>1, <2>2, <2>3 DEF WillScan, Fits, Of, new
<1>8. CASE Unnoticed(g) /\ Fits(watch.handling, g)
  BY <1>2, <1>3, <1>6, <1>8 DEF WillScan, Fits, Of
<1>9. CASE Unnoticed(g) /\ ~Of(watch.handling, g) /\ g \in DOMAIN watch.timers /\ Fits(watch.timers[g], g)
  BY <1>2, <1>3, <1>6, <1>9 DEF WillScan, Fits, Of
<1>10. CASE \E r \in watch.running : Fits(r, g)
  BY <1>2, <1>3, <1>10 DEF WillScan, Fits, Of
<1>11. CASE g \in watch.changes /\ (Found(work[g]) => g \in watch.secrets)
  BY <1>2, <1>3, <1>11 DEF WillScan
<1> QED BY <1>7, <1>8, <1>9, <1>10, <1>11 DEF WillScan, old

(***************************************************************************)
(* Where nothing changes the same scans are due.                           *)
(***************************************************************************)
LEMMA SameWatch ==
  ASSUME watch' = watch, cfg' = cfg, NEW g, work'[g] = work[g], WillScan(g)
  PROVE  WillScan(g)'
<1>1. Found(work[g])' = Found(work[g])
  BY DEF Found, Scanned, Secret, SecretPatterns
<1> QED BY <1>1 DEF WillScan, Unnoticed, Fits, Of

(***************************************************************************)
(* The notice of a change is the last one of its file, and says whether the*)
(* file is there.                                                          *)
(***************************************************************************)
LEMMA EditWatched ==
  ASSUME AuditAssumption, AuditInv, WatchInv, NEW f \in Files, Edit(f) PROVE WatchInv'
<1>1. PICK content \in Content, kind \in {"write", "remove", "rename"} :
        /\ (content = "absent") = (kind # "write") /\ edits' = edits + 1 /\ work' = [work EXCEPT ![f] = content]
        /\ Notice(f, kind) /\ cfg' = cfg
  BY DEF Edit
<1>2. WatchTypes /\ Watched /\ work \in Tree /\ edits \in Nat
  BY DEF WatchInv, AuditInv, AuditTypes
<1>3. work'[f] = content /\ \A g \in Files \ {f} : work'[g] = work[g]
  BY <1>1, <1>2 DEF Tree
<1>4. CASE ~Reported(f)
  <2>1. watch' = watch /\ due' = due \ {f}
    BY <1>1, <1>4 DEF Notice
  <2>2. Watched'
    <3> SUFFICES ASSUME watch.pc = "on", NEW g \in due' PROVE g \in Files /\ WillScan(g)'
      BY <2>1 DEF Watched
    <3>1. g \in Files \ {f} /\ WillScan(g)
      BY <1>2, <2>1 DEF Watched
    <3> QED BY <1>1, <1>3, <2>1, <3>1, SameWatch
  <2> QED BY <1>2, <2>1, <2>2 DEF WatchInv, WatchTypes
<1>5. CASE Reported(f)
  <2> DEFINE e == [kind |-> kind, file |-> f, n |-> edits']
  <2>1. watch' = [watch EXCEPT !.events = Append(watch.events, e)] /\ due' = IF kind = "rename" THEN due \ {f} ELSE due \cup {f}
    BY <1>1, <1>5 DEF Notice
  <2>2. e \in Event /\ e.file = f /\ e.kind = kind
    <3>1. edits' \in Nat
      BY <1>1, <1>2
    <3> QED BY <3>1 DEF Event
  <2>3. e \in Notices
    BY <2>2 DEF Notices
  <2> HIDE DEF e
  <2>4. /\ DOMAIN watch' = DOMAIN watch /\ watch'.pc = watch.pc /\ watch'.events = Append(watch.events, e)
        /\ watch'.handling = watch.handling /\ watch'.timers = watch.timers /\ watch'.running = watch.running
    BY <1>2, <2>1 DEF WatchTypes, NoWatch
  <2>5. watch.events \in Seq(Notices)
    BY <1>2 DEF WatchTypes
  <2>6. WatchTypes'
    <3>1. Append(watch.events, e) \in Seq(Notices)
      BY <2>3, <2>5
    <3> QED BY <1>2, <2>4, <3>1 DEF WatchTypes
  <2>7. ASSUME kind # "rename" PROVE WillScan(f)'
    <3> DEFINE new == watch'.events
               last == Len(watch.events) + 1
    <3>1. DOMAIN new = 1..last /\ last \in Nat /\ last \in DOMAIN new /\ new[last] = e
      <4> DEFINE old == watch.events
      <4>1. old \in Seq(Notices) /\ new = Append(old, e)
        BY <2>4, <2>5
      <4> HIDE DEF old, new
      <4> QED BY <4>1 DEF old
    <3> HIDE DEF new, last
    <3>2. \A j \in DOMAIN new : ~(j > last)
      BY <3>1
    <3>3. Found(work[f])' => content # "absent"
      BY <1>3 DEF Found, Scanned
    <3>4. Of(new[last], f) /\ (Found(work[f])' => new[last].kind = "write")
      BY <1>1, <2>2, <2>7, <3>1, <3>3 DEF Of
    <3> QED BY <3>1, <3>2, <3>4 DEF WillScan, Fits, Of, new
  <2>8. Watched'
    <3> SUFFICES ASSUME watch.pc = "on", NEW g \in due' PROVE g \in Files /\ WillScan(g)'
      BY <2>4 DEF Watched
    <3>1. CASE g = f
      BY <2>1, <2>7, <3>1
    <3>2. CASE g # f
      <4>1. g \in Files /\ WillScan(g) /\ ~Of(e, g) /\ work'[g] = work[g]
        BY <1>2, <1>3, <2>1, <2>2, <3>2 DEF Watched, Of
      <4> QED BY <1>1, <1>2, <2>1, <2>3, <4>1, AppendKeeps
    <3> QED BY <3>1, <3>2
  <2> QED BY <2>6, <2>8 DEF WatchInv
<1> QED BY <1>4, <1>5

(***************************************************************************)
(* The loop takes notices in their order.                                  *)
(***************************************************************************)
LEMMA TakeWatched == ASSUME WatchInv, TakeEvent PROVE WatchInv'
<1>1. /\ WatchTypes /\ Watched /\ watch.events \in Seq(Notices) /\ watch.events # << >> /\ watch.handling = NoEvent
      /\ UNCHANGED <<cfg, work, due>>
  BY DEF WatchInv, WatchTypes, TakeEvent, trees
<1> DEFINE old == watch.events
           new == watch'.events
           e == Head(watch.events)
<1>2. /\ DOMAIN watch' = DOMAIN NoWatch /\ watch'.pc = watch.pc /\ new = Tail(old)
      /\ watch'.handling = (IF e.kind = "directory" THEN NoEvent ELSE e)
      /\ watch'.timers = watch.timers /\ watch'.running = watch.running
      /\ watch'.changes = watch.changes /\ watch'.secrets = watch.secrets
  <2>1. DOMAIN watch = DOMAIN NoWatch
    BY <1>1 DEF WatchTypes
  <2>2. CASE e.kind = "directory"
    <3>1. watch' = [watch EXCEPT !.events = Tail(watch.events), !.nested = TRUE]
      BY <2>1, <2>2 DEF TakeEvent, NoWatch
    <3> QED BY <1>1, <2>1, <2>2, <3>1 DEF NoWatch
  <2>3. CASE e.kind # "directory"
    <3>1. watch' = [watch EXCEPT !.events = Tail(watch.events), !.handling = e]
      BY <2>1, <2>3 DEF TakeEvent, NoWatch
    <3> QED BY <1>1, <2>1, <2>3, <3>1 DEF NoWatch
  <2> QED BY <2>2, <2>3
<1>3. /\ Len(old) \in Nat /\ DOMAIN old = 1..Len(old) /\ DOMAIN new = 1..(Len(old) - 1) /\ 1 \in DOMAIN old
      /\ e = old[1] /\ e \in Notices /\ new \in Seq(Notices) /\ \A i \in DOMAIN new : new[i] = old[i + 1]
  <2>1. old \in Seq(Notices) /\ old # << >>
    BY <1>1
  <2> HIDE DEF old, new
  <2>2. Len(old) \in Nat /\ Len(old) > 0 /\ DOMAIN old = 1..Len(old)
    BY <2>1
  <2>3. e = old[1] /\ e \in Notices
    BY <2>1, <2>2 DEF old
  <2> QED BY <1>2, <2>1, <2>2, <2>3
<1>4. ~Of(NoEvent, "") /\ \A g : ~Of(NoEvent, g)
  BY DEF Of, NoEvent
<1>5. e.kind # "directory" => e \in Event
  BY <1>3 DEF Notices
<1>6. WatchTypes'
  BY <1>1, <1>2, <1>3, <1>5 DEF WatchTypes
<1> HIDE DEF old, new, e
<1>7. ASSUME NEW g, WillScan(g) PROVE WillScan(g)'
  <2>1. Found(work[g])' = Found(work[g])
    BY <1>1 DEF Found, Scanned, Secret, SecretPatterns
  <2>2. ~Of(e, g) => ~Of(watch'.handling, g)
    BY <1>2, <1>4
  <2>3. ASSUME NEW i \in DOMAIN old, Fits(old[i], g), \A j \in DOMAIN old : j > i => ~Of(old[j], g)
        PROVE  WillScan(g)'
    <3>1. CASE i = 1
      <4>1. \A j \in DOMAIN new : ~Of(new[j], g)
        BY <1>3, <2>3, <3>1
      <4>2. e = old[i] /\ e.kind # "directory" /\ watch'.handling = e
        BY <1>2, <1>3, <2>3, <3>1 DEF Fits, Of
      <4>3. Of(e, g) /\ (Found(work[g])' => e.kind = "write")
        BY <2>1, <2>3, <4>2 DEF Fits
      <4> QED BY <4>1, <4>2, <4>3 DEF WillScan, Unnoticed, Fits, Of, new
    <3>2. CASE i # 1
      <4>1. i \in Nat /\ i - 1 \in DOMAIN new /\ new[i - 1] = old[i]
        BY <1>3, <3>2
      <4>2. \A j \in DOMAIN new : j > i - 1 => ~Of(new[j], g)
        BY <1>3, <2>3, <4>1
      <4>3. Of(new[i - 1], g) /\ (Found(work[g])' => new[i - 1].kind = "write")
        BY <2>1, <2>3, <4>1 DEF Fits
      <4> QED BY <4>1, <4>2, <4>3 DEF WillScan, Fits, Of, new
    <3> QED BY <3>1, <3>2
  <2>4. ~Fits(watch.handling, g)
    BY <1>1, <1>4 DEF Fits
  <2>5. CASE Unnoticed(g) /\ ~Of(watch.handling, g) /\ g \in DOMAIN watch.timers /\ Fits(watch.timers[g], g)
    <3>1. (\A j \in DOMAIN new : ~Of(new[j], g)) /\ ~Of(watch'.handling, g)
      BY <1>3, <2>2, <2>5 DEF Unnoticed, old
    <3> QED BY <1>2, <2>1, <2>5, <3>1 DEF WillScan, Unnoticed, Fits, Of, new
  <2>6. CASE \E r \in watch.running : Fits(r, g)
    BY <1>2, <2>1, <2>6 DEF WillScan, Fits, Of
  <2>7. CASE g \in watch.changes /\ (Found(work[g]) => g \in watch.secrets)
    BY <1>2, <2>1, <2>7 DEF WillScan
  <2> QED BY <1>7, <2>3, <2>4, <2>5, <2>6, <2>7 DEF WillScan, old
<1> QED BY <1>1, <1>2, <1>6, <1>7 DEF WatchInv, Watched

(***************************************************************************)
(* A timer has the last notice that was handled.                           *)
(***************************************************************************)
LEMMA HandleWatched == ASSUME WatchInv, HandleEvent PROVE WatchInv'
<1> DEFINE e == watch.handling
<1>1. /\ WatchTypes /\ Watched /\ e \in Event /\ UNCHANGED <<cfg, work, due>>
  BY DEF WatchInv, WatchTypes, HandleEvent, trees
<1>2. /\ DOMAIN watch' = DOMAIN NoWatch /\ watch'.pc = watch.pc /\ watch'.events = watch.events
      /\ watch'.handling = NoEvent
      /\ watch'.timers = (IF e.kind = "rename" THEN watch.timers ELSE Timer(watch.timers, e)) /\ watch'.running = watch.running
      /\ watch'.changes = watch.changes /\ watch'.secrets = watch.secrets
  BY <1>1 DEF WatchTypes, HandleEvent, NoWatch
<1>3. e.kind # "rename" =>
        /\ DOMAIN watch'.timers = DOMAIN watch.timers \cup {e.file} /\ watch'.timers[e.file] = e
        /\ \A g \in DOMAIN watch.timers : g # e.file => watch'.timers[g] = watch.timers[g]
  BY <1>2 DEF Timer
<1> HIDE DEF e
<1>4. WatchTypes'
  <2>1. CASE e.kind = "rename"
    BY <1>1, <1>2, <2>1 DEF WatchTypes
  <2>2. CASE e.kind # "rename"
    BY <1>1, <1>2, <1>3, <2>2 DEF WatchTypes
  <2> QED BY <2>1, <2>2
<1>5. \A g : ~Of(NoEvent, g)
  BY DEF Of, NoEvent
<1>6. ASSUME NEW g, WillScan(g) PROVE WillScan(g)'
  <2>1. Found(work[g])' = Found(work[g])
    BY <1>1 DEF Found, Scanned, Secret, SecretPatterns
  <2>2. CASE \E i \in DOMAIN watch.events :
               Fits(watch.events[i], g) /\ \A j \in DOMAIN watch.events : j > i => ~Of(watch.events[j], g)
    BY <1>2, <2>1, <2>2 DEF WillScan, Fits, Of
  <2>3. CASE Unnoticed(g) /\ Fits(e, g)
    <3>1. e.file = g /\ g \in DOMAIN watch'.timers /\ watch'.timers[g] = e
      BY <1>3, <2>3 DEF Fits, Of
    <3>2. ~Of(watch'.handling, g)
      BY <1>2, <1>5
    <3> QED BY <1>2, <2>1, <2>3, <3>1, <3>2 DEF WillScan, Unnoticed, Fits, Of
  <2>4. CASE Unnoticed(g) /\ ~Of(e, g) /\ g \in DOMAIN watch.timers /\ Fits(watch.timers[g], g)
    <3>1. e.kind = "rename" \/ e.file # g
      BY <1>1, <2>4 DEF Of, Event
    <3>2. g \in DOMAIN watch'.timers /\ watch'.timers[g] = watch.timers[g]
      BY <1>2, <1>3, <2>4, <3>1
    <3>3. ~Of(watch'.handling, g)
      BY <1>2, <1>5
    <3> QED BY <1>2, <2>1, <2>4, <3>2, <3>3 DEF WillScan, Unnoticed, Fits, Of
  <2>5. CASE \E r \in watch.running : Fits(r, g)
    BY <1>2, <2>1, <2>5 DEF WillScan, Fits, Of
  <2>6. CASE g \in watch.changes /\ (Found(work[g]) => g \in watch.secrets)
    BY <1>2, <2>1, <2>6 DEF WillScan
  <2> QED BY <1>6, <2>2, <2>3, <2>4, <2>5, <2>6 DEF WillScan, e
<1> QED BY <1>1, <1>2, <1>4, <1>6 DEF WatchInv, Watched

(***************************************************************************)
(* A timer that fires runs.                                                *)
(***************************************************************************)
LEMMA FireWatched == ASSUME WatchInv, NEW f, Fire(f) PROVE WatchInv'
<1>1. WatchTypes /\ Watched /\ f \in DOMAIN watch.timers /\ UNCHANGED <<cfg, work, due>>
  BY DEF WatchInv, Fire, trees
<1>2. /\ DOMAIN watch' = DOMAIN NoWatch /\ watch'.pc = watch.pc /\ watch'.events = watch.events
      /\ watch'.handling = watch.handling
      /\ watch'.timers = Drop(watch.timers, f) /\ watch'.running = watch.running \cup {watch.timers[f]}
      /\ watch'.changes = watch.changes /\ watch'.secrets = watch.secrets
  BY <1>1 DEF WatchTypes, Fire, NoWatch
<1>3. /\ DOMAIN watch'.timers = DOMAIN watch.timers \ {f}
      /\ \A g \in DOMAIN watch'.timers : watch'.timers[g] = watch.timers[g]
  BY <1>2 DEF Drop
<1>4. WatchTypes'
  BY <1>1, <1>2, <1>3 DEF WatchTypes
<1>5. ASSUME NEW g, WillScan(g) PROVE WillScan(g)'
  <2>1. Found(work[g])' = Found(work[g])
    BY <1>1 DEF Found, Scanned, Secret, SecretPatterns
  <2>2. CASE \E i \in DOMAIN watch.events :
               Fits(watch.events[i], g) /\ \A j \in DOMAIN watch.events : j > i => ~Of(watch.events[j], g)
    BY <1>2, <2>1, <2>2 DEF WillScan, Fits, Of
  <2>3. CASE Unnoticed(g) /\ Fits(watch.handling, g)
    BY <1>2, <2>1, <2>3 DEF WillScan, Unnoticed, Fits, Of
  <2>4. CASE Unnoticed(g) /\ ~Of(watch.handling, g) /\ g \in DOMAIN watch.timers /\ Fits(watch.timers[g], g)
    <3>1. CASE g = f
      <4>1. watch.timers[g] \in watch'.running
        BY <1>2, <3>1
      <4> QED BY <2>1, <2>4, <4>1 DEF WillScan, Fits, Of
    <3>2. CASE g # f
      <4>1. g \in DOMAIN watch'.timers /\ watch'.timers[g] = watch.timers[g]
        BY <1>3, <2>4, <3>2
      <4> QED BY <1>2, <2>1, <2>4, <4>1 DEF WillScan, Unnoticed, Fits, Of
    <3> QED BY <3>1, <3>2
  <2>5. CASE \E r \in watch.running : Fits(r, g)
    BY <1>2, <2>1, <2>5 DEF WillScan, Fits, Of
  <2>6. CASE g \in watch.changes /\ (Found(work[g]) => g \in watch.secrets)
    BY <1>2, <2>1, <2>6 DEF WillScan
  <2> QED BY <1>5, <2>2, <2>3, <2>4, <2>5, <2>6 DEF WillScan
<1> QED BY <1>1, <1>2, <1>4, <1>5 DEF WatchInv, Watched

(***************************************************************************)
(* Running it scans what is there now.                                     *)
(***************************************************************************)
LEMMA ProcessWatched == ASSUME WatchInv, ProcessFile PROVE WatchInv'
<1>1. WatchTypes /\ Watched /\ UNCHANGED <<cfg, work, due>>
  BY DEF WatchInv, ProcessFile, trees
<1>2. PICK e \in watch.running :
        watch' = [watch EXCEPT !.running = watch.running \ {e}, !.changes = watch.changes \cup {e.file},
                               !.secrets = IF e.kind # "remove" /\ Found(work[e.file])
                                           THEN watch.secrets \cup {e.file} ELSE watch.secrets]
  BY DEF ProcessFile
<1>3. /\ DOMAIN watch' = DOMAIN NoWatch /\ watch'.pc = watch.pc /\ watch'.events = watch.events
      /\ watch'.handling = watch.handling /\ watch'.timers = watch.timers
      /\ watch'.running = watch.running \ {e} /\ watch'.changes = watch.changes \cup {e.file}
      /\ watch'.secrets = IF e.kind # "remove" /\ Found(work[e.file]) THEN watch.secrets \cup {e.file} ELSE watch.secrets
  BY <1>1, <1>2 DEF WatchTypes, NoWatch
<1>4. WatchTypes'
  BY <1>1, <1>3 DEF WatchTypes
<1>5. ASSUME NEW g, WillScan(g) PROVE WillScan(g)'
  <2>1. Found(work[g])' = Found(work[g])
    BY <1>1 DEF Found, Scanned, Secret, SecretPatterns
  <2>2. CASE \E i \in DOMAIN watch.events :
               Fits(watch.events[i], g) /\ \A j \in DOMAIN watch.events : j > i => ~Of(watch.events[j], g)
    BY <1>3, <2>1, <2>2 DEF WillScan, Fits, Of
  <2>3. CASE Unnoticed(g) /\ Fits(watch.handling, g)
    BY <1>3, <2>1, <2>3 DEF WillScan, Unnoticed, Fits, Of
  <2>4. CASE Unnoticed(g) /\ ~Of(watch.handling, g) /\ g \in DOMAIN watch.timers /\ Fits(watch.timers[g], g)
    BY <1>3, <2>1, <2>4 DEF WillScan, Unnoticed, Fits, Of
  <2>5. ASSUME NEW r \in watch.running, Fits(r, g) PROVE WillScan(g)'
    <3>1. CASE r = e
      <4>1. e.file = g /\ (Found(work[g]) => e.kind # "remove")
        BY <2>5, <3>1 DEF Fits, Of
      <4>2. g \in watch'.changes /\ (Found(work[g]) => g \in watch'.secrets)
        BY <1>3, <4>1
      <4> QED BY <2>1, <4>2 DEF WillScan
    <3>2. CASE r # e
      <4>1. r \in watch'.running
        BY <1>3, <3>2
      <4> QED BY <2>1, <2>5, <4>1 DEF WillScan, Fits, Of
    <3> QED BY <3>1, <3>2
  <2>6. CASE g \in watch.changes /\ (Found(work[g]) => g \in watch.secrets)
    BY <1>3, <2>1, <2>6 DEF WillScan
  <2> QED BY <1>5, <2>2, <2>3, <2>4, <2>5, <2>6 DEF WillScan
<1> QED BY <1>1, <1>3, <1>4, <1>5 DEF WatchInv, Watched

(***************************************************************************)
(* The directory, and the beginning and the end of watching.               *)
(***************************************************************************)
LEMMA WatcherSteps ==
  ASSUME AuditInv, WatchInv, MakeDirectory \/ StartWatching \/ CloseWatcher \/ StopWatcher PROVE WatchInv'
<1>1. WatchTypes /\ Watched /\ UNCHANGED <<cfg, work>>
  BY DEF WatchInv, MakeDirectory, StartWatching, CloseWatcher, StopWatcher, trees
<1>2. CASE MakeDirectory
  <2>1. CASE watch.pc = "on"
    <3> DEFINE e == [kind |-> "directory", file |-> "", n |-> edits]
    <3>1. watch' = [watch EXCEPT !.events = Append(watch.events, e)] /\ due' = due
      BY <1>2, <2>1 DEF MakeDirectory
    <3>2. e \in Notices /\ \A g : ~Of(e, g)
      <4>1. edits \in Nat
        BY DEF AuditInv, AuditTypes
      <4> QED BY <4>1 DEF Notices, Of
    <3> HIDE DEF e
    <3>3. /\ DOMAIN watch' = DOMAIN watch /\ watch'.pc = watch.pc /\ watch'.events = Append(watch.events, e)
          /\ watch'.handling = watch.handling /\ watch'.timers = watch.timers /\ watch'.running = watch.running
      BY <1>1, <3>1 DEF WatchTypes, NoWatch
    <3>4. WatchTypes'
      <4>1. Append(watch.events, e) \in Seq(Notices)
        BY <1>1, <3>2 DEF WatchTypes
      <4> QED BY <1>1, <3>3, <4>1 DEF WatchTypes
    <3>5. \A g : WillScan(g) => WillScan(g)'
      BY <1>1, <3>1, <3>2, AppendKeeps
    <3> QED BY <1>1, <3>1, <3>3, <3>4, <3>5 DEF WatchInv, Watched
  <2>2. CASE watch.pc # "on"
    <3>1. watch' = watch
      BY <1>2, <2>2 DEF MakeDirectory
    <3> QED BY <1>1, <2>2, <3>1 DEF WatchInv, WatchTypes, Watched
  <2> QED BY <2>1, <2>2
<1>3. CASE StartWatching
  <2>1. watch' = [NoWatch EXCEPT !.pc = "on", !.nested = directory] /\ due' = {}
    BY <1>3 DEF StartWatching
  <2>2. /\ DOMAIN watch' = DOMAIN NoWatch /\ watch'.pc = "on" /\ watch'.events = << >>
        /\ watch'.handling = NoEvent /\ watch'.timers = << >> /\ watch'.running = {}
    BY <2>1 DEF NoWatch
  <2>3. DOMAIN watch'.timers = {} /\ watch'.events \in Seq(Notices)
    BY <2>2
  <2> QED BY <2>1, <2>2, <2>3 DEF WatchInv, WatchTypes, Watched
<1>4. CASE CloseWatcher \/ StopWatcher
  <2>1. /\ DOMAIN watch' = DOMAIN NoWatch /\ watch'.pc \in {"off", "stopping"} /\ watch'.events \in {watch.events, << >>}
        /\ watch'.handling = watch.handling /\ watch'.timers \in {watch.timers, << >>}
        /\ watch'.running = watch.running
    BY <1>1, <1>4 DEF WatchTypes, CloseWatcher, StopWatcher, NoWatch
  <2>2. watch'.events \in Seq(Notices)
    <3>1. watch.events \in Seq(Notices) /\ << >> \in Seq(Notices)
      BY <1>1 DEF WatchTypes
    <3> QED BY <2>1, <3>1
  <2>3. \A f \in DOMAIN watch'.timers : watch'.timers[f] \in Event /\ watch'.timers[f].file = f
    <3>1. CASE watch'.timers = << >>
      <4>1. DOMAIN watch'.timers = {}
        BY <3>1
      <4> QED BY <4>1
    <3>2. CASE watch'.timers = watch.timers
      BY <1>1, <3>2 DEF WatchTypes
    <3> QED BY <2>1, <3>1, <3>2
  <2>4. WatchTypes'
    BY <1>1, <2>1, <2>2, <2>3 DEF WatchTypes
  <2> QED BY <2>1, <2>4 DEF WatchInv, Watched
<1> QED BY <1>2, <1>3, <1>4

(***************************************************************************)
(* The invariant is inductive, with the policies' and the types.           *)
(***************************************************************************)
LEMMA WatchStep == AuditAssumption /\ AuditInv /\ WatchInv /\ [AuditNext]_auditVars => WatchInv'
<1> SUFFICES ASSUME AuditAssumption, AuditInv, WatchInv, [AuditNext]_auditVars PROVE WatchInv'
  OBVIOUS
<1>1. CASE UNCHANGED <<cfg, work, watch, due>>
  <2>1. \A g : WillScan(g) => WillScan(g)'
    BY <1>1, SameWatch
  <2> QED BY <1>1, <2>1 DEF WatchInv, WatchTypes, Watched
<1>2. (\E f \in Files : GitAdd(f)) \/ GitCommit \/ Snapshot \/ Stop \/ AuditSession \/ Done \/ UNCHANGED auditVars
        => UNCHANGED <<cfg, work, watch, due>>
  BY DEF GitAdd, GitCommit, Snapshot, Stop, AuditSession, Done, auditVars, trees
<1>3. DiffCommitted \/ DiffStaged \/ DiffUnstaged \/ DiffUntracked \/ DiffFails \/ NewPolicyEngine \/ ScanFile
        \/ CheckPostSession \/ Finalize => UNCHANGED <<cfg, work, watch, due>>
  BY DEF DiffCommitted, DiffStaged, DiffUnstaged, DiffUntracked, DiffStep, DiffFails, NewPolicyEngine, ScanFile,
     CheckPostSession, Finalize, trees
<1> QED BY <1>1, <1>2, <1>3, EditWatched, TakeWatched, HandleWatched, FireWatched, ProcessWatched, WatcherSteps DEF AuditNext

(***************************************************************************)
(* When nothing is on its way every file has been scanned.                 *)
(***************************************************************************)
LEMMA CaughtUp == WatchInv => WatcherKeepsUp
<1> SUFFICES ASSUME WatchInv, watch.pc = "on", watch.events = << >>, watch.handling = NoEvent, watch.timers = << >>,
                    watch.running = {}, NEW f \in due
             PROVE  f \in watch.changes /\ (Found(work[f]) => f \in watch.secrets)
  BY DEF WatcherKeepsUp
<1>1. WillScan(f)
  BY DEF WatchInv, Watched
<1>2. ~Of(NoEvent, f)
  BY DEF Of, NoEvent
<1>3. DOMAIN watch.events = {} /\ DOMAIN watch.timers = {}
  OBVIOUS
<1> QED BY <1>1, <1>2, <1>3 DEF WillScan, Fits

(***************************************************************************)
(* For any number of files and changes, in whatever order events are taken *)
(* and timers fire: a watcher with nothing left to do has scanned every    *)
(* file after its last reported change.                                    *)
(***************************************************************************)
THEOREM WatcherAlwaysKeepsUp == AuditSpec => []WatcherKeepsUp
<1>1. AuditSpec => [](AuditInv /\ WatchInv)
  BY AuditAssumption, AuditInitInv, AuditStep, WatchInitInv, WatchStep, PTL DEF AuditSpec
<1> QED BY <1>1, CaughtUp, PTL

=============================================================================
