------------------------------- MODULE Audit -------------------------------
(***************************************************************************)
(* What vigil finds in a session.  While a tool runs, a watcher debounces  *)
(* the changes that the operating system reports and scans each file; stop *)
(* and audit ask git for the changes since the session's snapshot, with    *)
(* four commands one after the other, and scan those files.  The tool, and *)
(* whoever else works in the project, edit, add and commit at any time.    *)
(*                                                                         *)
(* A file's content is "absent", "plain", the name of the pattern that it  *)
(* matches, or "opaque": a secret that the scanner does not read, since    *)
(* the file is binary or cannot be opened, or a line is too long.  A glob  *)
(* is the set of names that it matches.  History is only extended: no      *)
(* commit of the snapshot is ever undone.                                  *)
(***************************************************************************)
EXTENDS Naturals, Sequences, FiniteSets, SequencesExt

CONSTANTS
  Files, Names,   \* Names: of the files, and what is left of names in git's lines
  numstatField,   \* of a file: the third field of its line, cut at a blank, still quoted
  renameField,    \* of a rename: that of "old => new" or "dir/{old => new}"
  listedName,     \* of a file: its line in ls-files, quoted where git does
  Ignored,     \* those in directories that git and the watcher both ignore
  Nested,      \* those of a directory that does not exist at first
  Patterns,
  DefaultPatterns, DefaultReadOnly,   \* of DefaultConfig
  DefaultSecretPatterns,              \* for a project that has no patterns
  Configs      \* what vigil.yaml and org-policy.yaml say of the fields they
               \* name; bounds: how many edits, adds and commits there are,
               \* and watched runs

Content == {"absent", "plain", "opaque"} \cup Patterns
ListFields == {"block_patterns", "read_only", "no_write"}
Flags == {"scan_agent_output", "scan_commits"}
Merging == ListFields \cup Flags   \* what MergeOrgPolicy has a case for
\* The last is the list of patterns in that file.
Fields == Merging \cup {"allowed_write", "custom_patterns_file"}
IsList(list) == list \in Seq(ToSet(list))
ArePatterns(list) == IsList(list) /\ {"absent", "plain", "opaque"} \cap ToSet(list) = {}

ASSUME AuditAssumption ==
  /\ Files \subseteq Names /\ Ignored \subseteq Files /\ Nested \subseteq Files \ Ignored
  /\ numstatField \in [Files -> Names] /\ listedName \in [Files -> Names]
  /\ renameField \in [Files \X Files -> Names]
  /\ ArePatterns(DefaultPatterns) /\ ArePatterns(DefaultSecretPatterns) /\ IsList(DefaultReadOnly)
  /\ \A c \in Configs :
       /\ DOMAIN c.vigil \cup DOMAIN c.org \subseteq Fields
       /\ \A field \in ListFields \cap DOMAIN c.vigil : IsList(c.vigil[field])
       /\ \A field \in ListFields \cap DOMAIN c.org : IsList(c.org[field])
       /\ \A field \in {"block_patterns", "custom_patterns_file"} \cap DOMAIN c.vigil : ArePatterns(c.vigil[field])
       /\ c.locked \subseteq Fields
       /\ c.edits \in Nat /\ c.watched \in BOOLEAN

VARIABLES
  cfg,       \* [repo, org, locked, edits, watched]: both policies as loaded
  work, index, head,   \* the trees: file -> content
  base,      \* the snapshot's tree
  directory, \* does the nested directory exist?
  watch,     \* the watcher of a run
  due,       \* history: the files whose last change was reported to it
  session,   \* [status, changes, secrets, writes]
  pass,      \* a stop or an audit
  touched,   \* history: what has changed since the pass began
  edits

trees == <<work, index, head, directory, edits>>
auditVars == <<cfg, trees, base, watch, due, session, pass, touched>>

NoEvent == [kind |-> "none", file |-> "", n |-> 0]
NoWatch == [pc |-> "off", nested |-> FALSE, events |-> << >>, handling |-> NoEvent, timers |-> << >>,
            running |-> {}, changes |-> {}, secrets |-> {}]
NoPass == [pc |-> "idle", command |-> "", diffed |-> FALSE, checked |-> FALSE,
           changes |-> {}, renamed |-> {}, todo |-> {}, secrets |-> {}, writes |-> {}]
NoSession == [status |-> "none", changes |-> {}, secrets |-> {}, writes |-> {}]

\* The project's file over the defaults; the organisation's need not exist.
DefaultConfig ==
  [block_patterns |-> DefaultPatterns, custom_patterns_file |-> << >>, read_only |-> DefaultReadOnly,
   no_write |-> << >>, allowed_write |-> << >>, scan_agent_output |-> TRUE, scan_commits |-> TRUE]
LoadConfig(c) == [field \in Fields |-> IF field \in DOMAIN c.vigil THEN c.vigil[field] ELSE DefaultConfig[field]]
LoadOrgPolicy(c) ==
  [field \in Fields |-> IF field \in DOMAIN c.org THEN c.org[field] ELSE IF field \in Flags THEN FALSE ELSE << >>]

AuditInit ==
  /\ cfg \in {[repo |-> LoadConfig(c), org |-> LoadOrgPolicy(c), locked |-> c.locked,
               edits |-> c.edits, watched |-> c.watched] : c \in Configs}
  /\ work = [f \in Files |-> IF f \in Nested \cup Ignored THEN "absent" ELSE "plain"]
  /\ index = work /\ head = work /\ base = work /\ directory = FALSE
  /\ watch = NoWatch /\ due = {} /\ session = NoSession /\ pass = NoPass
  /\ touched = {} /\ edits = 0

-----------------------------------------------------------------------------
(* Policies.                                                               *)

matchGlob(glob, f) == f \in glob
MatchesAny(globs, f) == \E i \in DOMAIN globs : matchGlob(globs[i], f)

\* ScanContent: the patterns of the project alone, and of none the package's.
SecretPatterns ==
  LET own == cfg.repo["block_patterns"] \o cfg.repo["custom_patterns_file"]
  IN IF own = << >> THEN DefaultSecretPatterns ELSE own
Secret(content) == content = "opaque" \/ \E i \in DOMAIN SecretPatterns : SecretPatterns[i] = content

\* scanFile: what it cannot read it skips without a word.
Scanned(content) == content \notin {"absent", "opaque"}
Found(content) == Scanned(content) /\ Secret(content)

\* Each string once, where it is first.
AddUnlessSeen(list, s) == IF s \in ToSet(list) THEN list ELSE Append(list, s)
mergeStringSlices(first, then) ==
  LET all == first \o then
      result[n \in 0..Len(all)] == IF n = 0 THEN << >> ELSE AddUnlessSeen(result[n - 1], all[n])
  IN result[Len(all)]

\* Slip: what a project adds to a list replaces the organisation's.
MergeOverride(c) ==
  [merged |-> [field \in Fields |-> IF field \in c.locked \cap Merging THEN c.org[field] ELSE c.repo[field]],
   complaints |-> {}]
\* A lock on a field without a case has no effect.
MergeOrgPolicy(c) ==
  [merged |-> [field \in Fields |->
                 IF field \in c.locked \cap Merging THEN c.org[field]
                 ELSE IF field \in ListFields THEN mergeStringSlices(c.org[field], c.repo[field])
                 ELSE c.repo[field]],
   complaints |-> {field \in c.locked \cap Merging :
                     c.repo[field] # c.org[field] /\ (field \in ListFields => c.repo[field] # << >>)}]

\* policy show: where the value of a field comes from.
MergedConfigView(c) ==
  [field \in {"block_patterns", "read_only"} |->
     IF field \in c.locked THEN "org-locked" ELSE IF c.org[field] # << >> THEN "merged" ELSE "repo"]

\* policy validate.
Valid(c) == MergeOrgPolicy(c).complaints = {}

\* Every change that git names is "modified", a removed file's too.
CheckWrites(paths) ==
  LET Of(rule, broken) == {[rule |-> rule, file |-> f] : f \in broken}
      allowed == cfg.repo["allowed_write"]
  IN Of("read_only", {f \in paths : MatchesAny(cfg.repo["read_only"], f)})
     \cup Of("no_write", {f \in paths : MatchesAny(cfg.repo["no_write"], f)})
     \cup Of("allowed_write", {f \in paths : allowed # << >> /\ ~MatchesAny(allowed, f)})

-----------------------------------------------------------------------------
(* The project.                                                            *)

\* The operating system reports a change in a directory that is watched.
Reported(f) == watch.pc = "on" /\ f \notin Ignored /\ (f \in Nested => watch.nested)

Notice(f, kind) ==
  IF Reported(f)
  THEN /\ watch' = [watch EXCEPT !.events = Append(@, [kind |-> kind, file |-> f, n |-> edits'])]
       /\ due' = IF kind = "rename" THEN due \ {f} ELSE due \cup {f}
  ELSE watch' = watch /\ due' = due \ {f}

\* A file that is no longer there was removed, or moved away: a move within
\* the project is that and a write of the new name.
Edit(f) == \E content \in Content, kind \in {"write", "remove", "rename"} :
  /\ (content = "absent") = (kind # "write")
  /\ edits < cfg.edits /\ content # work[f] /\ (f \in Nested => directory)
  /\ edits' = edits + 1 /\ work' = [work EXCEPT ![f] = content] /\ touched' = touched \cup {f}
  /\ Notice(f, kind)
  /\ UNCHANGED <<cfg, index, head, directory, base, session, pass>>

MakeDirectory ==
  /\ ~directory /\ directory' = TRUE
  /\ watch' = IF watch.pc = "on" THEN [watch EXCEPT !.events = Append(@, [kind |-> "directory", file |-> "", n |-> edits])] ELSE watch
  /\ UNCHANGED <<cfg, work, index, head, edits, base, due, session, pass, touched>>

GitAdd(f) ==
  /\ edits < cfg.edits /\ f \notin Ignored /\ index[f] # work[f]
  /\ edits' = edits + 1 /\ index' = [index EXCEPT ![f] = work[f]] /\ touched' = touched \cup {f}
  /\ UNCHANGED <<cfg, work, head, directory, base, watch, due, session, pass>>

GitCommit ==
  /\ edits < cfg.edits /\ index # head
  /\ edits' = edits + 1 /\ head' = index /\ touched' = touched \cup {f \in Files : head[f] # index[f]}
  /\ UNCHANGED <<cfg, work, index, directory, base, watch, due, session, pass>>

-----------------------------------------------------------------------------
(* The watcher of vigil run.                                               *)

StartWatching ==
  /\ cfg.watched /\ session.status = "active" /\ pass.pc = "idle" /\ watch.pc = "off"
  /\ watch' = [NoWatch EXCEPT !.pc = "on", !.nested = directory] /\ due' = {}
  /\ UNCHANGED <<cfg, trees, base, session, pass, touched>>

\* The loop takes an event, though Stop may already have closed done.
TakeEvent ==
  /\ watch.pc \in {"on", "stopping"} /\ watch.events # << >> /\ watch.handling = NoEvent
  /\ LET e == Head(watch.events)
         w == [watch EXCEPT !.events = Tail(@)]
     IN watch' = IF e.kind = "directory" THEN [w EXCEPT !.nested = TRUE] ELSE [w EXCEPT !.handling = e]
  /\ UNCHANGED <<cfg, trees, base, due, session, pass, touched>>

\* Slip: a timer that is already running is left as it is.
KeepTimer(timers, e) ==
  IF e.file \in DOMAIN timers THEN timers ELSE [f \in DOMAIN timers \cup {e.file} |-> IF f = e.file THEN e ELSE timers[f]]
Timer(timers, e) == [f \in DOMAIN timers \cup {e.file} |-> IF f = e.file THEN e ELSE timers[f]]

\* Only writes, creations and removals: what was moved away is left alone.
HandleEvent ==
  /\ watch.handling # NoEvent
  /\ watch' = [watch EXCEPT !.handling = NoEvent,
                            !.timers = IF watch.handling.kind = "rename" THEN @ ELSE Timer(@, watch.handling)]
  /\ UNCHANGED <<cfg, trees, base, due, session, pass, touched>>

Drop(timers, f) == [g \in DOMAIN timers \ {f} |-> timers[g]]
Fire(f) ==
  /\ f \in DOMAIN watch.timers
  /\ watch' = [watch EXCEPT !.timers = Drop(@, f), !.running = @ \cup {watch.timers[f]}]
  /\ UNCHANGED <<cfg, trees, base, due, session, pass, touched>>

\* A timer that has fired runs, whatever happened to the watcher meanwhile.
ProcessFile == \E e \in watch.running :
  /\ watch' = [watch EXCEPT !.running = @ \ {e}, !.changes = @ \cup {e.file},
                            !.secrets = IF e.kind # "remove" /\ Found(work[e.file]) THEN @ \cup {e.file} ELSE @]
  /\ UNCHANGED <<cfg, trees, base, due, session, pass, touched>>

\* The tool has ended.
CloseWatcher ==
  /\ watch.pc = "on" /\ watch' = [watch EXCEPT !.pc = "stopping"]
  /\ UNCHANGED <<cfg, trees, base, due, session, pass, touched>>

\* The lock; what the timers had to say is dropped, and so is what was found.
StopWatcher ==
  /\ watch.pc = "stopping"
  /\ watch' = [watch EXCEPT !.pc = "off", !.events = << >>, !.timers = << >>]
  /\ UNCHANGED <<cfg, trees, base, due, session, pass, touched>>

-----------------------------------------------------------------------------
(* Stop and audit.                                                         *)

Snapshot ==
  /\ session.status = "none" /\ base' = head /\ session' = [NoSession EXCEPT !.status = "active"]
  /\ UNCHANGED <<cfg, trees, watch, due, pass, touched>>

Begin(command, p) == pass' = [p EXCEPT !.command = command] /\ touched' = {}

Stop ==
  /\ session.status = "active" /\ watch.pc = "off" /\ pass.pc = "idle"
  /\ Begin("stop", [NoPass EXCEPT !.pc = "committed", !.diffed = TRUE])
  /\ UNCHANGED <<cfg, trees, base, watch, due, session>>

\* A session that has changes is scanned again where they were; another is
\* compared with what is there now.
AuditSession ==
  /\ session.status = "completed" /\ pass.pc = "idle"
  /\ Begin("audit", IF session.changes = {} THEN [NoPass EXCEPT !.pc = "committed", !.diffed = TRUE]
                    ELSE [NoPass EXCEPT !.pc = "engine", !.changes = session.changes])
  /\ UNCHANGED <<cfg, trees, base, watch, due, session>>

\* Renames that git may detect between two trees.
Renames(from, to) ==
  LET gone == {f \in Files : from[f] # "absent" /\ to[f] = "absent"}
      new == {f \in Files : from[f] = "absent" /\ to[f] # "absent"}
  IN {R \in SUBSET (gone \X new) : \A r, s \in R : r[1] = s[1] \/ r[2] = s[2] => r = s}

\* parseNumstatLine: the third of the fields that blanks separate.
Numstat(from, to, source, renames) ==
  LET other == {f \in Files : from[f] # to[f]} \ UNION {{r[1], r[2]} : r \in renames}
  IN {[path |-> p, source |-> source] : p \in {numstatField[f] : f \in other} \cup {renameField[r] : r \in renames}}

\* Slip: a path may be named by every command.
AddBlindly(changes, more) == changes \cup more
AddUnseen(changes, more) == changes \cup {c \in more : \A d \in changes : d.path # c.path}

DiffStep(pc, next, more, renames) ==
  /\ pass.pc = pc
  /\ pass' = [pass EXCEPT !.pc = next, !.changes = AddUnseen(@, more), !.renamed = @ \cup renames]
  /\ UNCHANGED <<cfg, trees, base, watch, due, session, touched>>

DiffCommitted == \E R \in Renames(base, head) :
  DiffStep("committed", "staged", Numstat(base, head, "committed", R), R)

DiffStaged == \E R \in Renames(head, index) :
  DiffStep("staged", "unstaged", Numstat(head, index, "staged", R), R)

\* Of the files in the index.
Tracked == [f \in Files |-> IF index[f] = "absent" THEN "absent" ELSE work[f]]
DiffUnstaged == DiffStep("unstaged", "untracked", Numstat(index, Tracked, "unstaged", {}), {})

DiffUntracked ==
  LET files == {f \in Files \ Ignored : index[f] = "absent" /\ work[f] # "absent"}
  IN DiffStep("untracked", "engine", {[path |-> listedName[f], source |-> "untracked"] : f \in files}, {})

\* Any of the commands fails: stop warns and goes on, and so does audit.
DiffFails ==
  /\ pass.pc \in {"committed", "staged", "unstaged", "untracked"}
  /\ pass' = [pass EXCEPT !.pc = "engine", !.changes = {}, !.diffed = FALSE]
  /\ UNCHANGED <<cfg, trees, base, watch, due, session, touched>>

Paths(changes) == {c.path : c \in changes}

\* Without the project's file of patterns there is no engine: stop goes on
\* without a check, audit ends.
NewPolicyEngine == \E ok \in BOOLEAN :
  /\ pass.pc = "engine"
  /\ pass' = IF ok THEN [pass EXCEPT !.pc = "scan", !.checked = TRUE, !.todo = Paths(pass.changes)]
             ELSE [pass EXCEPT !.pc = IF pass.command = "stop" THEN "save" ELSE "done"]
  /\ UNCHANGED <<cfg, trees, base, watch, due, session, touched>>

Held(tree, name) == IF name \in Files THEN tree[name] ELSE "absent"

\* Slip: what is about to be committed is scanned.
ScanIndex == \E name \in pass.todo :
  /\ pass.pc = "scan"
  /\ pass' = [pass EXCEPT !.todo = @ \ {name}, !.secrets = IF Found(Held(index, name)) THEN @ \cup {name} ELSE @]
  /\ UNCHANGED <<cfg, trees, base, watch, due, session, touched>>

\* What the working tree has under the name.
ScanFile == \E name \in pass.todo :
  /\ pass.pc = "scan"
  /\ pass' = [pass EXCEPT !.todo = @ \ {name}, !.secrets = IF Found(Held(work, name)) THEN @ \cup {name} ELSE @]
  /\ UNCHANGED <<cfg, trees, base, watch, due, session, touched>>

CheckPostSession ==
  /\ pass.pc = "scan" /\ pass.todo = {}
  /\ pass' = [pass EXCEPT !.pc = IF pass.command = "stop" THEN "save" ELSE "done",
                          !.writes = CheckWrites(Paths(pass.changes))]
  /\ UNCHANGED <<cfg, trees, base, watch, due, session, touched>>

Finalize ==
  /\ pass.pc = "save"
  /\ session' = [status |-> "completed", changes |-> pass.changes, secrets |-> pass.secrets, writes |-> pass.writes]
  /\ pass' = [pass EXCEPT !.pc = "done"]
  /\ UNCHANGED <<cfg, trees, base, watch, due, touched>>

Done ==
  /\ pass.pc = "done" /\ pass' = NoPass
  /\ UNCHANGED <<cfg, trees, base, watch, due, session, touched>>

AuditNext ==
  \/ \E f \in Files : Edit(f) \/ GitAdd(f) \/ Fire(f)
  \/ MakeDirectory \/ GitCommit
  \/ StartWatching \/ TakeEvent \/ HandleEvent \/ ProcessFile \/ CloseWatcher \/ StopWatcher
  \/ Snapshot \/ Stop \/ AuditSession
  \/ DiffCommitted \/ DiffStaged \/ DiffUnstaged \/ DiffUntracked \/ DiffFails
  \/ NewPolicyEngine \/ ScanFile \/ CheckPostSession \/ Finalize \/ Done

AuditSpec == AuditInit /\ [][AuditNext]_auditVars

-----------------------------------------------------------------------------

\* What the lines of the four commands may have named a file.
NamesOf(f) ==
  {numstatField[f], listedName[f]} \cup {renameField[r] : r \in {q \in pass.renamed : f \in {q[1], q[2]}}}

\* Nobody has touched it since the pass began.
Steady == Files \ (Ignored \cup touched)

\* However its changes are spread over commits, the index and the working
\* tree, a file that is not as the snapshot has it is among the changes, by
\* one of the names that git's lines leave of it, and no name comes from two
\* commands: unless the file is touched between the four commands of
\* DiffSince.
ChangesComplete ==
  pass.pc = "engine" /\ pass.diffed =>
    /\ \A f \in Steady : work[f] # base[f] => NamesOf(f) \cap Paths(pass.changes) # {}
    /\ \A c, d \in pass.changes : c.path = d.path => c = d

\* A check that was made finds the secrets in the files of the session that
\* it can read, and no others, and every write to a read-only file, though the
\* files are read long after the changes were listed (CheckPostSession in stop
\* and audit): of each file that the changes name, and of each that has
\* changed and whose name git's lines keep, as they do of one without blanks
\* and quotes that was not renamed.
FindingsReported ==
  pass.pc = "done" /\ pass.checked =>
    /\ pass.secrets \subseteq Paths(pass.changes)
    /\ \A f \in Steady :
         LET named == f \in Paths(pass.changes) \/ (pass.diffed /\ work[f] # base[f] /\ NamesOf(f) = {f})
         IN /\ named /\ Found(work[f]) => f \in pass.secrets
            /\ f \in pass.secrets => Found(work[f])
            /\ named /\ MatchesAny(cfg.repo["read_only"], f) => [rule |-> "read_only", file |-> f] \in pass.writes

\* When the watcher has nothing left to do it has noted and scanned every file
\* after its last reported change, in whatever order events and timers came;
\* not the files that were moved away, of which it takes no note (handleEvent,
\* processFile).
WatcherKeepsUp ==
  watch.pc = "on" /\ watch.events = << >> /\ watch.handling = NoEvent /\ watch.timers = << >> /\ watch.running = {} =>
    \A f \in due : f \in watch.changes /\ (Found(work[f]) => f \in watch.secrets)

\* Of the fields that MergeOrgPolicy has a case for, a locked one has the
\* organisation's value, and where policy validate lets the project pass, its
\* own value, which is the one that stop and audit use, is the same or an
\* empty list; other lists have what either asks for.  Fields without a case
\* are the project's, locked or not, and what policy show says of a field's
\* origin is so (MergeOrgPolicy, runPolicyValidate, MergedConfigView).
LockedFieldsHold ==
  LET merged == MergeOrgPolicy(cfg).merged
      view == MergedConfigView(cfg)
  IN /\ \A field \in cfg.locked \cap Merging :
          /\ merged[field] = cfg.org[field]
          /\ Valid(cfg) => cfg.repo[field] \in {cfg.org[field], << >>}
     /\ \A field \in ListFields \ cfg.locked :
          ToSet(merged[field]) = ToSet(cfg.org[field]) \cup ToSet(cfg.repo[field])
     /\ \A field \in Fields \ Merging : merged[field] = cfg.repo[field]
     /\ \A field \in DOMAIN view :
          /\ view[field] = "repo" => ToSet(merged[field]) = ToSet(cfg.repo[field])
          /\ view[field] = "org-locked" => merged[field] = cfg.org[field]
=============================================================================
