------------------------------ MODULE MCAudit ------------------------------
(* One file that is there, one with a blank in its name in a new directory, *)
(* and one that is ignored; and, with no edits, many pairs of policies.     *)
EXTENDS Audit, TLC

EnvFile == "src/env"
KeyFile == "src/sub/my key"
MCFiles == {EnvFile, KeyFile, "dist/cache"}
MCNames == MCFiles \cup {"src/sub/my", "src/{env", "src/{sub/my"}
MCNumstatField == [f \in MCFiles |-> IF f = KeyFile THEN "src/sub/my" ELSE f]
MCRenameField ==
  [r \in MCFiles \X MCFiles |->
     CASE r = <<EnvFile, KeyFile>> -> "src/{env" [] r = <<KeyFile, EnvFile>> -> "src/{sub/my"
       [] OTHER -> MCNumstatField[r[1]]]
MCListedName == [f \in MCFiles |-> f]

Policy(patterns, readOnly) == [block_patterns |-> patterns, read_only |-> readOnly]
Env == << {EnvFile} >>
MCDefaultPatterns == <<"key">>
MCDefaultReadOnly == Env

\* Edits and adds of a project, and a watched run.
Projects ==
  { [vigil |-> << >>, org |-> Policy(<<"token", "key">>, Env),
     locked |-> {"read_only", "scan_commits"}, edits |-> 5, watched |-> FALSE],
    [vigil |-> Policy(<<"key">>, << >>), org |-> Policy(<<"key", "token">>, Env),
     locked |-> {"block_patterns", "read_only"}, edits |-> 3, watched |-> TRUE] }

\* Pairs of policies, locks of fields without a case among them.
Policies ==
  { Policy(patterns, readOnly) @@ more :
      patterns \in {<< >>, <<"key">>, <<"token", "key">>}, readOnly \in {<< >>, Env},
      more \in {<< >>, [allowed_write |-> Env, scan_commits |-> FALSE]} }
Pairs ==
  { [vigil |-> v, org |-> o, locked |-> l, edits |-> 0, watched |-> FALSE] :
      v \in Policies \cup {<< >>, [custom_patterns_file |-> <<"token">>]}, o \in Policies \cup {<< >>},
      l \in SUBSET {"block_patterns", "read_only", "allowed_write", "scan_commits"} }
MCConfigs == Projects \cup Pairs
=============================================================================
