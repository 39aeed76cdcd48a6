------------------------------- MODULE MCStorage -------------------------------
(***************************************************************************)
(* What the system keeps on disk, in six scenes that share nothing, each   *)
(* with the others' actors standing still: owners, platform and probes     *)
(* around one group; two downloads that do not fit together in a group     *)
(* that may have no bot; one that is too large; the log files; the store   *)
(* being opened; the content of a task growing old.                        *)
(***************************************************************************)
EXTENDS Resources, LogFiles, Migration, Retention

CONSTANTS group, private, small, other, large, daemon, main, card, cli

VARIABLE scene

Open == [auto |-> TRUE, download |-> TRUE, joined |-> TRUE,
         identity |-> "bot_preferred", fallback |-> TRUE]
Closed == [Open EXCEPT !.auto = FALSE, !.download = FALSE]
Forced == [Open EXCEPT !.identity = "bot", !.fallback = FALSE]
Global == [p2p |-> TRUE, group |-> FALSE, default |-> Closed]

MCPolicies == {Open, Closed, Forced}
MCGlobals == {Global, [Global EXCEPT !.p2p = FALSE]}
MCImports == {[global |-> Global, chats |-> group :> Open]}
MCChatOf == (small :> group) @@ (other :> group) @@ (large :> private)
MCSize == (small :> 2) @@ (other :> 2) @@ (large :> 4)

MCLoggerOf == (main :> "daemon") @@ (card :> "daemon") @@ (cli :> "cli")

Cast == IF scene = "quota" THEN {small, other} ELSE {large}
MCInit ==
  /\ scene \in {"facts", "quota", "sizes", "logs", "open", "content"}
  /\ Init /\ active = IF scene = "quota" THEN {other} ELSE {}
  /\ LogsInit /\ RetentionInit
  /\ MigrationInit /\ (scene # "open" => store = NoStore)

FactsScene ==
  /\ scene = "facts" /\ UNCHANGED fileVars
  /\ \/ PolicyNext /\ UNCHANGED memberVars
     \/ MemberNext /\ UNCHANGED policyVars

FilesScene ==
  /\ scene \in {"quota", "sizes"}
  /\ \/ \E config \in Imports : ~Initialized /\ ImportConfig(config, FALSE)
                                /\ UNCHANGED <<memberVars, fileVars>>
     \/ UpsertChat(group, Closed) /\ UNCHANGED <<memberVars, fileVars>>
     \/ Notify /\ UNCHANGED <<policyVars, fileVars>>
     \/ FilesNext /\ (job.left \subseteq Cast)'
                  /\ (\A r \in Resource \ Cast : row[r] = NoRow /\ r \notin active)'

LogsScene == scene = "logs" /\ LogsNext
OpenScene == scene = "open" /\ MigrationNext
ContentScene == scene = "content" /\ RetentionNext

MCNext ==
  /\ UNCHANGED scene
  /\ \/ (FactsScene \/ FilesScene) /\ UNCHANGED <<logVars, migrationVars, retentionVars>>
     \/ LogsScene /\ UNCHANGED <<vars, migrationVars, retentionVars>>
     \/ OpenScene /\ UNCHANGED <<vars, logVars, retentionVars>>
     \/ ContentScene /\ UNCHANGED <<vars, logVars, migrationVars>>

MCSpec == MCInit /\ [][MCNext]_<<vars, logVars, migrationVars, retentionVars, scene>>
=============================================================================
