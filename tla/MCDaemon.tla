------------------------------- MODULE MCDaemon -------------------------------
(* Small instances of Daemon and, in a scene of its own, of Health.          *)
EXTENDS Daemon, Health

VARIABLE scene

Config(p, http, log, style) ==
  [provider |-> p, http |-> http, text_log |-> log, humanizer |-> style]

MCSetups == {Config("codex", FALSE, TRUE, "off"),
             Config("claude_code", FALSE, FALSE, "unset"),
             Config("hermes", TRUE, FALSE, "set")}

MCMayBreak == {<<"link", "sqlite">>, <<"file", "jsonl_log">>} \cup
              Wrong({"auth", "scopes", "database", "policy", "version", "http"})

MCInit == Init /\ HealthInit /\ scene \in {"daemon", "health"}
          /\ (scene = "daemon" => setup = CHOOSE s \in Setups : TRUE)

MCNext ==
  /\ UNCHANGED scene
  /\ \/ scene = "daemon" /\ Next /\ UNCHANGED healthVars
     \/ scene = "health" /\ HealthNext /\ UNCHANGED vars

MCLoop == scene = "daemon" /\ Loop /\ UNCHANGED <<healthVars, scene>>
MCSpec == MCInit /\ [][MCNext]_<<vars, healthVars, scene>> /\ WF_<<vars, healthVars, scene>>(MCLoop)
=============================================================================
