-------------------------------- MODULE Health --------------------------------
(***************************************************************************)
(* The health suite and what the daemon makes of it: the full suite before *)
(* the loop, the critical checks before a tick unless their last result is *)
(* young enough, and the policy probe before every tick.                   *)
(*                                                                         *)
(* The world the checks look at changes under them.  It is the set of what *)
(* is broken, one name per thing a check can find wrong; the programs and  *)
(* services probed are external.                                           *)
(***************************************************************************)
EXTENDS Naturals, Sequences, FiniteSets

CONSTANTS
  Setups,         \* configurations: provider, http, text_log, humanizer
  Interval,       \* health.interval_seconds, in units of time
  RetryInterval,  \* health.retry_interval_seconds
  Lag,            \* bound: units the checks of one run take together
  MayBreak,       \* bound: the faults that occur
  MaxBroken       \* bound: things broken at once

ASSUME HealthAssumption ==
  /\ {Interval, RetryInterval} \subseteq Nat \ {0} /\ {Lag, MaxBroken} \subseteq Nat
  /\ Lag < Interval

VARIABLES
  setup,
  broken,   \* what is broken now
  since,    \* [MayBreak -> units it has been broken for, 0 if it is not]
  daemon,   \* down, starting, waiting for a tick, checking, acting
  todo,     \* the checks of the run under way that are left
  failed,   \* a critical check failed in it
  auth,     \* what was wrong with the auth JSON it has got
  begun,    \* units since it began
  stamp,    \* units since _last_runtime_health_at, or Unchecked
  fine      \* _runtime_health_ok

healthVars == <<setup, broken, since, daemon, todo, failed, auth, begun, stamp, fine>>

Longest == IF Interval > RetryInterval THEN Interval ELSE RetryInterval
Unchecked == Longest + Lag + 1
Older(n) == IF n < Longest + Lag THEN n + 1 ELSE n

Paths == {"sqlite", "resources", "jsonl_log", "text_log"}
PathFaults == {"link", "type", "parent", "file"} \X Paths
AuthThings == {"auth", "scopes", "bot"}
Things == AuthThings \cup
  {"database", "policy", "lark_path", "lark", "working_dir", "notification", "skills",
   "style", "version", "status", "login", "help", "flags", "resume", "api_key", "http"}
Wrong(things) == {"wrong"} \X things
Fault == PathFaults \cup Wrong(Things)

ASSUME FaultAssumption == MayBreak \subseteq Fault

HealthInit ==
  /\ setup \in Setups
  /\ broken = {} /\ since = [f \in MayBreak |-> 0]
  /\ daemon = "down" /\ todo = <<>> /\ failed = FALSE /\ auth = AuthThings
  /\ begun = 0 /\ stamp = Unchecked /\ fine = TRUE

Fine(things) == Wrong(things) \cap broken = {}
------------------------------------------------------------------------------
(* The checks. *)

(* A configured path: no symbolic link on the way, the right kind of file, *)
(* a writable directory and, if it is a file, a writable file.             *)
Configured(p) == p # "text_log" \/ setup.text_log
PathSafe(p) ==
  /\ ({"link", "type", "parent"} \X {p}) \cap broken = {}
  /\ p # "resources" => <<"file", p>> \notin broken
StoragePathsSafe == \A p \in Paths : Configured(p) => PathSafe(p)

LarkAnswers == Fine({"lark_path"}) /\ Fine({"lark"})

(* Scopes and bot are read off the JSON of the auth check, if it has any.  *)
AuthSeen == {t \in AuthThings : ~Fine({"auth", t})}
ScopesGranted == "scopes" \notin auth
BotAvailable == "bot" \notin auth

(* codex, claude and hermes: each command with the flags in its help.      *)
CodexCapable == Fine({"help", "resume", "flags"})
ClaudeCapable == Fine({"help", "flags"})
HermesPermits == Fine({"help", "flags"})
HermesReachable == Fine({"api_key", "http"})

Backend ==
  CASE setup.provider = "codex" -> <<"version", "login", "codex">>
    [] setup.provider = "claude_code" -> <<"version", "login", "claude">>
    [] OTHER -> <<"version", "status", "permissions">>
                \o (IF setup.http THEN <<"reachable">> ELSE <<>>)

Passes(check) ==
  CASE check = "storage_paths" -> StoragePathsSafe
    [] check = "sqlite" -> Fine({"database"})
    [] check = "policy" -> Fine({"policy", "database"})
    [] check = "lark" -> LarkAnswers
    [] check = "working_dir" -> Fine({"working_dir"})
    [] check = "auth" -> Fine({"auth"})
    [] check = "scopes" -> ScopesGranted
    [] check = "bot" -> BotAvailable
    [] check = "version" -> Fine({"version"})
    [] check = "login" -> Fine({"login"})
    [] check = "status" -> Fine({"status"})
    [] check = "codex" -> CodexCapable
    [] check = "claude" -> ClaudeCapable
    [] check = "permissions" -> HermesPermits
    [] check = "reachable" -> HermesReachable
    [] check = "notification" -> Fine({"notification"})
    [] check = "skills" -> Fine({"skills"})
    [] check = "style" -> Fine({"style"})
    [] check = "humanizer" -> setup.humanizer # "unset"

Warnings == {"status", "notification", "skills", "style"}

Always == <<"storage_paths", "sqlite", "policy", "lark", "working_dir", "auth", "scopes", "bot">>
RuntimeCritical == Always \o Backend
Guidance == IF setup.humanizer = "off" THEN <<>> ELSE <<"style", "humanizer">>
FullSuite == Always \o <<"notification">> \o Backend \o <<"skills">> \o Guidance

(* A CLI whose version cannot be read is not asked anything else.          *)
AfterVersion(checks) ==
  SelectSeq(checks, LAMBDA c : c \notin {"login", "status", "codex", "claude", "permissions"})

RunCheck ==
  LET check == Head(todo) IN
  /\ daemon \in {"starting", "checking"} /\ todo # <<>>
  /\ failed' = (failed \/ (~Passes(check) /\ check \notin Warnings))
  /\ auth' = IF check = "auth" THEN AuthSeen ELSE auth
  /\ todo' = IF check = "version" /\ ~Passes(check) THEN AfterVersion(Tail(todo)) ELSE Tail(todo)
  /\ UNCHANGED <<setup, broken, since, daemon, begun, stamp, fine>>

Begins(checks) == todo' = checks /\ failed' = FALSE /\ auth' = AuthThings /\ begun' = 0
------------------------------------------------------------------------------
(* The daemon. *)

(* A supervisor or the operator starts it. *)
Start ==
  /\ daemon = "down" /\ daemon' = "starting"
  /\ Begins(FullSuite) /\ stamp' = Unchecked /\ fine' = TRUE
  /\ UNCHANGED <<setup, broken, since>>

(* The results are recorded: a database that fails ends the process. *)
EndStartup ==
  /\ daemon = "starting" /\ todo = <<>>
  /\ daemon' = IF ~failed /\ Fine({"database"}) THEN "waiting" ELSE "down"
  /\ UNCHANGED <<setup, broken, since, todo, failed, auth, begun, stamp, fine>>

(* The interval that the last result is good for. *)
Valid == IF fine THEN Interval ELSE RetryInterval

(* Variant: a result that is used again counts as new. *)
Renewed == 0

Reused == stamp

(* A tick: the first writes to the store, the policy probe, the cached     *)
(* result or another run of the critical checks.                           *)
Tick ==
  /\ daemon = "waiting"
  /\ UNCHANGED <<setup, broken, since, fine>>
  /\ \/ ~Fine({"database"}) /\ daemon' = "down"
        /\ UNCHANGED <<todo, failed, auth, begun, stamp>>
     \/ Fine({"database"}) /\ ~Fine({"policy"}) /\ UNCHANGED <<daemon, todo, failed, auth, begun, stamp>>
     \/ /\ Fine({"database", "policy"}) /\ stamp < Valid
        /\ daemon' = (IF fine THEN "acting" ELSE "waiting")
        /\ stamp' = Reused /\ UNCHANGED <<todo, failed, auth, begun>>
     \/ /\ Fine({"database", "policy"}) /\ stamp >= Valid
        /\ daemon' = "checking" /\ Begins(RuntimeCritical) /\ UNCHANGED stamp

(* Variant: the time of a result is when its checks were done. *)
Done == 0

(* now is read before the checks. *)
Taken == begun

EndChecks ==
  /\ daemon = "checking" /\ todo = <<>>
  /\ IF Fine({"database"})
     THEN /\ stamp' = Taken /\ fine' = ~failed
          /\ daemon' = IF fine' THEN "acting" ELSE "waiting"
     ELSE daemon' = "down" /\ UNCHANGED <<stamp, fine>>
  /\ UNCHANGED <<setup, broken, since, todo, failed, auth, begun>>

EndTick ==
  /\ daemon = "acting" /\ daemon' = "waiting"
  /\ UNCHANGED <<setup, broken, since, todo, failed, auth, begun, stamp, fine>>
------------------------------------------------------------------------------
(* The world. *)
Break(f) ==
  /\ f \notin broken /\ Cardinality(broken) < MaxBroken
  /\ broken' = broken \cup {f}
  /\ UNCHANGED <<setup, since, daemon, todo, failed, auth, begun, stamp, fine>>

Repair(f) ==
  /\ f \in broken
  /\ broken' = broken \ {f} /\ since' = [since EXCEPT ![f] = 0]
  /\ UNCHANGED <<setup, daemon, todo, failed, auth, begun, stamp, fine>>

Elapse ==
  /\ since' = [f \in MayBreak |-> IF f \in broken THEN Older(since[f]) ELSE 0]
  /\ IF daemon \in {"starting", "checking"} THEN begun < Lag /\ begun' = begun + 1
     ELSE UNCHANGED begun
  /\ stamp' = IF stamp = Unchecked THEN stamp ELSE Older(stamp)
  /\ UNCHANGED <<setup, broken, daemon, todo, failed, auth, fine>>

Turns == RunCheck \/ EndStartup \/ Tick \/ EndChecks \/ EndTick

HealthNext ==
  \/ Start \/ Turns \/ Elapse
  \/ \E f \in MayBreak : Break(f) \/ Repair(f)

HealthSpec == HealthInit /\ [][HealthNext]_healthVars
------------------------------------------------------------------------------
(* What the configured system cannot work without. *)
Critical ==
  LET paths == {f \in PathFaults : Configured(f[2]) /\ f # <<"file", "resources">>}
      cli == CASE setup.provider = "codex" -> {"version", "login", "help", "flags", "resume"}
               [] setup.provider = "claude_code" -> {"version", "login", "help", "flags"}
               [] OTHER -> {"version", "help", "flags"}
                           \cup (IF setup.http THEN {"api_key", "http"} ELSE {})
  IN paths \cup Wrong(AuthThings \cup cli \cup
                    {"database", "policy", "lark_path", "lark", "working_dir"})

(***************************************************************************)
(* No tick acts on a system that has been unfit for a whole interval: each *)
(* thing the configured system cannot work without was in order less than  *)
(* health.interval_seconds before, and the database answers now.           *)
(***************************************************************************)
ActsHealthy ==
  [][daemon # "acting" /\ daemon' = "acting" =>
       /\ \A f \in Critical \cap MayBreak : since[f] < Interval
       /\ Fine({"database"})]_healthVars
=============================================================================
