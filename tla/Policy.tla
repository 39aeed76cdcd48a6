-------------------------------- MODULE Policy --------------------------------
(***************************************************************************)
(* The Product Policy Store - one global policy, one row per configured    *)
(* chat, an audit for every change - and the effective policy the daemon   *)
(* reads from it: which chats are answered automatically, under which      *)
(* identity, and whose resources are downloaded.  A runtime fact about the *)
(* bot's membership is layered over the row and never written into it.     *)
(***************************************************************************)
EXTENDS Sequences, FiniteSets

CONSTANTS
  Chat,
  Group,          \* the chats that are groups; the others are private
  ChatPolicies,   \* the chat policies an owner writes
  GlobalPolicies, \* the global policies
  Imports,        \* the configuration files: [global, chats], chats by chat
  NoPolicy

VARIABLES
  global,    \* product_policies, or NoPolicy before the first import
  chats,     \* [Chat -> ChatPolicy or NoPolicy]
  audited    \* by key, the policy after the last policy_audits row

policyVars == <<global, chats, audited>>

Identity == {"bot", "bot_preferred", "user"}
ChatPolicy == [auto: BOOLEAN, download: BOOLEAN, joined: BOOLEAN,
               identity: Identity, fallback: BOOLEAN]
GlobalPolicy == [p2p: BOOLEAN, group: BOOLEAN, default: ChatPolicy]

(* policy_key: the global policy's own, or the chat's id with a prefix.   *)
GlobalKey == "global"

ASSUME PolicyAssumption ==
  /\ Group \subseteq Chat /\ GlobalKey \notin Chat
  /\ ChatPolicies \subseteq ChatPolicy /\ GlobalPolicies \subseteq GlobalPolicy
  /\ \A config \in Imports : DOMAIN config.chats \subseteq Chat

AuditOf(key) == IF key = GlobalKey THEN global ELSE chats[key]
Keys == {GlobalKey} \cup Chat

PolicyInit ==
  /\ global = NoPolicy /\ chats = [c \in Chat |-> NoPolicy]
  /\ audited = [key \in Keys |-> NoPolicy]

(* Variant: the rows an import replaces are not audited. *)
FillAudit(key, old, new) == IF old = NoPolicy THEN new ELSE audited[key]

ImportAudit(key, old, new) == new

(* policy import-config: missing rows are filled, and with --replace the   *)
(* others are overwritten and audited.                                     *)
ImportConfig(file, replace) ==
  LET writes(old) == old = NoPolicy \/ replace
      written == {c \in DOMAIN file.chats : writes(chats[c])}
  IN /\ global' = IF writes(global) THEN file.global ELSE global
     /\ chats' = [c \in Chat |-> IF c \in written THEN file.chats[c] ELSE chats[c]]
     /\ audited' = [key \in Keys |->
          IF key \in written THEN ImportAudit(key, chats[key], file.chats[key])
          ELSE IF key = GlobalKey /\ writes(global)
          THEN ImportAudit(key, global, file.global)
          ELSE audited[key]]

(* One row, changed and audited in one transaction; no audit for no change. *)
UpdateGlobal(policy) ==
  /\ policy # global
  /\ global' = policy /\ audited' = [audited EXCEPT ![GlobalKey] = policy]
  /\ UNCHANGED chats

UpsertChat(c, policy) ==
  /\ policy # chats[c]
  /\ chats' = [chats EXCEPT ![c] = policy]
  /\ audited' = [audited EXCEPT ![c] = policy]
  /\ UNCHANGED global

DeleteChat(c) ==
  /\ chats[c] # NoPolicy
  /\ chats' = [chats EXCEPT ![c] = NoPolicy]
  /\ audited' = [audited EXCEPT ![c] = NoPolicy]
  /\ UNCHANGED global

PolicyNext ==
  \/ \E file \in Imports, replace \in BOOLEAN : ImportConfig(file, replace)
  \/ \E policy \in GlobalPolicies : UpdateGlobal(policy)
  \/ \E c \in Chat : \/ \E policy \in ChatPolicies : UpsertChat(c, policy)
                     \/ DeleteChat(c)

(* The daemon refuses to work before the first import. *)
Initialized == global # NoPolicy

------------------------------------------------------------------------------
(* resolve_chat_policy: the chat's row, or the defaults for its type; the  *)
(* effective membership of a group follows what was observed.              *)
Resolved(c, observed) ==
  LET base == IF chats[c] # NoPolicy THEN chats[c]
              ELSE [global.default EXCEPT
                      !.auto = IF c \in Group THEN global.group ELSE global.p2p]
  IN IF c \notin Group THEN base
     ELSE [base EXCEPT !.joined = IF observed = "present" THEN TRUE
                                  ELSE IF observed = "absent" THEN FALSE
                                  ELSE @]

(* can_download_resources *)
DownloadVerdict(c, observed) ==
  LET policy == Resolved(c, observed) IN
    IF ~policy.download THEN "disabled_by_chat_policy"
    ELSE IF ~policy.joined THEN "bot_not_joined" ELSE "ok"

(***************************************************************************)
(* resolve_reply_policy: the identity of an automatic reply, or "owner"    *)
(* when the owner has to decide.  `fit` says whether the agent may answer  *)
(* at all (its answerability, forbidden mentions, an empty reply), `direct`*)
(* whether the message mentions the owner.                                 *)
(***************************************************************************)
ReplyVerdict(c, observed, fit, direct) ==
  LET policy == Resolved(c, observed) IN
    CASE ~fit -> "owner"
      [] fit /\ c \notin Group -> IF global.p2p THEN "user" ELSE "owner"
      [] fit /\ c \in Group ->
           IF ~direct \/ ~policy.auto THEN "owner"
           ELSE IF policy.identity # "user" /\ policy.joined THEN "bot"
           ELSE IF policy.identity = "user" THEN "user"
           ELSE IF policy.identity = "bot_preferred" /\ policy.fallback THEN "user"
           ELSE "owner"
=============================================================================
