------------------------------- MODULE Resources -------------------------------
(***************************************************************************)
(* Downloaded resources: the row the store keeps of a resource, the file   *)
(* in resource_dir, the temporary files of downloads under way, the quota  *)
(* that guards the directory, and the retention that deletes what is old.  *)
(*                                                                         *)
(* The daemon downloads, one resource after the other, and prunes; an      *)
(* operator may prune from the command line at the same time.  The chat's  *)
(* policy and the bot's membership are those of module Membership.         *)
(***************************************************************************)
EXTENDS Membership

CONSTANTS
  Resource,
  ChatOf,     \* [Resource -> Chat]
  Size,       \* [Resource -> Nat]
  MaxSize,    \* storage.max_resource_bytes
  MaxDir,     \* storage.max_resource_dir_bytes
  Pruner,     \* processes that prune: the daemon and command lines
  Daemon,     \* the one that also downloads
  NoResource, NoRow

ASSUME ResourceAssumption ==
  /\ IsFiniteSet(Resource)
  /\ ChatOf \in [Resource -> Chat] /\ Size \in [Resource -> Nat]
  /\ MaxSize \in Nat /\ MaxDir \in Nat /\ Daemon \in Pruner

VARIABLES
  row,       \* [Resource -> Row or NoRow]
  file,      \* [Resource -> "none", "whole"]: the file at its final path
  parts,     \* resources of which a temporary file lies in resource_dir
  active,    \* resources of messages of an effectively watching task
  job,       \* the download under way
  blocked,   \* _quota_downloads_blocked: nothing more fits this tick
  prune      \* [Pruner -> the pruning under way]

fileVars == <<row, file, parts, active, job, blocked, prune>>
vars == <<allMemberVars, fileVars>>

DownloadStatus == {"downloaded", "skipped", "bot_not_joined", "bot_invisible",
                   "quota_exceeded", "too_large", "failed", "missing_file",
                   "expired"}
(* A row: its status, whether it has a path, and its age against the cutoff. *)
Row == [status: DownloadStatus, path: BOOLEAN, old: BOOLEAN]

NoJob == [resource |-> NoResource, step |-> "idle", left |-> {}]
NoPrune == [step |-> "idle", listed |-> {}, gone |-> {}]

SizeOf(S) == MapThenSumSet(LAMBDA r : Size[r], S)

(* resource_dir_usage_bytes: finished and temporary files alike. *)
Usage == SizeOf({r \in Resource : file[r] = "whole"}) + SizeOf(parts)

FilesInit ==
  /\ row = [r \in Resource |-> NoRow] /\ file = [r \in Resource |-> "none"]
  /\ parts = {} /\ active \in SUBSET Resource
  /\ job = NoJob /\ blocked = FALSE
  /\ prune = [p \in Pruner |-> NoPrune]

(* upsert_resource: status and path are overwritten, the file is not touched. *)
Upsert(r, status) ==
  row' = [row EXCEPT ![r] = [status |-> status, path |-> status = "downloaded",
                             old |-> FALSE]]

Done(j) == [j EXCEPT !.resource = NoResource, !.step = "ready"]
Step(name) == job' = [job EXCEPT !.step = name]

(* What a step of downloading or pruning leaves alone. *)
FactsKept == UNCHANGED allMemberVars

------------------------------------------------------------------------------
(* A tick has resources of new, edited or retried messages to process. *)
BeginDownloads ==
  /\ job.step = "idle" /\ prune[Daemon].step = "idle" /\ saving = NoNotice
  /\ Initialized
  /\ \E S \in SUBSET Resource \ {{}} : job' = [NoJob EXCEPT !.step = "ready", !.left = S]
  /\ blocked' = FALSE
  /\ FactsKept /\ UNCHANGED <<row, file, parts, active, prune>>

EndDownloads ==
  /\ job.step = "ready" /\ job.left = {}
  /\ job' = NoJob
  /\ FactsKept /\ UNCHANGED <<row, file, parts, active, blocked, prune>>

Verdict(r) == DownloadVerdict(ChatOf[r], Observed(ChatOf[r]))

(* _verified_existing_download *)
Verified(r) ==
  /\ row[r] # NoRow
  /\ row[r].status = "downloaded" /\ row[r].path /\ file[r] = "whole"

(* The gates before a download: policy, membership, quota, and whether the *)
(* file is there already.  Temporary files old enough are swept up first.  *)
Gate(r) ==
  /\ job.step = "ready" /\ r \in job.left /\ saving = NoNotice
  /\ parts' \in {parts, {}}
  /\ LET skip(status) == /\ Upsert(r, status)
                         /\ job' = [job EXCEPT !.left = @ \ {r}]
         full == SizeOf({x \in Resource : file[x] = "whole"}) + SizeOf(parts') >= MaxDir
     IN IF Verdict(r) = "disabled_by_chat_policy"
        THEN skip("skipped") /\ UNCHANGED blocked
        ELSE IF Verdict(r) = "bot_not_joined"
        THEN skip("bot_not_joined") /\ UNCHANGED blocked
        ELSE IF blocked
        THEN skip("quota_exceeded") /\ UNCHANGED blocked
        ELSE IF Verified(r)
        THEN job' = [job EXCEPT !.left = @ \ {r}] /\ UNCHANGED <<row, blocked>>
        ELSE IF full
        THEN skip("quota_exceeded") /\ blocked' = TRUE
        ELSE /\ job' = [job EXCEPT !.left = @ \ {r}, !.resource = r, !.step = "fetch"]
             /\ UNCHANGED <<row, blocked>>
  /\ FactsKept /\ UNCHANGED <<file, active, prune>>

(* The bot's download writes a temporary file ... *)
FetchOk ==
  /\ job.step = "fetch"
  /\ parts' = parts \cup {job.resource} /\ Step("fetched")
  /\ FactsKept /\ UNCHANGED <<row, file, active, blocked, prune>>

(* ... or fails, or says it did and leaves no file. *)
FetchFails ==
  /\ job.step = "fetch"
  /\ \E status \in {"failed", "missing_file"} : Upsert(job.resource, status)
  /\ job' = Done(job)
  /\ FactsKept /\ UNCHANGED <<file, parts, active, blocked, prune>>

(* Refused because the bot is not there: the row first, then the fact. *)
FetchRefused ==
  /\ job.step = "fetch" /\ ~member[ChatOf[job.resource]]
  /\ Upsert(job.resource, "bot_invisible") /\ Step("refused")
  /\ FactsKept /\ UNCHANGED <<file, parts, active, blocked, prune>>

RecordRefusal ==
  /\ job.step = "refused"
  /\ IF ChatOf[job.resource] \in Group THEN Refused(ChatOf[job.resource])
     ELSE UNCHANGED <<fact, saving>>
  /\ job' = Done(job)
  /\ UNCHANGED <<policyVars, member, told, lost, reply, crashes>>
  /\ UNCHANGED <<row, file, parts, active, blocked, prune>>

(* Variant: only the room before the download counts. *)
FitsBefore(r) == TRUE

(* after_download: the temporary file counts, the one it replaces does not. *)
Fits(r) == Usage - (IF file[r] = "whole" THEN Size[r] ELSE 0) <= MaxDir

Accept ==
  /\ job.step = "fetched"
  /\ LET r == job.resource
         drop(status) == /\ Upsert(r, status) /\ parts' = parts \ {r}
                         /\ job' = Done(job)
     IN IF Size[r] > MaxSize THEN drop("too_large") /\ UNCHANGED blocked
        ELSE IF ~Fits(r) THEN drop("quota_exceeded") /\ blocked' = TRUE
        ELSE Step("publish") /\ UNCHANGED <<row, parts, blocked>>
  /\ FactsKept /\ UNCHANGED <<file, active, prune>>

(* The temporary file is renamed to its final path, or cannot be. *)
Publish ==
  /\ job.step = "publish"
  /\ parts' = parts \ {job.resource}
  /\ \/ file' = [file EXCEPT ![job.resource] = "whole"] /\ Step("record")
        /\ UNCHANGED row
     \/ Upsert(job.resource, "failed") /\ job' = Done(job) /\ UNCHANGED file
  /\ FactsKept /\ UNCHANGED <<active, blocked, prune>>

RecordDownload ==
  /\ job.step = "record"
  /\ Upsert(job.resource, "downloaded") /\ job' = Done(job)
  /\ FactsKept /\ UNCHANGED <<file, parts, active, blocked, prune>>

(* The daemon dies; a temporary file it was writing stays. *)
CrashDownloads ==
  /\ job.step # "idle" /\ crashes > 0
  /\ crashes' = crashes - 1
  /\ job' = NoJob /\ blocked' = FALSE
  /\ parts' \in IF job.step = "fetch" THEN {parts, parts \cup {job.resource}}
                ELSE {parts}
  /\ UNCHANGED <<policyVars, member, fact, saving, told, lost, reply>>
  /\ UNCHANGED <<row, file, active, prune>>

------------------------------------------------------------------------------
(* The task of a message is opened or reopened, or its watch runs out. *)
Watch(r) ==
  /\ active' = IF r \in active THEN active \ {r} ELSE active \cup {r}
  /\ FactsKept /\ UNCHANGED <<row, file, parts, job, blocked, prune>>

(* The retention window of a resource passes. *)
Age(r) ==
  /\ row[r] # NoRow
  /\ ~row[r].old /\ row' = [row EXCEPT ![r].old = TRUE]
  /\ FactsKept /\ UNCHANGED <<file, parts, active, job, blocked, prune>>

(* list_prunable_resources *)
Prunable(r) ==
  /\ row[r] # NoRow
  /\ row[r].status = "downloaded" /\ row[r].path /\ row[r].old /\ r \notin active

BeginPrune(p) ==
  /\ prune[p].step = "idle"
  /\ p = Daemon => job.step = "idle"
  /\ LET due == {r \in Resource : Prunable(r)} IN
       /\ due # {}
       /\ prune' = [prune EXCEPT ![p] = [NoPrune EXCEPT !.step = "unlink", !.listed = due]]
  /\ FactsKept /\ UNCHANGED <<row, file, parts, active, job, blocked>>

(* One file is deleted, or was missing already, or cannot be deleted. *)
Unlink(p, r) ==
  /\ prune[p].step = "unlink" /\ r \in prune[p].listed
  /\ \/ /\ file' = [file EXCEPT ![r] = "none"]
        /\ prune' = [prune EXCEPT ![p].listed = @ \ {r}, ![p].gone = @ \cup {r}]
     \/ /\ file[r] = "whole" /\ UNCHANGED file
        /\ prune' = [prune EXCEPT ![p].listed = @ \ {r}]
  /\ FactsKept /\ UNCHANGED <<row, parts, active, job, blocked>>

(* Variant: only what is still there to be deleted is marked. *)
ExpiredDeleted(p) == [r \in Resource |->
  IF r \in prune[p].gone /\ file[r] = "whole"
  THEN [status |-> "expired", path |-> FALSE, old |-> FALSE] ELSE row[r]]

(* mark_resources_expired, by id and in one transaction. *)
Expired(p) == [r \in Resource |->
  IF r \in prune[p].gone
  THEN [status |-> "expired", path |-> FALSE, old |-> FALSE] ELSE row[r]]

MarkExpired(p) ==
  /\ prune[p].step = "unlink" /\ prune[p].listed = {}
  /\ row' = Expired(p)
  /\ prune' = [prune EXCEPT ![p] = NoPrune]
  /\ FactsKept /\ UNCHANGED <<file, parts, active, job, blocked>>

FilesNext ==
  \/ BeginDownloads \/ EndDownloads \/ FetchOk \/ FetchFails \/ FetchRefused
  \/ RecordRefusal \/ Accept \/ Publish \/ RecordDownload \/ CrashDownloads
  \/ \E r \in Resource : Gate(r) \/ Watch(r) \/ Age(r)
  \/ \E p \in Pruner : \/ BeginPrune(p) \/ MarkExpired(p)
                       \/ \E r \in Resource : Unlink(p, r)

Init == PolicyInit /\ MemberInit /\ FilesInit
Next == \/ PolicyNext /\ UNCHANGED <<memberVars, fileVars>>
        \/ MemberNext /\ job.step \in {"idle", "ready"}
                      /\ UNCHANGED <<policyVars, fileVars>>
        \/ FilesNext
Spec == Init /\ [][Next]_vars

(***************************************************************************)
(* The finished files never exceed the directory's budget, over replaced   *)
(* files, leftovers of crashed downloads and prunings in between.          *)
(***************************************************************************)
QuotaKept == SizeOf({r \in Resource : file[r] = "whole"}) <= MaxDir

(***************************************************************************)
(* What a row calls downloaded is there for the agent, except while a      *)
(* pruning that has deleted it is about to say so.                         *)
(***************************************************************************)
DownloadedIsThere ==
  \A r \in Resource :
    (row[r] # NoRow /\ row[r].status = "downloaded" /\ file[r] = "none")
       => \E p \in Pruner : r \in prune[p].gone
=============================================================================
