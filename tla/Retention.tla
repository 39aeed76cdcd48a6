------------------------------ MODULE Retention ------------------------------
(***************************************************************************)
(* The content of one task in the store, and the retention that scrubs it: *)
(* rows keep their identity and state, so that what still works on them -  *)
(* an approval, a dispatch, an operator's retry - meets empty content.     *)
(*                                                                         *)
(* prune scrubs all tables in one transaction; resource files are in       *)
(* Resources, log files in LogFiles.                                       *)
(***************************************************************************)
EXTENDS Naturals

CONSTANTS
  Days,          \* retention.raw_message_days
  FeedbackDays,  \* retention.feedback_content_days
  Window,        \* days a task stays watched after activity
  MayExpire      \* lifecycle.approval_timeout_hours is set

ASSUME RetentionAssumption ==
  {Days, FeedbackDays, Window} \subseteq Nat \ {0} /\ MayExpire \in BOOLEAN

VARIABLES
  content,  \* [Part -> none, whole or pruned]
  age,      \* [Part -> days since the date its scrubbing goes by]
  watched,  \* the task: its status is watching; days of its window left
  stage,    \* the message's session stage
  verdict,  \* the approval's status
  sending,  \* the action's status
  retry,    \* the processing retry's status
  used      \* history: what the agent was asked, approvals granted, dispatch sent

retentionVars == <<content, age, watched, stage, verdict, sending, retry, used>>

(* messages, tasks (labels, session, last texts), background versions,     *)
(* approvals, actions, approval_feedback and message_processing.           *)
Part == {"message", "task", "background", "approval", "action", "feedback", "marker"}
Limit(p) == IF p = "feedback" THEN FeedbackDays ELSE Days
Oldest == IF Days > FeedbackDays THEN Days ELSE FeedbackDays

RetentionInit ==
  /\ content = [p \in Part |-> IF p \in {"message", "task"} THEN "whole" ELSE "none"]
  /\ age = [p \in Part |-> 0]
  /\ watched = [open |-> TRUE, left |-> Window]
  /\ stage = "new" /\ verdict = "none" /\ sending = "none" /\ retry = "none"
  /\ used = {}

(* Rows of the parts P are written now, whole. *)
Written(P) ==
  /\ content' = [p \in Part |-> IF p \in P THEN "whole" ELSE content[p]]
  /\ age' = [p \in Part |-> IF p \in P THEN 0 ELSE age[p]]

(* A row's date moves on, its content stays what it is. *)
Dated(p) == age' = [age EXCEPT ![p] = 0] /\ UNCHANGED content

Uses(what) == used' = used \cup {what}
------------------------------------------------------------------------------
(* The session stage ends in a draft, a reply or a failure. *)
Outcome(asked) ==
  /\ Uses(<<asked, content["message"]>>)
  /\ \/ /\ verdict \in {"none", "approved", "rejected", "expired"}
        /\ stage' = "processed" /\ verdict' = "pending"
        /\ Written({"approval", "task", "marker"}) /\ UNCHANGED sending
     \/ /\ sending \in {"none", "sent", "cancelled"}
        /\ stage' = "processed" /\ sending' = "pending"
        /\ Written({"action", "task", "marker"}) /\ UNCHANGED verdict
     \/ stage' = "failed" /\ Written({"marker"}) /\ UNCHANGED <<verdict, sending>>

(* The prompt quotes the row, whatever was fetched: a delivery of a known  *)
(* revision leaves the row alone, scrubbed or not.                         *)
RunStage ==
  /\ stage = "new" /\ watched.open
  /\ Outcome("asked") /\ UNCHANGED <<watched, retry>>

RequestAgain ==
  /\ stage = "failed" /\ retry # "queued" /\ retry' = "queued"
  /\ UNCHANGED <<content, age, watched, stage, verdict, sending, used>>

(* Variant: a retry takes what the row holds for a message. *)
Anything == TRUE

(* The raw message still is one: the placeholder has no message_id. *)
Normalizes == content["message"] = "whole"

RunAgain ==
  /\ retry = "queued"
  /\ IF ~watched.open \/ ~Normalizes
     THEN retry' = (IF watched.open THEN "failed" ELSE "cancelled")
          /\ UNCHANGED <<content, age, stage, verdict, sending, used>>
     ELSE Outcome("retried")
          /\ retry' = IF stage' = "failed" THEN "failed" ELSE "succeeded"
  /\ UNCHANGED watched
------------------------------------------------------------------------------
(* /approve and /send need the reply target, /approve the text of the      *)
(* payload; a placeholder has neither and the command fails.               *)
Answerable == content["approval"] = "whole"

Grant ==
  /\ verdict = "pending" /\ sending \notin {"pending", "failed_needs_review"}
  /\ Answerable
  /\ verdict' = "approved" /\ sending' = "pending"
  /\ Uses(<<"granted", content["approval"]>>)
  /\ Written({"action", "feedback", "task"})
  /\ watched' = [watched EXCEPT !.open = TRUE]
  /\ UNCHANGED <<stage, retry>>

Refuse ==
  /\ verdict = "pending" /\ verdict' = "rejected"
  /\ Written({"feedback"})
  /\ \E open \in {watched.open, FALSE} : watched' = [watched EXCEPT !.open = open]
  /\ UNCHANGED <<stage, sending, retry, used>>

TimeOut ==
  /\ MayExpire /\ verdict = "pending" /\ age["approval"] > 0
  /\ verdict' = "expired"
  /\ UNCHANGED <<content, age, watched, stage, sending, retry, used>>

(* Variant: an empty text is sent. *)
PostAny ==
  /\ sending = "pending" /\ sending' = "sent"
  /\ Uses(<<"sent", content["action"]>>) /\ Dated("action")
  /\ UNCHANGED <<watched, stage, verdict, retry>>

(* _call_send refuses an action without text or target. *)
Post ==
  /\ sending = "pending"
  /\ \/ /\ content["action"] = "whole" /\ sending' = "sent"
        /\ Uses(<<"sent", content["action"]>>)
     \/ sending' \in {"failed", "failed_needs_review"} /\ UNCHANGED used
  /\ Dated("action")
  /\ UNCHANGED <<watched, stage, verdict, retry>>

(* retry_dispatch_action and cancel_dispatch_action look at the row's      *)
(* status and source, not at its content.                                  *)
PostAgain ==
  /\ sending \in {"failed", "failed_needs_review"} /\ sending' \in {"pending", "cancelled"}
  /\ Dated("action")
  /\ UNCHANGED <<watched, stage, verdict, retry, used>>
------------------------------------------------------------------------------
(* A follow-up, or the operator, opens the task again; the operator closes *)
(* it or describes its background.                                         *)
Renew ==
  /\ watched' = [open |-> TRUE, left |-> Window] /\ Written({"task"})
  /\ UNCHANGED <<stage, verdict, sending, retry, used>>

EndWatch ==
  /\ watched.open /\ watched' = [watched EXCEPT !.open = FALSE]
  /\ Dated("task")
  /\ UNCHANGED <<stage, verdict, sending, retry, used>>

Describe ==
  /\ Written({"background"})
  /\ UNCHANGED <<watched, stage, verdict, sending, retry, used>>

PassDay ==
  /\ age' = [p \in Part |-> IF age[p] < Oldest THEN age[p] + 1 ELSE Oldest]
  /\ watched' = [watched EXCEPT !.left = IF @ = 0 THEN 0 ELSE @ - 1]
  /\ UNCHANGED <<content, stage, verdict, sending, retry, used>>

(* list_effective_active_*: the task is watched and its window not over.   *)
Protected == watched.open /\ watched.left > 0

(* scrub_sensitive_content. *)
Scrub ==
  /\ ~Protected
  /\ content' = [p \in Part |-> IF content[p] = "whole" /\ age[p] >= Limit(p)
                                THEN "pruned" ELSE content[p]]
  /\ UNCHANGED <<age, watched, stage, verdict, sending, retry, used>>

RetentionNext ==
  \/ RunStage \/ RequestAgain \/ RunAgain \/ Grant \/ Refuse \/ TimeOut \/ Post \/ PostAgain
  \/ Renew \/ EndWatch \/ Describe \/ PassDay \/ Scrub

RetentionSpec == RetentionInit /\ [][RetentionNext]_retentionVars
------------------------------------------------------------------------------
(***************************************************************************)
(* Scrubbed content stays inert: no retry asks the agent about it, no      *)
(* approval of it grants a reply and no dispatch sends one, whatever       *)
(* state its row has kept and whoever watches the task again.  (A message  *)
(* whose first handling was interrupted and resumes after the scrubbing is *)
(* asked about with an empty text.)                                        *)
(***************************************************************************)
PrunedIsInert == \A u \in used : u[2] = "pruned" => u[1] = "asked"
=============================================================================
