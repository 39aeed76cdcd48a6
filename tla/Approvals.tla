----------------------------- MODULE Approvals -----------------------------
(***************************************************************************)
(* Approvals and the task that owns them: the owner's commands (inbox,     *)
(* card callbacks, console, CLI), expiry, takeover, close and reopen, the  *)
(* writes of an agent session, and the edits that make a draft stale.      *)
(*                                                                         *)
(* Atomicity.  db is the committed database; an operator over db is what   *)
(* one transaction makes of it, and transactions compose.  A transaction   *)
(* opens at the first write, so a SELECT before it is a step of its own.   *)
(* SAVEPOINT opens one too when none is open, and its RELEASE commits: an  *)
(* approval command is then applied in one transaction and recorded in     *)
(* approval_commands in the next.  If it first expired an overdue          *)
(* approval, everything happens in that one transaction.                   *)
(*                                                                         *)
(* One production task with one reply target and one source message.       *)
(* Notifications that no approval owns (conflicts, escalations, failures)  *)
(* are rows nothing here reads; their life is Dispatch's.                  *)
(***************************************************************************)
EXTENDS Naturals, FiniteSets

CONSTANTS
  Approval, Reply,  \* ids the tables approvals and actions may use
  Command,          \* command ids: message ids, card events, generated ids
  Client,           \* threads and processes that apply operator commands
  Daemon,           \* processes running the daemon loop
  Text,             \* reply texts
  Task,             \* the task's short id, as a command target
  Requests,         \* what the owner's commands may say
  NoText, NoApproval, NoCommand, NoRequest,
  MaxRevision,      \* bound: edits of the source message
  MaxFault          \* bound: crashes and lost lock races

RequestType == [verb : {"approve", "reject", "send"},
                target : Approval \cup {Task},
                outcome : {"default", "keep", "end"},   \* of a rejection
                text : Text \cup {NoText}]              \* of a send

ASSUME ApprovalsAssumption ==
  /\ MaxRevision \in Nat \ {0} /\ MaxFault \in Nat
  /\ Task \notin Approval /\ NoApproval \notin Approval
  /\ NoText \notin Text /\ NoCommand \notin Command
  /\ Requests \subseteq RequestType /\ NoRequest \notin Requests

VARIABLES
  db,       \* the tables, see Db
  source,   \* messages row of the source message: revision, is_deleted
  overdue,  \* approvals whose expires_at has passed
  request,  \* content of each command id
  client,   \* control state of each client
  daemon,   \* control state of each daemon
  faults    \* bound counter

vars == <<db, source, overdue, request, client, daemon, faults>>

-----------------------------------------------------------------------------
(* Data. *)

TaskStatus == {"watching", "closed", "closed_by_owner", "human_taken_over"}
ApprovalStatus == {"none", "pending", "approved", "rejected", "expired"}
ReplyStatus == {"none", "pending", "sending", "sent", "failed",
                "failed_needs_review", "cancelled"}
Origin == {"approval_request", "owner_send", "auto_reply"}
Revision == 0..MaxRevision      \* 0: not bound to a message

ApprovalRow ==
  [status : ApprovalStatus, rev : Revision,
   text : Text \cup {NoText},                      \* NoText: not approvable
   keep : BOOLEAN,                                 \* keep_watching_on_reject
   notice : {"none", "pending", "sent", "cancelled"}]
ReplyRow ==
  [status : ReplyStatus, rev : Revision, text : Text \cup {NoText},
   key : (Origin \X (Text \cup {NoText}) \X Revision) \cup {<<>>},
   approval : Approval \cup {NoApproval}]
Db == [task : TaskStatus,
       approval : [Approval -> ApprovalRow],
       reply : [Reply -> ReplyRow],
       feedback : SUBSET (Approval \X Command),
       recorded : [Command -> {"none", "applied", "failed"}],
       granted : [Approval -> Nat],    \* history: replies made per approval
       stale : SUBSET (Approval \X Command)]  \* history: found stale by

ClientState == [pc : {"idle", "apply", "record", "close", "reopen"},
                cmd : Command \cup {NoCommand},
                status : {"none", "applied", "failed"},
                late : SUBSET Approval]   \* overdue when it read the clock
DaemonState == [pc : {"idle", "agent", "request", "reply", "watch", "route",
                      "fence"},
                rev : Revision, text : Text \cup {NoText}, keep : BOOLEAN]

NoRow == [status |-> "none", rev |-> 0, text |-> NoText, keep |-> FALSE,
          notice |-> "none"]
NoReply == [status |-> "none", rev |-> 0, text |-> NoText, key |-> <<>>,
            approval |-> NoApproval]
IdleClient == [pc |-> "idle", cmd |-> NoCommand, status |-> "none", late |-> {}]
IdleDaemon == [pc |-> "idle", rev |-> 0, text |-> NoText, keep |-> FALSE]

Init ==
  /\ db = [task |-> "watching",
           approval |-> [p \in Approval |-> NoRow],
           reply |-> [a \in Reply |-> NoReply],
           feedback |-> {},
           recorded |-> [c \in Command |-> "none"],
           granted |-> [p \in Approval |-> 0],
           stale |-> {}]
  /\ source = [revision |-> 1, is_deleted |-> FALSE]
  /\ overdue = {}
  /\ request = [c \in Command |-> NoRequest]
  /\ client = [k \in Client |-> IdleClient]
  /\ daemon = [d \in Daemon |-> IdleDaemon]
  /\ faults = 0

Pending(s) == {p \in Approval : s.approval[p].status = "pending"}
Unused(s) == {p \in Approval : s.approval[p].status = "none"}

\* _source_payload_is_stale_locked.  Mutant: only a deletion is noticed.
DeletedOnly(r) == r # 0 /\ source.is_deleted
IsStale(r) == r # 0 /\ (source.is_deleted \/ source.revision # r)

\* _latest_external_task_message_locked: the revision a fresh reply binds to.
LatestRevision == IF source.is_deleted THEN 0 ELSE source.revision

-----------------------------------------------------------------------------
(* Transactions on approvals and their actions: s is the database before. *)

WithTask(s, status) == [s EXCEPT !.task = status]

\* Pending notices and replies of the approvals in S.
CancelActions(s, S) ==
  [s EXCEPT
     !.approval = [p \in Approval |->
        IF p \in S /\ s.approval[p].notice = "pending"
        THEN [s.approval[p] EXCEPT !.notice = "cancelled"] ELSE s.approval[p]],
     !.reply = [a \in Reply |->
        IF s.reply[a].approval \in S /\ s.reply[a].status = "pending"
        THEN [s.reply[a] EXCEPT !.status = "cancelled"] ELSE s.reply[a]]]

CancelReplies(s, from) ==
  [s EXCEPT !.reply = [a \in Reply |->
     IF s.reply[a].status \in from
     THEN [s.reply[a] EXCEPT !.status = "cancelled"] ELSE s.reply[a]]]

\* UPDATE approvals SET status = 'expired' ... AND status = 'pending', and the
\* cancellation of what belongs to them.  Mutant: the notices stay.
ExpiredOnly(s, S) ==
  [s EXCEPT !.approval = [p \in Approval |->
     IF p \in S \cap Pending(s)
     THEN [s.approval[p] EXCEPT !.status = "expired"] ELSE s.approval[p]]]
Expired(s, S) ==
  LET hit == S \cap Pending(s)
  IN CancelActions([s EXCEPT !.approval = [p \in Approval |->
       IF p \in hit THEN [s.approval[p] EXCEPT !.status = "expired"]
       ELSE s.approval[p]]], hit)

\* The task ends: every pending approval expires, replies in from are dropped.
Ended(s, status, from) ==
  CancelReplies(Expired(WithTask(s, status), Approval), from)

InFlight == {"pending", "sending"}
\* Mutant: the task gets the status of a cancelled action.
TakenOverLikeReply(s) == Ended(s, "cancelled", InFlight)
TakenOver(s) == Ended(s, "human_taken_over", InFlight)
\* The operator's close also drops every pending notice of the task.
ClosedByOperator(s) ==
  CancelActions(Ended(s, "closed_by_owner", InFlight), Approval)
\* Only a watching task is escalated; the check and the write are one
\* transaction.
Escalated(s) == IF s.task = "watching" THEN Ended(s, "closed", InFlight) ELSE s

\* create_send_reply_approval with its notification.
Requested(s, p, r, t, keep) ==
  [s EXCEPT !.approval[p] = [status |-> "pending", rev |-> r, text |-> t,
                             keep |-> keep, notice |-> "pending"]]

-----------------------------------------------------------------------------
(* Creation of a reply. *)

HasActive(s, r) ==
  \E a \in Reply : /\ s.reply[a].status \in {"pending", "sending", "failed_needs_review"}
                   /\ s.reply[a].rev \in {0, r}
AlreadySent(s, t, r) ==
  \E a \in Reply : /\ s.reply[a].status = "sent" /\ s.reply[a].text = t
                   /\ r = 0 \/ s.reply[a].rev = r
Failed(s, t) ==
  {a \in Reply : s.reply[a].status = "failed" /\ s.reply[a].text = t}
KeyTaken(s, key) == \E a \in Reply : s.reply[a].key = key

\* _create_send_reply_action_locked returns an id ...
CanReply(s, t, r, o) ==
  /\ ~AlreadySent(s, t, r) /\ ~HasActive(s, r)
  /\ Failed(s, t) # {} \/ ~KeyTaken(s, <<o, t, r>>)

\* ... of a revived or of a new row.  (Bound: none if no row id is left.)
WithReply(s, p, t, r, o) ==
  LET rows == IF Failed(s, t) # {}
              THEN {[id |-> a, key |-> s.reply[a].key] : a \in Failed(s, t)}
              ELSE {[id |-> a, key |-> <<o, t, r>>] :
                      a \in {b \in Reply : s.reply[b].status = "none"}}
      Row(key) == [status |-> "pending", rev |-> r, text |-> t, key |-> key,
                   approval |-> p]
  IN {[s EXCEPT !.reply[n.id] = Row(n.key),
                !.granted = [q \in Approval |->
                   IF q = p THEN s.granted[q] + 1 ELSE s.granted[q]]] : n \in rows}

-----------------------------------------------------------------------------
(* _apply_approval_command_locked. *)

\* The pending approvals a target names.
Named(s, target) == IF target = Task THEN Pending(s) ELSE {target} \cap Pending(s)

\* approval_feedback's unique columns.  Mutant: only the approval is unique.
OneFeedback(s, p, c) == \A f \in s.feedback : f[1] # p
FeedbackFree(s, p, c) == \A f \in s.feedback : f[1] # p /\ f[2] # c

\* An approved approval and its reply have been written: the rest of it.
Granted(s, p, c) ==
  [s EXCEPT !.task = "watching", !.feedback = @ \cup {<<p, c>>}]

\* Mutant: the reply is created, the approval row is forgotten.
StillPending(s, p, c) ==
  LET a == s.approval[p] IN
  {Granted(t, p, c) : t \in WithReply(s, p, a.text, a.rev, "approval_request")}
Approved(s, p, c) ==
  LET a == s.approval[p] IN
  {Granted(t, p, c) :
     t \in WithReply([s EXCEPT !.approval[p].status = "approved"],
                     p, a.text, a.rev, "approval_request")}

\* A rejection keeps watching if the command or, by default, the approval says so.
KeepsWatching(s, p, rq) ==
  rq.outcome = "keep" \/ (rq.outcome = "default" /\ s.approval[p].keep)

\* Otherwise the task ends with everything pending.
Rejected(s, p, c, keep) ==
  LET t == [s EXCEPT !.approval[p].status = "rejected",
                     !.feedback = @ \cup {<<p, c>>}]
  IN IF keep THEN CancelActions(WithTask(t, "watching"), {p})
     ELSE CancelActions(Ended(t, "closed", {"pending"}), {p})

\* /send with an approval: its text is replaced, its binding kept.
Sent(s, p, c, text) ==
  {Granted(t, p, c) :
     t \in WithReply([s EXCEPT !.approval[p].status = "approved",
                               !.approval[p].text = text],
                     p, text, s.approval[p].rev, "owner_send")}

\* /send without one: a new approved approval, bound to the latest message.
SentFresh(s, c, text) ==
  UNION {{Granted(t, p, c) :
            t \in WithReply([s EXCEPT !.approval[p] =
                               [NoRow EXCEPT !.status = "approved", !.text = text,
                                             !.rev = LatestRevision]],
                            p, text, LatestRevision, "owner_send")} :
         p \in Unused(s)}

FoundStale(s, p, c) == [Expired(s, {p}) EXCEPT !.stale = @ \cup {<<p, c>>}]

\* More than one approval is pending: nothing but a conflict notice.
Conflict(s, rq) == \E p, q \in Named(s, rq.target) : p # q

\* The handler raises, and the savepoint is rolled back.
Raises(s, c, rq) ==
  LET named == Named(s, rq.target) IN
  \/ rq.verb # "send" /\ named = {}
  \/ rq.verb = "send" /\ (rq.text = NoText \/ s.task # "watching")
  \/ rq.verb = "send" /\ named = {} /\ rq.target # Task
  \/ rq.verb = "send" /\ named = {}
     /\ ~(CanReply(s, rq.text, LatestRevision, "owner_send")
          /\ \A p \in Unused(s) : FeedbackFree(s, p, c))
  \/ \E p \in named :
       LET a == s.approval[p] IN
       /\ ~Conflict(s, rq) /\ ~IsStale(a.rev)
       /\ \/ ~FeedbackFree(s, p, c)
          \/ rq.verb = "approve"
             /\ ~(/\ s.task = "watching" /\ a.text # NoText
                  /\ CanReply(s, a.text, a.rev, "approval_request"))
          \/ rq.verb = "send" /\ ~CanReply(s, rq.text, a.rev, "owner_send")

\* What the handler may commit when it does not raise.
Effects(s, c, rq) ==
  LET named == Named(s, rq.target) IN
  IF Conflict(s, rq) THEN {s}
  ELSE IF named = {} THEN SentFresh(s, c, rq.text)
  ELSE LET p == CHOOSE q \in named : TRUE IN
       IF IsStale(s.approval[p].rev) THEN {FoundStale(s, p, c)}
       ELSE CASE rq.verb = "approve" -> Approved(s, p, c)
              [] rq.verb = "reject" -> {Rejected(s, p, c, KeepsWatching(s, p, rq))}
              [] rq.verb = "send" -> Sent(s, p, c, rq.text)

\* The savepoint section as a set of [db, status] pairs.
Outcomes(s, c, rq) ==
  IF Raises(s, c, rq) THEN {[db |-> s, status |-> "failed"]}
  ELSE {[db |-> t, status |-> IF Conflict(s, rq) THEN "failed" ELSE "applied"] :
          t \in Effects(s, c, rq)}

Recorded(s, c, status) == [s EXCEPT !.recorded[c] = status]

-----------------------------------------------------------------------------
(* apply_approval_command, by any client. *)

\* Rejecting an approval that keeps watching does not expire its task's others.
SparesTask(s, rq) ==
  rq.verb = "reject" /\ \E p \in Named(s, rq.target) : s.approval[p].keep

\* _expire_pending_approvals_locked's list.  Mutants: no rejection spares any;
\* the command is applied before the expiry.
LapsedAlways(s, rq) == overdue \cap Pending(s)
LapsedLater(s, rq) == {}
Lapsed(s, rq) == IF SparesTask(s, rq) THEN {} ELSE overdue \cap Pending(s)

SetClient(k, rec) == client' = [client EXCEPT ![k] = rec]

\* Nothing is overdue: no transaction is open yet, the duplicate check is a
\* SELECT of its own.  A duplicate returns.
Begin(k, c, rq) ==
  /\ client[k].pc = "idle" /\ request[c] \in {NoRequest, rq}
  /\ Lapsed(db, rq) = {} /\ db.recorded[c] = "none"
  /\ request' = [request EXCEPT ![c] = rq]
  /\ SetClient(k, [IdleClient EXCEPT !.pc = "apply", !.cmd = c, !.late = overdue])
  /\ UNCHANGED <<db, source, overdue, daemon, faults>>

\* Something is overdue: one transaction expires, checks, applies, records.
ApplyWithExpiry(k, c, rq) ==
  LET s == Expired(db, Lapsed(db, rq)) IN
  /\ client[k].pc = "idle" /\ request[c] \in {NoRequest, rq}
  /\ Lapsed(db, rq) # {}
  /\ request' = [request EXCEPT ![c] = rq]
  /\ IF db.recorded[c] # "none" THEN db' = s
     ELSE \E o \in Outcomes(s, c, rq) : db' = Recorded(o.db, c, o.status)
  /\ UNCHANGED <<source, overdue, client, daemon, faults>>

\* SAVEPOINT ... RELEASE, which commits.
Apply(k) ==
  LET c == client[k].cmd IN
  /\ client[k].pc = "apply"
  /\ \E o \in Outcomes(db, c, request[c]) :
       /\ db' = o.db
       /\ SetClient(k, [client[k] EXCEPT !.pc = "record", !.status = o.status])
  /\ UNCHANGED <<source, overdue, request, daemon, faults>>

\* Another connection holds the write lock: that exception is a failure too.
LockFails(k) ==
  /\ client[k].pc = "apply" /\ faults < MaxFault
  /\ faults' = faults + 1
  /\ SetClient(k, [client[k] EXCEPT !.pc = "record", !.status = "failed"])
  /\ UNCHANGED <<db, source, overdue, request, daemon>>

\* INSERT INTO approval_commands; if the id is taken by now, it raises.
Record(k) ==
  LET c == client[k].cmd IN
  /\ client[k].pc = "record"
  /\ db' = IF db.recorded[c] = "none" THEN Recorded(db, c, client[k].status) ELSE db
  /\ SetClient(k, IdleClient)
  /\ UNCHANGED <<source, overdue, request, daemon, faults>>

ClientCrash(k) ==
  /\ client[k].pc \in {"apply", "record"} /\ faults < MaxFault
  /\ faults' = faults + 1
  /\ SetClient(k, IdleClient)
  /\ UNCHANGED <<db, source, overdue, request, daemon>>

-----------------------------------------------------------------------------
(* close_task_by_operator, reopen_task_by_operator: SELECT, then UPDATE. *)

BeginClose(k) ==
  /\ client[k].pc = "idle" /\ db.task = "watching"
  /\ SetClient(k, [IdleClient EXCEPT !.pc = "close"])
  /\ UNCHANGED <<db, source, overdue, request, daemon, faults>>
EndClose(k) ==
  /\ client[k].pc = "close"
  /\ db' = ClosedByOperator(db)
  /\ SetClient(k, IdleClient)
  /\ UNCHANGED <<source, overdue, request, daemon, faults>>

BeginReopen(k) ==
  /\ client[k].pc = "idle" /\ db.task # "watching"
  /\ SetClient(k, [IdleClient EXCEPT !.pc = "reopen"])
  /\ UNCHANGED <<db, source, overdue, request, daemon, faults>>
EndReopen(k) ==
  /\ client[k].pc = "reopen"
  /\ db' = WithTask(db, "watching")
  /\ SetClient(k, IdleClient)
  /\ UNCHANGED <<source, overdue, request, daemon, faults>>

-----------------------------------------------------------------------------
(* The daemon thread: sessions, routing, ingestion and expiry in turn. *)

SetDaemon(d, rec) == daemon' = [daemon EXCEPT ![d] = rec]
Goto(d, pc) == SetDaemon(d, [daemon[d] EXCEPT !.pc = pc])

\* _run_task_session: a message was routed to the watching task and the agent
\* is called.  The call takes minutes and holds no transaction.
StartSession(d) ==
  /\ daemon[d].pc = "idle"
  /\ db.task = "watching" /\ ~source.is_deleted
  /\ SetDaemon(d, [IdleDaemon EXCEPT !.pc = "agent", !.rev = source.revision])
  /\ UNCHANGED <<db, source, overdue, request, client, faults>>

\* needs_owner, a bad target or a failed postprocess (which keeps watching on
\* reject): update_task_after_agent, then request_send_reply.
AnswerApproval(d, t, keep) ==
  /\ daemon[d].pc = "agent"
  /\ db' = WithTask(db, "watching")
  /\ SetDaemon(d, [daemon[d] EXCEPT !.pc = "request", !.text = t, !.keep = keep])
  /\ UNCHANGED <<source, overdue, request, client, faults>>

\* A correction of a reply sent for an earlier revision: the other way round.
AnswerCorrection(d, t) ==
  /\ daemon[d].pc = "agent"
  /\ \E a \in Reply : db.reply[a].status = "sent" /\ db.reply[a].rev < daemon[d].rev
  /\ \E p \in Unused(db) : db' = Requested(db, p, daemon[d].rev, t, FALSE)
  /\ Goto(d, "watch")
  /\ UNCHANGED <<source, overdue, request, client, faults>>

\* The gate allows a direct reply; watch_action may close the task.
AnswerReply(d, t, status) ==
  /\ daemon[d].pc = "agent"
  /\ db' = WithTask(db, status)
  /\ SetDaemon(d, [daemon[d] EXCEPT !.pc = "reply", !.text = t])
  /\ UNCHANGED <<source, overdue, request, client, faults>>

\* no_reply, or a review notice without an approval.
AnswerQuiet(d, status) ==
  /\ daemon[d].pc = "agent"
  /\ db' = WithTask(db, status)
  /\ SetDaemon(d, IdleDaemon)
  /\ UNCHANGED <<source, overdue, request, client, faults>>

\* close_task_for_owner_escalation.
AnswerEscalate(d) ==
  /\ daemon[d].pc = "agent"
  /\ db' = Escalated(db)
  /\ SetDaemon(d, IdleDaemon)
  /\ UNCHANGED <<source, overdue, request, client, faults>>

\* The session's second write.  (Bound: dropped when no row id is left.)
Write(d) ==
  LET r == daemon[d].rev  t == daemon[d].text IN
  /\ \/ /\ daemon[d].pc = "request"
        /\ IF Unused(db) = {} THEN db' = db
           ELSE \E p \in Unused(db) : db' = Requested(db, p, r, t, daemon[d].keep)
     \/ /\ daemon[d].pc = "reply"
        /\ LET new == WithReply(db, NoApproval, t, r, "auto_reply") IN
           IF CanReply(db, t, r, "auto_reply") /\ new # {}
           THEN db' \in new ELSE db' = db
     \/ daemon[d].pc = "watch" /\ db' = WithTask(db, "watching")
  /\ SetDaemon(d, IdleDaemon)
  /\ UNCHANGED <<source, overdue, request, client, faults>>

\* The router is asked about a closed candidate ...
BeginRoute(d) ==
  /\ daemon[d].pc = "idle" /\ db.task = "closed"
  /\ Goto(d, "route")
  /\ UNCHANGED <<db, source, overdue, request, client, faults>>
\* ... and may answer reopen_task.
EndRoute(d, status) ==
  /\ daemon[d].pc = "route"
  /\ db' = WithTask(db, status)
  /\ SetDaemon(d, IdleDaemon)
  /\ UNCHANGED <<source, overdue, request, client, faults>>

\* Ingestion stores an edit or a tombstone, and fences what is bound to older
\* revisions in a second transaction.
Upsert(d, deleted) ==
  /\ daemon[d].pc = "idle"
  /\ ~source.is_deleted /\ source.revision < MaxRevision
  /\ source' = [revision |-> source.revision + 1, is_deleted |-> deleted]
  /\ Goto(d, "fence")
  /\ UNCHANGED <<db, overdue, request, client, faults>>

Fenced(s) ==
  LET old == {p \in Pending(s) : s.approval[p].rev \notin {0, source.revision}}
      t == Expired(s, old)
  IN [t EXCEPT !.reply = [a \in Reply |->
        CASE t.reply[a].rev \in {0, source.revision} -> t.reply[a]
          [] t.reply[a].status \in {"pending", "failed"} ->
               [t.reply[a] EXCEPT !.status = "cancelled"]
          [] t.reply[a].status = "sending" ->
               [t.reply[a] EXCEPT !.status = "failed_needs_review"]
          [] OTHER -> t.reply[a]]]

Invalidate(d) ==
  /\ daemon[d].pc = "fence"
  /\ db' = Fenced(db)
  /\ SetDaemon(d, IdleDaemon)
  /\ UNCHANGED <<source, overdue, request, client, faults>>

\* The owner wrote into the chat himself.
TakeOver(d) ==
  /\ daemon[d].pc = "idle" /\ db.task = "watching"
  /\ db' = TakenOver(db)
  /\ UNCHANGED <<source, overdue, request, client, daemon, faults>>

\* The process dies in the middle of a session, a routing or an ingestion.
DaemonCrash(d) ==
  /\ daemon[d].pc # "idle" /\ faults < MaxFault
  /\ faults' = faults + 1
  /\ SetDaemon(d, IdleDaemon)
  /\ UNCHANGED <<db, source, overdue, request, client>>

PassDeadline(p) ==
  /\ p \in Pending(db) \ overdue
  /\ overdue' = overdue \cup {p}
  /\ UNCHANGED <<db, source, request, client, daemon, faults>>

\* expire_pending_approvals: at the start of a daemon tick, or by the
\* operator's maintenance command.  Mutant: spares what keeps watching.
DueUnlessKept == {p \in overdue \cap Pending(db) : ~db.approval[p].keep}
Due == overdue \cap Pending(db)
ExpireApprovals ==
  /\ Due # {}
  /\ db' = Expired(db, Due)
  /\ UNCHANGED <<source, overdue, request, client, daemon, faults>>

\* What dispatch and the dispatch commands do to a row (module Dispatch).
Moves(s, a) ==
  CASE s.reply[a].status = "pending" -> {"sending", "cancelled"}
    [] s.reply[a].status = "sending" ->
         {"sent", "failed", "failed_needs_review", "cancelled"}
    [] s.reply[a].status \in {"failed", "failed_needs_review"} ->
         {"sent", "cancelled"} \cup
         IF IsStale(s.reply[a].rev)
            \/ (s.reply[a].status = "failed" /\ HasActive(s, s.reply[a].rev))
         THEN {} ELSE {"pending"}
    [] OTHER -> {}
DispatchReply(a) ==
  /\ \E st \in Moves(db, a) : db' = [db EXCEPT !.reply[a].status = st]
  /\ UNCHANGED <<source, overdue, request, client, daemon, faults>>
DispatchNotice(p) ==
  /\ db.approval[p].notice = "pending"
  /\ db' = [db EXCEPT !.approval[p].notice = "sent"]
  /\ UNCHANGED <<source, overdue, request, client, daemon, faults>>

-----------------------------------------------------------------------------
ClientStep(k) ==
  \/ \E c \in Command, rq \in Requests : Begin(k, c, rq) \/ ApplyWithExpiry(k, c, rq)
  \/ Apply(k) \/ LockFails(k) \/ Record(k) \/ ClientCrash(k)
  \/ BeginClose(k) \/ EndClose(k) \/ BeginReopen(k) \/ EndReopen(k)

\* The steps that bring a session, a routing or an ingestion to its end.
Proceed(d) ==
  \/ \E t \in Text \cup {NoText}, keep \in BOOLEAN : AnswerApproval(d, t, keep)
  \/ \E t \in Text \cup {NoText} : AnswerCorrection(d, t)
  \/ \E t \in Text, st \in {"watching", "closed"} : AnswerReply(d, t, st)
  \/ \E st \in {"watching", "closed"} : AnswerQuiet(d, st)
  \/ AnswerEscalate(d)
  \/ Write(d)
  \/ \E st \in {"watching", db.task} : EndRoute(d, st)
  \/ Invalidate(d)

Next ==
  \/ \E k \in Client : ClientStep(k)
  \/ \E d \in Daemon :
       \/ StartSession(d) \/ Proceed(d) \/ BeginRoute(d) \/ TakeOver(d)
       \/ \E deleted \in BOOLEAN : Upsert(d, deleted)
       \/ DaemonCrash(d)
  \/ \E p \in Approval : PassDeadline(p) \/ DispatchNotice(p)
  \/ \E a \in Reply : DispatchReply(a)
  \/ ExpireApprovals

Spec == Init /\ [][Next]_vars

\* The daemon loop begins every tick with the expiry and every stage of a tick
\* ends (agent calls time out).  Nothing is assumed of owners and operators.
FairSpec ==
  /\ Spec
  /\ \A d \in Daemon : /\ WF_vars(Proceed(d))
                       /\ SF_vars(daemon[d].pc = "idle" /\ ExpireApprovals)

-----------------------------------------------------------------------------
(* Properties. *)

TypeOK ==
  /\ db \in Db
  /\ source \in [revision : 1..MaxRevision, is_deleted : BOOLEAN]
  /\ overdue \subseteq Approval
  /\ request \in [Command -> Requests \cup {NoRequest}]
  /\ client \in [Client -> ClientState]
  /\ daemon \in [Daemon -> DaemonState]
  /\ faults \in 0..MaxFault

\* "Owner resolution writes exactly one immutable feedback outcome": an
\* approval is approved or rejected exactly when one feedback row names it, and
\* no command resolved two, through redelivery, crashes and concurrent clients.
FeedbackMatchesDecision ==
  /\ \A p \in Approval :
       db.approval[p].status \in {"approved", "rejected"}
       <=> \E c \in Command : <<p, c>> \in db.feedback
  /\ \A f, g \in db.feedback : (f[1] = g[1]) = (f[2] = g[2])

\* Approvals implements Decisions: settled once, one reply per grant, and never
\* two decisions in one transaction.
Ledger == INSTANCE Decisions WITH
  verdict <- [p \in Approval |-> db.approval[p].status], granted <- db.granted
KeepsDecisions == Ledger!Spec

\* The reply an approval grants is for the source as it is at that moment: a
\* decision that raced an edit or a deletion grants nothing.
GrantsAreCurrent ==
  [][\A p \in Approval : db'.granted[p] # db.granted[p]
       => \/ db'.approval[p].rev = 0
          \/ db'.approval[p].rev = source.revision /\ ~source.is_deleted]_vars

\* Rejecting a draft whose postprocessing failed (keep) leaves every other
\* approval of the task alone, overdue ones included.
KeepRejectSparesOthers ==
  [][\A p \in Approval :
       /\ db.approval[p].status = "pending" /\ db'.approval[p].status = "rejected"
       /\ db.approval[p].keep /\ db'.task = "watching"
       => \A q \in Approval \ {p} : db'.approval[q] = db.approval[q]]_vars

\* An approval that was overdue when a command read the clock is not approved
\* by it, whichever of its transactions the deadline and expiry fall between.
OverdueNotApproved ==
  [][\A p \in Approval :
       db.approval[p].status = "pending" /\ db'.approval[p].status = "approved"
       => p \notin overdue \/ \E k \in Client : client[k].pc = "apply"
                                                /\ p \notin client[k].late]_vars

\* The owner is not asked to decide what has expired.
ExpiredNotAnnounced ==
  \A p \in Approval : db.approval[p].status = "expired"
                      => db.approval[p].notice # "pending"

\* An overdue approval does not stay pending, whatever sessions, crashes and
\* commands come between.
OverdueSettles ==
  \A p \in Approval : p \in overdue ~> p \notin Pending(db)
=============================================================================
