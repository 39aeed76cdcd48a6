------------------------------ MODULE Dispatch ------------------------------
(***************************************************************************)
(* The dispatch core: how a row of the actions table becomes at most one   *)
(* Feishu message.  The state is the tables actions, dispatch_attempts and *)
(* the revision columns of messages; the processes are the dispatchers     *)
(* (Dispatcher.dispatch, run once per daemon tick; no lock keeps a second  *)
(* `daemon --once` out), operator commands (console threads and CLI        *)
(* processes), ingestion, the owner's takeover and the creators of rows.   *)
(*                                                                         *)
(* Atomicity.  SQLiteStore.connect uses Python's default isolation, which  *)
(* opens a transaction at the first INSERT, UPDATE or DELETE.  A method    *)
(* that SELECTs first and writes afterwards is therefore two steps here    *)
(* whenever the write does not repeat the condition it read.               *)
(*                                                                         *)
(* One task, one reply target and one source message are modelled: rows of *)
(* other slots never meet in any guard.                                    *)
(***************************************************************************)
EXTENDS Naturals, FiniteSets

CONSTANTS
  Action,       \* ids the actions table may use
  Dispatcher,   \* processes running Dispatcher.dispatch
  Operator,     \* concurrent operator command calls
  Text,         \* reply texts
  NoAction, NoText, NoKey,
  MaxRevision,  \* bound: edits of the source message
  MaxAttempt,   \* bound: dispatch attempts of one action
  MaxFault      \* bound: crashes and failed notification inserts

ASSUME DispatchAssumption ==
  /\ MaxRevision \in Nat \ {0} /\ MaxAttempt \in Nat \ {0} /\ MaxFault \in Nat
  /\ NoAction \notin Action /\ NoText \notin Text

VARIABLES
  row,        \* actions table
  attempt,    \* dispatch_attempts: attempt[a][n] is the n-th attempt of a
  tries,      \* id of the latest attempt of each action
  source,     \* messages row of the source message: revision, is_deleted
  fence,      \* ingestion stored a change and has not yet invalidated
  aged,       \* rows untouched for stale_after_seconds
  disp,       \* control state of each dispatcher
  op,         \* control state of each operator command
  grants,     \* history: times a row was made pending by a decision
  delivered,  \* external: attempts whose provider call posted a message
  faults      \* bound counter of crashes

vars == <<row, attempt, tries, source, fence, aged, disp, op, grants,
          delivered, faults>>
tables == <<row, attempt, tries, aged>>

-----------------------------------------------------------------------------
(* Data. *)

Mode == {"production", "dry_run"}
Status == {"none", "pending", "sending", "sent", "failed",
           "failed_needs_review", "cancelled"}
AttemptNo == 1..MaxAttempt

\* Idempotency keys: of a reply, and the dedupe key of a failure notice
\* ("dispatch:<action>:attempt:<n>"; n = 0 stands for ":stale_recovery").
ReplyKey == {"reply"} \X Text \X (1..MaxRevision) \X Mode
NoticeKey == {"notice"} \X Action \X (0..MaxAttempt)

Row == [kind : {"none", "send_reply", "owner_notification"}, status : Status,
        mode : Mode, rev : 0..MaxRevision, text : Text \cup {NoText},
        key : ReplyKey \cup NoticeKey \cup {NoKey}]
AttemptStatus == {"none", "started", "dry_run_ok", "send_ok", "readback_ok",
                  "failed", "uncertain"}
Attempt == [status : AttemptStatus, finished : BOOLEAN,
            sent_message_id : BOOLEAN,
            calls : Nat,        \* history: provider calls made
            stale : BOOLEAN]    \* history: superseded when it was claimed
Stale == [act : Action, try : AttemptNo, proven : BOOLEAN, open : BOOLEAN]
Pc == {"idle", "recover", "scan", "claimed", "guard", "send", "report",
       "readback", "finish", "write"}
Report == {"none", "ok", "no_id", "rejected", "unknown"}
Outcome == {"none", "sent", "failed", "failed_needs_review", "cancelled"}
Disp == [pc : Pc, act : Action \cup {NoAction}, try : 0..MaxAttempt,
         rev : 0..MaxRevision, report : Report, outcome : Outcome,
         seen : Status, stale : SUBSET Stale, todo : SUBSET NoticeKey]
Op == [cmd : {"none", "retry", "cancel", "mark_sent"},
       act : Action \cup {NoAction}]

EmptyRow == [kind |-> "none", status |-> "none", mode |-> "production",
             rev |-> 0, text |-> NoText, key |-> NoKey]
NoAttempt == [status |-> "none", finished |-> FALSE,
              sent_message_id |-> FALSE, calls |-> 0, stale |-> FALSE]
IdleDisp == [pc |-> "idle", act |-> NoAction, try |-> 0, rev |-> 0,
             report |-> "none", outcome |-> "none", seen |-> "none",
             stale |-> {}, todo |-> {}]
IdleOp == [cmd |-> "none", act |-> NoAction]

IsReply(a) == row[a].kind = "send_reply"
Active == {"pending", "sending", "failed_needs_review"}

\* The revision a row is bound to is still the stored, undeleted one.
Current(r) == ~source.is_deleted /\ source.revision = r

\* Mutant: forgets that a reply under review still occupies the slot.
HasActiveNotReviewed(m, r, a) ==
  \E b \in Action \ {a} : /\ IsReply(b) /\ row[b].status \in {"pending", "sending"}
                          /\ row[b].mode = m /\ row[b].rev = r

\* Another active reply in the slot (task, target, mode, source revision);
\* also the condition of idx_actions_active_send_reply_target.
HasActive(m, r, a) ==
  \E b \in Action \ {a} : /\ IsReply(b) /\ row[b].status \in Active
                          /\ row[b].mode = m /\ row[b].rev = r

SetStatus(a, s) == row' = [row EXCEPT ![a].status = s]

Init ==
  /\ row = [a \in Action |-> EmptyRow]
  /\ attempt = [a \in Action |-> [n \in AttemptNo |-> NoAttempt]]
  /\ tries = [a \in Action |-> 0]
  /\ source = [revision |-> 1, is_deleted |-> FALSE]
  /\ fence = FALSE
  /\ aged = {}
  /\ disp = [d \in Dispatcher |-> IdleDisp]
  /\ op = [o \in Operator |-> IdleOp]
  /\ grants = [a \in Action |-> 0]
  /\ delivered = {}
  /\ faults = 0

-----------------------------------------------------------------------------
(* Rows are created. *)

Granted(a) == grants' = [grants EXCEPT ![a] = @ + 1]

\* UPDATE of a failed row: payload and binding are the new ones, the
\* idempotency key is kept.
Revive(a, r) ==
  /\ row' = [row EXCEPT ![a].status = "pending", ![a].rev = r]
  /\ Granted(a)

Insert(a, new) ==
  /\ row[a].kind = "none"
  /\ row' = [row EXCEPT ![a] = new]
  /\ Granted(a)

\* A reply with text t for the source revision r its creator worked on.  A
\* text already sent for that revision creates nothing; a failed row with the
\* same text is revived; otherwise a row is inserted unless its key is taken.
CreateReply(t, m, r) ==
  LET key == <<"reply", t, r, m>>
      failed == {a \in Action : /\ IsReply(a) /\ row[a].status = "failed"
                                /\ row[a].text = t /\ row[a].mode = m}
  IN /\ r <= source.revision
     /\ ~\E a \in Action : /\ IsReply(a) /\ row[a].status = "sent"
                           /\ row[a].text = t /\ row[a].rev = r
     /\ \/ \E a \in failed : ~HasActive(m, r, a) /\ Revive(a, r)
        \/ /\ failed = {}
           /\ ~HasActive(m, r, NoAction)
           /\ ~\E a \in Action : row[a].key = key
           /\ \E a \in Action :
                Insert(a, [kind |-> "send_reply", status |-> "pending",
                           mode |-> m, rev |-> r, text |-> t, key |-> key])
     /\ UNCHANGED <<attempt, tries, source, fence, aged, disp, op, delivered,
                    faults>>

-----------------------------------------------------------------------------
(* Dispatcher.dispatch. *)

Goto(d, pc) == disp' = [disp EXCEPT ![d].pc = pc]
Holds(d, a, n) == disp[d].act = a /\ disp[d].try = n

\* Ends _execute_actual: the outcome goes on to finish_claimed_action.
Conclude(d, out) ==
  disp' = [disp EXCEPT ![d].pc = "finish", ![d].outcome = out]

\* action_revision_is_current / revision_send_guard: the revision the row was
\* bound to when it was claimed is still the stored one.  Mutant: compares
\* nothing but the tombstone flag.
SourceNotDeleted(d) == ~source.is_deleted
StillCurrent(d) == Current(disp[d].rev)

\* update_dispatch_attempt writes by attempt id, whatever the row says now.
SetAttempt(a, n, s, fin, sent) ==
  attempt' = [attempt EXCEPT ![a][n].status = s,
                             ![a][n].finished = @ \/ fin,
                             ![a][n].sent_message_id = @ \/ sent]

\* Rows left in sending for stale_after_seconds.  Mutant: looks for an
\* unfinished attempt instead of at the row.
StaleUnfinished == {a \in aged : row[a].status = "sending"
                                 /\ ~attempt[a][tries[a]].finished}
StaleSending == {a \in aged : row[a].status = "sending"}

\* _attempt_proves_readback.
ProvesReadback(a) == attempt[a][tries[a]].status = "readback_ok"
                     /\ attempt[a][tries[a]].sent_message_id

\* dispatch() starts with mark_stale_sending_actions_failed_needs_review, which
\* lists the stale rows with their latest attempts ...
BeginDispatch(d) ==
  /\ disp[d].pc = "idle"
  /\ disp' = IF StaleSending = {} THEN [disp EXCEPT ![d].pc = "scan"]
             ELSE [disp EXCEPT ![d].pc = "recover",
                     ![d].stale = {[act |-> a, try |-> tries[a],
                                    proven |-> ProvesReadback(a),
                                    open |-> ~attempt[a][tries[a]].finished] :
                                      a \in StaleSending}]
  /\ UNCHANGED <<tables, source, fence, op, grants, delivered, faults>>

\* What a stale row becomes: sent on proof, otherwise under review.
\* Mutant: an interrupted send is simply queued again.
RecoveredByResend(proven) == IF proven THEN "sent" ELSE "pending"
Recovered(proven) == IF proven THEN "sent" ELSE "failed_needs_review"

\* ... and then writes: rows only if they are still sending, the attempts it
\* had seen open in any case.  It owes a notice for every unproven reply.
RecoverStale(d) ==
  LET S == disp[d].stale
      Of(a) == CHOOSE s \in S : s.act = a
      acts == {s.act : s \in S}
  IN /\ disp[d].pc = "recover"
     /\ row' = [a \in Action |->
                  IF a \in acts /\ row[a].status = "sending"
                  THEN [row[a] EXCEPT !.status = Recovered(Of(a).proven)]
                  ELSE row[a]]
     /\ attempt' = [a \in Action |-> [n \in AttemptNo |->
                      IF a \in acts /\ Of(a).try = n /\ Of(a).open
                      THEN [attempt[a][n] EXCEPT
                              !.finished = TRUE,
                              !.status = IF Of(a).proven THEN @ ELSE "uncertain"]
                      ELSE attempt[a][n]]]
     /\ aged' = aged \ acts
     /\ disp' = [disp EXCEPT ![d].pc = "scan", ![d].stale = {},
                   ![d].todo = {<<"notice", s.act, 0>> :
                                  s \in {r \in S : IsReply(r.act) /\ ~r.proven}}]
     /\ UNCHANGED <<tries, source, fence, op, grants, delivered, faults>>

\* _queue_failed_reply_notification: one owner notification per dedupe key,
\* bound to the revision of the reply it reports.
QueueNotice(d, k) ==
  LET a == k[2] IN
  /\ disp[d].pc = "scan" /\ k \in disp[d].todo
  /\ disp' = [disp EXCEPT ![d].todo = @ \ {k}]
  /\ \/ \E b \in Action : row[b].key = k /\ row[b].status = "failed"
                          /\ Revive(b, row[a].rev)
     \/ /\ \E b \in Action : row[b].key = k /\ row[b].status # "failed"
        /\ UNCHANGED <<row, grants>>
     \/ /\ ~\E b \in Action : row[b].key = k
        /\ \E b \in Action :
             Insert(b, [kind |-> "owner_notification", status |-> "pending",
                        mode |-> row[a].mode, rev |-> row[a].rev,
                        text |-> NoText, key |-> k])
  /\ UNCHANGED <<attempt, tries, source, fence, aged, op, delivered, faults>>

\* The store raised: the failure is logged and the loop goes on.  (Bound: so
\* it does when no row id is left.)
QueueNoticeFails(d, k) ==
  /\ disp[d].pc = "scan" /\ k \in disp[d].todo
  /\ disp' = [disp EXCEPT ![d].todo = @ \ {k}]
  /\ \/ faults < MaxFault /\ faults' = faults + 1
     \/ (\A a \in Action : row[a].kind # "none") /\ UNCHANGED faults
  /\ UNCHANGED <<tables, source, fence, op, grants, delivered>>

\* The WHERE clause of the claim, and who is allowed to be sent at all.
\* Mutant: the status is not compared again after the list was read.
ListedOnce(a) == row[a].status \in {"pending", "sending"} /\ row[a].mode = "production"
Claimable(a) == row[a].status = "pending" /\ row[a].mode = "production"

\* claim_action_for_dispatch: compare-and-set pending -> sending and the
\* attempt row, in one transaction.  Only production rows are ever claimed.
Claim(d, a) ==
  LET n == tries[a] + 1 IN
  /\ disp[d].pc = "scan" /\ disp[d].todo = {}
  /\ Claimable(a) /\ n <= MaxAttempt
  /\ SetStatus(a, "sending")
  /\ tries' = [tries EXCEPT ![a] = n]
  /\ attempt' = [attempt EXCEPT ![a][n].status = "started",
                                ![a][n].stale = ~Current(row[a].rev)]
  /\ aged' = aged \ {a}
  /\ disp' = [disp EXCEPT ![d] = [IdleDisp EXCEPT !.pc = "claimed", !.act = a,
                                    !.try = n, !.rev = row[a].rev]]
  /\ UNCHANGED <<source, fence, op, grants, delivered, faults>>

\* The list is exhausted (or the dispatch limit is reached).
EndDispatch(d) ==
  /\ disp[d].pc = "scan" /\ disp[d].todo = {}
  /\ Goto(d, "idle")
  /\ UNCHANGED <<tables, source, fence, op, grants, delivered, faults>>

\* First revision check, then the adapter's dry run.
DryRun(d) ==
  LET a == disp[d].act  n == disp[d].try IN
  /\ disp[d].pc = "claimed"
  /\ \/ /\ ~StillCurrent(d)
        /\ SetAttempt(a, n, "failed", TRUE, FALSE) /\ Conclude(d, "cancelled")
     \/ /\ StillCurrent(d)
        /\ SetAttempt(a, n, "failed", TRUE, FALSE) /\ Conclude(d, "failed")
     \/ /\ StillCurrent(d)
        /\ SetAttempt(a, n, "dry_run_ok", FALSE, FALSE) /\ Goto(d, "guard")
  /\ UNCHANGED <<row, tries, aged, source, fence, op, grants, delivered, faults>>

\* revision_send_guard: the last check before the provider call.
Guard(d) ==
  LET a == disp[d].act  n == disp[d].try IN
  /\ disp[d].pc = "guard"
  /\ IF StillCurrent(d)
     THEN Goto(d, "send") /\ UNCHANGED attempt
     ELSE SetAttempt(a, n, "failed", TRUE, FALSE) /\ Conclude(d, "cancelled")
  /\ UNCHANGED <<row, tries, aged, source, fence, op, grants, delivered, faults>>

\* The provider call (external).  An acknowledgement implies the message was
\* posted, a rejection that it was not; a timeout or exception says nothing.
Send(d) ==
  LET a == disp[d].act  n == disp[d].try IN
  /\ disp[d].pc = "send"
  /\ \E rep \in {"ok", "no_id", "rejected", "unknown"}, posted \in BOOLEAN :
       /\ rep \in {"ok", "no_id"} => posted
       /\ rep = "rejected" => ~posted
       /\ delivered' = IF posted THEN delivered \cup {<<a, n>>} ELSE delivered
       /\ disp' = [disp EXCEPT ![d].pc = "report", ![d].report = rep]
  /\ attempt' = [attempt EXCEPT ![a][n].calls = @ + 1]
  /\ UNCHANGED <<row, tries, aged, source, fence, op, grants, faults>>

\* _proves_not_sent: only a failure known to precede the send is definite.
\* Mutant: every failed call counts as one.
AnyFailure(rep) == rep \in {"rejected", "unknown"}
ProvesNotSent(rep) == rep = "rejected"

\* A send result with a message id.  Mutant: a timeout is taken for one.
NoErrorSeen(rep) == rep \in {"ok", "unknown"}
Acknowledged(rep) == rep = "ok"

\* The send result is recorded on the attempt.
Record(d) ==
  LET a == disp[d].act  n == disp[d].try  rep == disp[d].report
      Move(pc, out) == disp' = [disp EXCEPT ![d].pc = pc, ![d].outcome = out,
                                             ![d].report = "none"]
  IN /\ disp[d].pc = "report"
     /\ IF Acknowledged(rep)
        THEN SetAttempt(a, n, "send_ok", FALSE, TRUE) /\ Move("readback", "none")
        ELSE IF ProvesNotSent(rep)
        THEN SetAttempt(a, n, "failed", TRUE, FALSE) /\ Move("finish", "failed")
        ELSE /\ SetAttempt(a, n, "uncertain", TRUE, FALSE)
             /\ Move("finish", "failed_needs_review")
     /\ UNCHANGED <<row, tries, aged, source, fence, op, grants, delivered, faults>>

\* Readback only grades the evidence: the action is sent either way.
Readback(d) ==
  LET a == disp[d].act  n == disp[d].try IN
  /\ disp[d].pc = "readback"
  /\ \E s \in {"readback_ok", "send_ok"} : SetAttempt(a, n, s, TRUE, TRUE)
  /\ Conclude(d, "sent")
  /\ UNCHANGED <<row, tries, aged, source, fence, op, grants, delivered, faults>>

\* finish_claimed_action reads the latest attempt and the row ...
FinishRead(d) ==
  LET a == disp[d].act IN
  /\ disp[d].pc = "finish"
  /\ disp' = IF tries[a] = disp[d].try
             THEN [disp EXCEPT ![d].pc = "write", ![d].seen = row[a].status]
             ELSE [disp EXCEPT ![d] = [IdleDisp EXCEPT !.pc = "scan"]]
  /\ UNCHANGED <<tables, source, fence, op, grants, delivered, faults>>

\* The fenced row this dispatcher may reconcile: seen under review, and still
\* so when the UPDATE runs.  Mutant: the UPDATE does not repeat the status.
SeenUnderReview(d) ==
  disp[d].outcome = "sent" /\ disp[d].seen = "failed_needs_review"
Reconciles(d) ==
  LET a == disp[d].act IN
  /\ disp[d].outcome = "sent" /\ disp[d].seen = "failed_needs_review"
  /\ attempt[a][disp[d].try].sent_message_id
  /\ row[a].status = "failed_needs_review"

\* ... and writes: sending takes the outcome; a row it had seen fenced as
\* failed_needs_review becomes sent if this attempt has the provider's id.
FinishWrite(d) ==
  LET a == disp[d].act  n == disp[d].try  out == disp[d].outcome
      direct == row[a].status = "sending"
  IN /\ disp[d].pc = "write"
     /\ IF direct \/ Reconciles(d) THEN SetStatus(a, out) ELSE UNCHANGED row
     /\ disp' = [disp EXCEPT ![d] = [IdleDisp EXCEPT !.pc = "scan",
          !.todo = IF /\ direct /\ IsReply(a)
                      /\ out \in {"failed", "failed_needs_review"}
                   THEN {<<"notice", a, n>>} ELSE {}]]
     /\ UNCHANGED <<attempt, tries, aged, source, fence, op, grants, delivered,
                    faults>>

\* The process dies and is started again.
Crash(d) ==
  /\ disp[d].pc # "idle" /\ faults < MaxFault
  /\ disp' = [disp EXCEPT ![d] = IdleDisp]
  /\ faults' = faults + 1
  /\ UNCHANGED <<tables, source, fence, op, grants, delivered>>

\* 900 seconds pass without a write to the row.
Age(a) ==
  /\ row[a].status = "sending" /\ a \notin aged
  /\ aged' = aged \cup {a}
  /\ UNCHANGED <<row, attempt, tries, source, fence, disp, op, grants,
                 delivered, faults>>

-----------------------------------------------------------------------------
(* Operator commands: each SELECTs, checks, and then updates WHERE id = ?. *)

BeginRetry(o, a) ==
  /\ op[o].cmd = "none"
  /\ row[a].status \in {"failed", "failed_needs_review"}
  /\ Current(row[a].rev)
  /\ IsReply(a) => ~HasActive(row[a].mode, row[a].rev, a)
  /\ op' = [op EXCEPT ![o] = [cmd |-> "retry", act |-> a]]
  /\ UNCHANGED <<tables, source, fence, disp, grants, delivered, faults>>

\* The unique index may still refuse the update; the command then fails.
EndRetry(o) ==
  LET a == op[o].act IN
  /\ op[o].cmd = "retry"
  /\ op' = [op EXCEPT ![o] = IdleOp]
  /\ IF IsReply(a) /\ HasActive(row[a].mode, row[a].rev, a)
     THEN UNCHANGED <<row, grants>>
     ELSE SetStatus(a, "pending") /\ Granted(a)
  /\ UNCHANGED <<attempt, tries, aged, source, fence, disp, delivered, faults>>

BeginCancel(o, a) ==
  /\ op[o].cmd = "none"
  /\ row[a].status \notin {"none", "sent", "cancelled"}
  /\ op' = [op EXCEPT ![o] = [cmd |-> "cancel", act |-> a]]
  /\ UNCHANGED <<tables, source, fence, disp, grants, delivered, faults>>

EndCancel(o) ==
  /\ op[o].cmd = "cancel"
  /\ op' = [op EXCEPT ![o] = IdleOp]
  /\ SetStatus(op[o].act, "cancelled")
  /\ UNCHANGED <<attempt, tries, aged, source, fence, disp, grants, delivered,
                 faults>>

\* A message the operator can show for the action: same target, same content.
Content(a) == IF IsReply(a) THEN row[a].text ELSE row[a].key
Posted(a) == \E e \in delivered : IsReply(e[1]) = IsReply(a)
                                  /\ Content(e[1]) = Content(a)

BeginMarkSent(o, a) ==
  /\ op[o].cmd = "none"
  /\ row[a].status \notin {"none", "cancelled"}
  /\ Posted(a)
  /\ op' = [op EXCEPT ![o] = [cmd |-> "mark_sent", act |-> a]]
  /\ UNCHANGED <<tables, source, fence, disp, grants, delivered, faults>>

\* The evidence goes to the latest attempt, or to one made for the purpose.
EndMarkSent(o) ==
  LET a == op[o].act
      n == IF tries[a] = 0 THEN 1 ELSE tries[a]
  IN /\ op[o].cmd = "mark_sent"
     /\ op' = [op EXCEPT ![o] = IdleOp]
     /\ tries' = [tries EXCEPT ![a] = n]
     /\ SetAttempt(a, n, "readback_ok", TRUE, TRUE)
     /\ SetStatus(a, "sent")
     /\ UNCHANGED <<aged, source, fence, disp, grants, delivered, faults>>

-----------------------------------------------------------------------------
(* Ingestion of edits and deletions; the owner ends the task. *)

\* upsert_message_with_revision accepted an edit or a tombstone.
Upsert(deleted) ==
  /\ ~fence /\ ~source.is_deleted /\ source.revision < MaxRevision
  /\ source' = [revision |-> source.revision + 1, is_deleted |-> deleted]
  /\ fence' = TRUE
  /\ UNCHANGED <<tables, disp, op, grants, delivered, faults>>

\* The new status of a row bound to another revision.  Mutant: the status an
\* expired approval gets.
FencedLikeApproval(s) == IF s \in {"pending", "failed"} THEN "expired" ELSE s
Fenced(s) == CASE s \in {"pending", "failed"} -> "cancelled"
               [] s = "sending" -> "failed_needs_review"
               [] OTHER -> s

\* invalidate_stale_revision_side_effects, in a transaction of its own.
Invalidate ==
  LET old == {a \in Action : row[a].kind # "none" /\ row[a].rev # source.revision}
  IN /\ fence
     /\ fence' = FALSE
     /\ row' = [a \in Action |->
                  IF a \in old THEN [row[a] EXCEPT !.status = Fenced(@)]
                  ELSE row[a]]
     /\ UNCHANGED <<attempt, tries, aged, source, disp, op, grants, delivered,
                    faults>>

\* Ingestion died in between: on replay the upsert reports no change and the
\* invalidation is not run again.
IngestionCrash ==
  /\ fence /\ faults < MaxFault
  /\ fence' = FALSE
  /\ faults' = faults + 1
  /\ UNCHANGED <<tables, source, disp, op, grants, delivered>>

CancelRows(S) ==
  /\ S # {}
  /\ row' = [a \in Action |->
               IF a \in S THEN [row[a] EXCEPT !.status = "cancelled"] ELSE row[a]]
  /\ UNCHANGED <<attempt, tries, aged, source, fence, disp, op, grants,
                 delivered, faults>>
Replies(S) == {a \in Action : IsReply(a) /\ row[a].status \in S}

\* The owner answered, or an escalation handed the task over.
TakeOver == CancelRows(Replies({"pending", "sending"}))
CloseByOperator ==
  CancelRows(Replies({"pending", "sending"}) \cup
             {a \in Action : row[a].kind = "owner_notification"
                             /\ row[a].status = "pending"})
\* /reject that ends the task leaves a reply in flight alone.
RejectAndEnd == CancelRows(Replies({"pending"}))

-----------------------------------------------------------------------------
DispatcherStep(d) ==
  \/ BeginDispatch(d) \/ RecoverStale(d) \/ EndDispatch(d)
  \/ \E k \in disp[d].todo : QueueNotice(d, k) \/ QueueNoticeFails(d, k)
  \/ \E a \in Action : Claim(d, a)
  \/ DryRun(d) \/ Guard(d) \/ Send(d) \/ Record(d) \/ Readback(d)
  \/ FinishRead(d) \/ FinishWrite(d)

OperatorStep(o) ==
  \/ \E a \in Action : BeginRetry(o, a) \/ BeginCancel(o, a) \/ BeginMarkSent(o, a)
  \/ EndRetry(o) \/ EndCancel(o) \/ EndMarkSent(o)

Next ==
  \/ \E t \in Text, m \in Mode, r \in 1..MaxRevision : CreateReply(t, m, r)
  \/ \E d \in Dispatcher : DispatcherStep(d)
  \/ \E d \in Dispatcher : Crash(d)
  \/ \E a \in Action : Age(a)
  \/ \E o \in Operator : OperatorStep(o)
  \/ \E deleted \in BOOLEAN : Upsert(deleted)
  \/ Invalidate \/ IngestionCrash
  \/ TakeOver \/ CloseByOperator \/ RejectAndEnd

Spec == Init /\ [][Next]_vars

\* The daemon loop keeps running and is restarted after a crash, so every
\* dispatcher step that stays possible is taken, and time passes.  Nothing is
\* assumed of operators, the owner, ingestion or the provider's answers.
FairSpec ==
  /\ Spec
  /\ \A d \in Dispatcher : WF_vars(DispatcherStep(d))
  /\ \A a \in Action : WF_vars(Age(a))

-----------------------------------------------------------------------------
(* Properties. *)

TypeOK ==
  /\ row \in [Action -> Row]
  /\ attempt \in [Action -> [AttemptNo -> Attempt]]
  /\ tries \in [Action -> 0..MaxAttempt]
  /\ source \in [revision : 1..MaxRevision, is_deleted : BOOLEAN]
  /\ fence \in BOOLEAN
  /\ aged \subseteq Action
  /\ disp \in [Dispatcher -> Disp]
  /\ op \in [Operator -> Op]
  /\ grants \in [Action -> Nat]
  /\ delivered \subseteq Action \X AttemptNo
  /\ faults \in 0..MaxFault

\* "No automatic resend": every attempt was preceded by a decision of its own
\* (creation, revival of a definite failure, operator retry), a row waiting to
\* be claimed still has one left, and an attempt calls the provider at most
\* once, whatever dispatchers, crashes and recoveries do.
SendsAreAuthorised ==
  \A a \in Action :
    /\ tries[a] + (IF row[a].status = "pending" THEN 1 ELSE 0) <= grants[a]
    /\ \A n \in AttemptNo : attempt[a][n].calls <= (IF n <= tries[a] THEN 1 ELSE 0)

\* Dispatch implements the ledger of authorised sends.
Ledger == INSTANCE SendLedger WITH
  authorised <- grants, begun <- tries,
  called <- [a \in Action |-> [n \in AttemptNo |-> attempt[a][n].calls]]
KeepsLedger == Ledger!Spec

\* A row is marked sent only if a message with its content is in the chat.
SentMeansPosted == \A a \in Action : row[a].status = "sent" => Posted(a)

\* A failed attempt is evidence that this attempt posted nothing, even when
\* stale recovery or the revision guard raced it.
FailedAttemptNotPosted ==
  \A a \in Action : \A n \in AttemptNo :
    attempt[a][n].status = "failed" => <<a, n>> \notin delivered

\* Single active send: no two replies of one slot are pending, in flight or
\* under review at once, though six handlers move rows into those states.
SingleActiveSend ==
  \A a, b \in Action :
    /\ a # b /\ IsReply(a) /\ IsReply(b)
    /\ row[a].status \in Active /\ row[b].status \in Active
    => row[a].mode # row[b].mode \/ row[a].rev # row[b].rev

\* An attempt claimed after its source was edited or deleted posts nothing:
\* this is what protects a row whose invalidation a crash skipped.
StaleNeverPosted ==
  \A e \in delivered : ~attempt[e[1]][e[2]].stale

\* Only an operator command takes a row out of sent or cancelled, or from
\* failed_needs_review back to pending.
OnlyOperatorReopens ==
  [][\A a \in Action :
       \/ row'[a].status = row[a].status
       \/ /\ row[a].status \notin {"sent", "cancelled"}
          /\ row[a].status = "failed_needs_review" => row'[a].status # "pending"
       \/ \E o \in Operator : op[o].act = a /\ op'[o].cmd = "none"]_vars

\* A claimed action does not stay in sending, whatever crashes interrupt it.
SendingResolves ==
  \A a \in Action : row[a].status = "sending" ~> row[a].status # "sending"
=============================================================================
