-------------------------- MODULE ApprovalsProofs --------------------------
(***************************************************************************)
(* Proofs about Approvals for every value of its constants.  What one      *)
(* transaction does to the approvals is summed up by two relations of the  *)
(* database before (s) and after (t): nothing but lapses, or the decision  *)
(* of one approval by one command.  Every operator over the database is    *)
(* shown to be one of them, and the theorems need no more than that.       *)
(***************************************************************************)
EXTENDS Approvals, TLAPS

-----------------------------------------------------------------------------
(* The two relations. *)

SameOrLapsed(s, t, q) ==
  \/ t.approval[q].status = s.approval[q].status
  \/ s.approval[q].status = "pending" /\ t.approval[q].status = "expired"

\* No notice asks the owner to decide an expired approval.
Silent(s) ==
  \A p \in Approval :
    s.approval[p].status = "expired" => s.approval[p].notice # "pending"

Lapses(s, t) ==
  /\ t.granted = s.granted /\ t.feedback = s.feedback
  /\ Silent(s) => Silent(t)
  /\ \A q \in Approval : SameOrLapsed(s, t, q)

IsCurrent(r) == r = 0 \/ (r = source.revision /\ ~source.is_deleted)

Grants(s, t, p) ==
  /\ s.approval[p].status \in {"none", "pending"}
  /\ t.approval[p].status = "approved"
  /\ t.granted[p] = s.granted[p] + 1
  /\ IsCurrent(t.approval[p].rev)
Refuses(s, t, p) ==
  /\ s.approval[p].status = "pending"
  /\ t.approval[p].status = "rejected"
  /\ t.granted[p] = s.granted[p]
Decides(s, t, p, c) ==
  /\ Grants(s, t, p) \/ Refuses(s, t, p)
  /\ FeedbackFree(s, p, c)
  /\ t.feedback = s.feedback \cup {<<p, c>>}
  /\ Silent(s) => Silent(t)
  /\ \A q \in Approval \ {p} : SameOrLapsed(s, t, q) /\ t.granted[q] = s.granted[q]

Asks(s, t, p) ==
  /\ s.approval[p].status = "none" /\ t.approval[p].status = "pending"
  /\ t.granted = s.granted /\ t.feedback = s.feedback
  /\ Silent(s) => Silent(t)
  /\ \A q \in Approval \ {p} : t.approval[q] = s.approval[q]

LEMMA LapsesTrans ==
  ASSUME NEW s, NEW t, NEW u, Lapses(s, t), Lapses(t, u)
  PROVE  Lapses(s, u)
  BY DEF Lapses, SameOrLapsed

LEMMA LapsesDecides ==
  ASSUME NEW s, NEW t, NEW u, NEW p \in Approval, NEW c \in Command,
         Lapses(s, t), Decides(t, u, p, c)
  PROVE  Decides(s, u, p, c)
  BY DEF Lapses, SameOrLapsed, Decides, Grants, Refuses, FeedbackFree

LEMMA DecidesLapses ==
  ASSUME NEW s, NEW t, NEW u, NEW p \in Approval, NEW c \in Command,
         Decides(s, t, p, c), Lapses(t, u), u.approval[p] = t.approval[p]
  PROVE  Decides(s, u, p, c)
  BY DEF Lapses, SameOrLapsed, Decides, Grants, Refuses

-----------------------------------------------------------------------------
(* Updates of one field or one row keep the types. *)

LEMMA RowStatus ==
  ASSUME NEW r \in ApprovalRow, NEW v \in ApprovalStatus
  PROVE  LET t == [r EXCEPT !.status = v] IN
         /\ t \in ApprovalRow /\ t.status = v
         /\ t.notice = r.notice /\ t.keep = r.keep
  BY DEF ApprovalRow

LEMMA RowNotice ==
  ASSUME NEW r \in ApprovalRow, NEW v \in {"none", "pending", "sent", "cancelled"}
  PROVE  /\ [r EXCEPT !.notice = v] \in ApprovalRow
         /\ [r EXCEPT !.notice = v].status = r.status
         /\ [r EXCEPT !.notice = v].notice = v
         /\ [r EXCEPT !.notice = v].keep = r.keep
  BY DEF ApprovalRow

LEMMA RowText ==
  ASSUME NEW r \in ApprovalRow, NEW v \in ApprovalStatus, NEW x \in Text \cup {NoText}
  PROVE  LET t == [r EXCEPT !.status = v, !.text = x] IN
         t \in ApprovalRow /\ t.status = v /\ t.rev = r.rev
  BY DEF ApprovalRow

LEMMA ReplyStatusType ==
  ASSUME NEW r \in ReplyRow, NEW v \in ReplyStatus
  PROVE  [r EXCEPT !.status = v] \in ReplyRow
  BY DEF ReplyRow

LEMMA DbTask ==
  ASSUME NEW s \in Db, NEW v \in TaskStatus
  PROVE  LET t == [s EXCEPT !.task = v] IN
         /\ t \in Db /\ t.approval = s.approval /\ t.reply = s.reply
         /\ t.feedback = s.feedback /\ t.granted = s.granted
         /\ t.recorded = s.recorded /\ t.task = v
  BY DEF Db

LEMMA DbApproval ==
  ASSUME NEW s \in Db, NEW f \in [Approval -> ApprovalRow]
  PROVE  LET t == [s EXCEPT !.approval = f] IN
         /\ t \in Db /\ t.approval = f /\ t.reply = s.reply
         /\ t.feedback = s.feedback /\ t.granted = s.granted
         /\ t.recorded = s.recorded /\ t.task = s.task
  BY DEF Db

LEMMA DbReply ==
  ASSUME NEW s \in Db, NEW f \in [Reply -> ReplyRow]
  PROVE  LET t == [s EXCEPT !.reply = f] IN
         /\ t \in Db /\ t.approval = s.approval /\ t.reply = f
         /\ t.feedback = s.feedback /\ t.granted = s.granted
         /\ t.recorded = s.recorded /\ t.task = s.task
  BY DEF Db

LEMMA DbFeedback ==
  ASSUME NEW s \in Db, NEW F \in SUBSET (Approval \X Command)
  PROVE  LET t == [s EXCEPT !.feedback = F] IN
         /\ t \in Db /\ t.approval = s.approval /\ t.reply = s.reply
         /\ t.feedback = F /\ t.granted = s.granted
         /\ t.recorded = s.recorded /\ t.task = s.task
  BY DEF Db

LEMMA DbRecorded ==
  ASSUME NEW s \in Db, NEW f \in [Command -> {"none", "applied", "failed"}]
  PROVE  LET t == [s EXCEPT !.recorded = f] IN
         /\ t \in Db /\ t.approval = s.approval /\ t.reply = s.reply
         /\ t.feedback = s.feedback /\ t.granted = s.granted
         /\ t.recorded = f /\ t.task = s.task
  BY DEF Db

LEMMA DbGranted ==
  ASSUME NEW s \in Db, NEW f \in [Approval -> Nat]
  PROVE  LET t == [s EXCEPT !.granted = f] IN
         /\ t \in Db /\ t.approval = s.approval /\ t.reply = s.reply
         /\ t.feedback = s.feedback /\ t.granted = f
         /\ t.recorded = s.recorded /\ t.task = s.task
  BY DEF Db

LEMMA DbStale ==
  ASSUME NEW s \in Db, NEW F \in SUBSET (Approval \X Command)
  PROVE  LET t == [s EXCEPT !.stale = F] IN
         /\ t \in Db /\ t.approval = s.approval /\ t.reply = s.reply
         /\ t.feedback = s.feedback /\ t.granted = s.granted
         /\ t.recorded = s.recorded /\ t.task = s.task
  BY DEF Db

LEMMA DbFields ==
  ASSUME NEW s \in Db
  PROVE  /\ s.task \in TaskStatus /\ s.approval \in [Approval -> ApprovalRow]
         /\ s.reply \in [Reply -> ReplyRow]
         /\ s.feedback \in SUBSET (Approval \X Command)
         /\ s.recorded \in [Command -> {"none", "applied", "failed"}]
         /\ s.granted \in [Approval -> Nat]
         /\ s.stale \in SUBSET (Approval \X Command)
  BY DEF Db

-----------------------------------------------------------------------------
(* What only lapses. *)

LEMMA WithTaskLapses ==
  ASSUME NEW s \in Db, NEW v \in TaskStatus
  PROVE  /\ WithTask(s, v) \in Db /\ Lapses(s, WithTask(s, v))
         /\ WithTask(s, v).approval = s.approval /\ WithTask(s, v).task = v
  BY DbTask DEF WithTask, Lapses, SameOrLapsed, Silent

LEMMA CancelRepliesLapses ==
  ASSUME NEW s \in Db, NEW from
  PROVE  /\ CancelReplies(s, from) \in Db /\ Lapses(s, CancelReplies(s, from))
         /\ CancelReplies(s, from).approval = s.approval
         /\ CancelReplies(s, from).task = s.task
  <1> DEFINE f == [a \in Reply |->
                     IF s.reply[a].status \in from
                     THEN [s.reply[a] EXCEPT !.status = "cancelled"] ELSE s.reply[a]]
  <1>1. \A a \in Reply : [s.reply[a] EXCEPT !.status = "cancelled"] \in ReplyRow
    BY DbFields, ReplyStatusType DEF ReplyStatus
  <1>2. f \in [Reply -> ReplyRow] BY <1>1, DbFields
  <1> HIDE DEF f
  <1>3. CancelReplies(s, from) = [s EXCEPT !.reply = f] BY DEF CancelReplies, f
  <1> QED BY <1>2, <1>3, DbReply DEF Lapses, SameOrLapsed, Silent

\* It also silences whatever in S was not silent.
LEMMA CancelActionsLapses ==
  ASSUME NEW s \in Db, NEW S
  PROVE  /\ CancelActions(s, S) \in Db /\ Lapses(s, CancelActions(s, S))
         /\ (\A p \in Approval \ S : s.approval[p].status = "expired"
                                     => s.approval[p].notice # "pending")
            => Silent(CancelActions(s, S))
         /\ CancelActions(s, S).task = s.task
         /\ \A p \in Approval :
              /\ CancelActions(s, S).approval[p].status = s.approval[p].status
              /\ CancelActions(s, S).approval[p].keep = s.approval[p].keep
         /\ \A p \in Approval \ S : CancelActions(s, S).approval[p] = s.approval[p]
  <1> DEFINE f == [p \in Approval |->
                     IF p \in S /\ s.approval[p].notice = "pending"
                     THEN [s.approval[p] EXCEPT !.notice = "cancelled"]
                     ELSE s.approval[p]]
             g == [a \in Reply |->
                     IF s.reply[a].approval \in S /\ s.reply[a].status = "pending"
                     THEN [s.reply[a] EXCEPT !.status = "cancelled"] ELSE s.reply[a]]
             t == [s EXCEPT !.approval = f]
  <1>1. ASSUME NEW p \in Approval
        PROVE  LET w == [s.approval[p] EXCEPT !.notice = "cancelled"] IN
               /\ w \in ApprovalRow /\ w.notice = "cancelled"
               /\ w.status = s.approval[p].status /\ w.keep = s.approval[p].keep
    <2>1. s.approval[p] \in ApprovalRow BY DbFields
    <2> QED BY <2>1, RowNotice
  <1>2. /\ f \in [Approval -> ApprovalRow]
        /\ \A p \in Approval : /\ f[p].status = s.approval[p].status
                               /\ f[p].keep = s.approval[p].keep
        /\ \A p \in Approval \ S : f[p] = s.approval[p]
        /\ \A p \in Approval : f[p].notice = "pending"
                                => p \notin S /\ f[p] = s.approval[p]
    BY <1>1, DbFields
  <1>3. \A a \in Reply : [s.reply[a] EXCEPT !.status = "cancelled"] \in ReplyRow
    BY DbFields, ReplyStatusType DEF ReplyStatus
  <1>4. g \in [Reply -> ReplyRow] BY <1>3, DbFields
  <1>5. CancelActions(s, S) = [t EXCEPT !.reply = g] BY DEF CancelActions, Db
  <1> HIDE DEF f, g
  <1>6. /\ t \in Db /\ t.approval = f /\ t.feedback = s.feedback
        /\ t.granted = s.granted /\ t.task = s.task
    BY <1>2, DbApproval
  <1> HIDE DEF t
  <1>7. /\ CancelActions(s, S) \in Db /\ CancelActions(s, S).approval = f
        /\ CancelActions(s, S).task = s.task
        /\ CancelActions(s, S).feedback = s.feedback
        /\ CancelActions(s, S).granted = s.granted
    BY <1>4, <1>5, <1>6, DbReply
  <1>8. (\A p \in Approval \ S : s.approval[p].status = "expired"
                                => s.approval[p].notice # "pending")
        => Silent(CancelActions(s, S))
    BY <1>2, <1>7 DEF Silent
  <1> QED BY <1>2, <1>7, <1>8 DEF Lapses, SameOrLapsed, Silent

LEMMA ExpiredLapses ==
  ASSUME NEW s \in Db, NEW S
  PROVE  /\ Expired(s, S) \in Db /\ Lapses(s, Expired(s, S))
         /\ \A p \in Approval \ Pending(s) : Expired(s, S).approval[p] = s.approval[p]
         /\ Expired(s, S).task = s.task
         /\ \A p \in S \cap Pending(s) : Expired(s, S).approval[p].status = "expired"
         /\ \A p \in Approval : Expired(s, S).approval[p].keep = s.approval[p].keep
  <1> DEFINE hit == S \cap Pending(s)
             f == [p \in Approval |->
                     IF p \in hit THEN [s.approval[p] EXCEPT !.status = "expired"]
                     ELSE s.approval[p]]
             t == [s EXCEPT !.approval = f]
  <1>1. ASSUME NEW p \in Approval
        PROVE  LET w == [s.approval[p] EXCEPT !.status = "expired"] IN
               w \in ApprovalRow /\ w.status = "expired" /\ w.keep = s.approval[p].keep
    <2>1. s.approval[p] \in ApprovalRow BY DbFields
    <2> QED BY <2>1, RowStatus DEF ApprovalStatus
  <1>2. /\ f \in [Approval -> ApprovalRow]
        /\ \A p \in hit : s.approval[p].status = "pending" /\ f[p].status = "expired"
        /\ \A p \in Approval : f[p].keep = s.approval[p].keep
        /\ \A p \in Approval \ hit : f[p] = s.approval[p]
    BY <1>1, DbFields DEF Pending
  <1>3. Expired(s, S) = CancelActions(t, hit) BY DEF Expired
  <1>4. /\ hit \subseteq Approval
        /\ \A p \in Approval \ Pending(s) : p \notin hit
        /\ \A p \in S \cap Pending(s) : p \in hit
    BY DEF Pending
  <1> HIDE DEF f, hit
  <1>5. /\ t \in Db /\ t.approval = f /\ t.feedback = s.feedback
        /\ t.granted = s.granted /\ t.task = s.task
    BY <1>2, DbApproval
  <1> HIDE DEF t
  <1> DEFINE u == CancelActions(t, hit)
  <1>6. /\ u \in Db /\ Lapses(t, u) /\ u.task = t.task
        /\ Silent(s) => Silent(u)
        /\ \A p \in Approval : u.approval[p].status = t.approval[p].status
                               /\ u.approval[p].keep = t.approval[p].keep
        /\ \A p \in Approval \ hit : u.approval[p] = t.approval[p]
    BY <1>2, <1>5, CancelActionsLapses DEF Silent
  <1> HIDE DEF u
  <1>7. Lapses(s, u) BY <1>2, <1>4, <1>5, <1>6 DEF Lapses, SameOrLapsed
  <1> QED BY <1>2, <1>3, <1>4, <1>5, <1>6, <1>7 DEF u

LEMMA EndedLapses ==
  ASSUME NEW s \in Db, NEW v \in TaskStatus, NEW from
  PROVE  /\ Ended(s, v, from) \in Db /\ Lapses(s, Ended(s, v, from))
         /\ Ended(s, v, from).task = v
         /\ \A p \in Approval \ Pending(s) : Ended(s, v, from).approval[p] = s.approval[p]
  <1> DEFINE t == WithTask(s, v)
             u == Expired(t, Approval)
  <1>1. t \in Db /\ Lapses(s, t) /\ t.approval = s.approval /\ t.task = v
    BY WithTaskLapses
  <1>2. Pending(t) = Pending(s) BY <1>1 DEF Pending
  <1> HIDE DEF t
  <1>3. /\ u \in Db /\ Lapses(t, u) /\ u.task = t.task
        /\ \A p \in Approval \ Pending(t) : u.approval[p] = t.approval[p]
    BY <1>1, ExpiredLapses
  <1> HIDE DEF u
  <1>4. /\ CancelReplies(u, from) \in Db /\ Lapses(u, CancelReplies(u, from))
        /\ CancelReplies(u, from).approval = u.approval
        /\ CancelReplies(u, from).task = u.task
    BY <1>3, CancelRepliesLapses
  <1>5. Lapses(s, CancelReplies(u, from)) BY <1>1, <1>3, <1>4, LapsesTrans
  <1>6. Ended(s, v, from) = CancelReplies(u, from) BY DEF Ended, t, u
  <1> QED BY <1>1, <1>2, <1>3, <1>4, <1>5, <1>6

LEMMA TakenOverLapses ==
  ASSUME NEW s \in Db
  PROVE  TakenOver(s) \in Db /\ Lapses(s, TakenOver(s))
  BY EndedLapses DEF TakenOver, TaskStatus

LEMMA ClosedByOperatorLapses ==
  ASSUME NEW s \in Db
  PROVE  ClosedByOperator(s) \in Db /\ Lapses(s, ClosedByOperator(s))
  <1> DEFINE t == Ended(s, "closed_by_owner", InFlight)
  <1>1. t \in Db /\ Lapses(s, t) BY EndedLapses DEF TaskStatus
  <1>2. ClosedByOperator(s) = CancelActions(t, Approval) BY DEF ClosedByOperator
  <1> HIDE DEF t
  <1>3. CancelActions(t, Approval) \in Db /\ Lapses(t, CancelActions(t, Approval))
    BY <1>1, CancelActionsLapses
  <1> QED BY <1>1, <1>2, <1>3, LapsesTrans

LEMMA EscalatedLapses ==
  ASSUME NEW s \in Db
  PROVE  Escalated(s) \in Db /\ Lapses(s, Escalated(s))
  <1>1. Lapses(s, s) BY DEF Lapses, SameOrLapsed
  <1>2. Ended(s, "closed", InFlight) \in Db /\ Lapses(s, Ended(s, "closed", InFlight))
    BY EndedLapses DEF TaskStatus
  <1> QED BY <1>1, <1>2 DEF Escalated

LEMMA FencedLapses ==
  ASSUME NEW s \in Db
  PROVE  Fenced(s) \in Db /\ Lapses(s, Fenced(s))
  <1> DEFINE old == {p \in Pending(s) : s.approval[p].rev \notin {0, source.revision}}
             t == Expired(s, old)
             g == [a \in Reply |->
                    CASE t.reply[a].rev \in {0, source.revision} -> t.reply[a]
                      [] t.reply[a].status \in {"pending", "failed"} ->
                           [t.reply[a] EXCEPT !.status = "cancelled"]
                      [] t.reply[a].status = "sending" ->
                           [t.reply[a] EXCEPT !.status = "failed_needs_review"]
                      [] OTHER -> t.reply[a]]
  <1>1. t \in Db /\ Lapses(s, t) BY ExpiredLapses
  <1>2. Fenced(s) = [t EXCEPT !.reply = g] BY DEF Fenced
  <1> HIDE DEF t
  <1>3. \A a \in Reply : /\ t.reply[a] \in ReplyRow
                         /\ [t.reply[a] EXCEPT !.status = "cancelled"] \in ReplyRow
                         /\ [t.reply[a] EXCEPT !.status = "failed_needs_review"] \in ReplyRow
    BY <1>1, DbFields, ReplyStatusType DEF ReplyStatus
  <1>4. g \in [Reply -> ReplyRow] BY <1>3
  <1> HIDE DEF g
  <1>5. [t EXCEPT !.reply = g] \in Db /\ Lapses(t, [t EXCEPT !.reply = g])
    BY <1>1, <1>4, DbReply DEF Lapses, SameOrLapsed, Silent
  <1> QED BY <1>1, <1>2, <1>5, LapsesTrans

-----------------------------------------------------------------------------
(* Creating a reply. *)

LEMMA WithReplyEffect ==
  ASSUME NEW s \in Db, NEW p \in Approval \cup {NoApproval},
         NEW x \in Text \cup {NoText}, NEW r \in Revision, NEW o \in Origin,
         NEW t \in WithReply(s, p, x, r, o)
  PROVE  /\ t \in Db /\ t.approval = s.approval /\ t.feedback = s.feedback
         /\ \A q \in Approval :
              t.granted[q] = IF q = p THEN s.granted[q] + 1 ELSE s.granted[q]
  <1> DEFINE rows == IF Failed(s, x) # {}
                     THEN {[id |-> a, key |-> s.reply[a].key] : a \in Failed(s, x)}
                     ELSE {[id |-> a, key |-> <<o, x, r>>] :
                             a \in {b \in Reply : s.reply[b].status = "none"}}
             Row(key) == [status |-> "pending", rev |-> r, text |-> x, key |-> key,
                          approval |-> p]
             g == [q \in Approval |->
                     IF q = p THEN s.granted[q] + 1 ELSE s.granted[q]]
             Keys == (Origin \X (Text \cup {NoText}) \X Revision) \cup {<<>>}
  <1>1. PICK n \in rows : t = [s EXCEPT !.reply[n.id] = Row(n.key), !.granted = g]
    BY DEF WithReply
  <1>2. n.id \in Reply /\ n.key \in Keys
    <2>1. CASE Failed(s, x) # {}
      <3>1. PICK a \in Failed(s, x) : n = [id |-> a, key |-> s.reply[a].key] BY <2>1
      <3>2. a \in Reply BY DEF Failed
      <3>3. s.reply[a] \in ReplyRow BY <3>2, DbFields
      <3>4. s.reply[a].key \in Keys BY <3>3 DEF ReplyRow
      <3> QED BY <3>1, <3>2, <3>4
    <2>2. CASE Failed(s, x) = {}
      <3>1. <<o, x, r>> \in Keys OBVIOUS
      <3> HIDE DEF Keys
      <3>2. PICK a \in {b \in Reply : s.reply[b].status = "none"} :
              n = [id |-> a, key |-> <<o, x, r>>]
        BY <2>2
      <3> QED BY <3>1, <3>2
    <2> QED BY <2>1, <2>2
  <1> HIDE DEF rows
  <1>3. Row(n.key) \in ReplyRow BY <1>2 DEF ReplyRow, ReplyStatus
  <1> HIDE DEF Row
  <1>4. g \in [Approval -> Nat] BY DbFields
  <1> DEFINE f == [s.reply EXCEPT ![n.id] = Row(n.key)]
             u == [s EXCEPT !.reply = f]
  <1>5. f \in [Reply -> ReplyRow] BY <1>2, <1>3, DbFields
  <1>6. t = [u EXCEPT !.granted = g] BY <1>1 DEF Db
  <1>7. \A q \in Approval : g[q] = IF q = p THEN s.granted[q] + 1 ELSE s.granted[q]
    OBVIOUS
  <1> HIDE DEF f, g
  <1>8. u \in Db /\ u.approval = s.approval /\ u.feedback = s.feedback
    BY <1>5, DbReply
  <1> HIDE DEF u
  <1> QED BY <1>4, <1>6, <1>7, <1>8, DbGranted

-----------------------------------------------------------------------------
(* What decides. *)

LEMMA GrantedEffect ==
  ASSUME NEW s \in Db, NEW p \in Approval, NEW c \in Command
  PROVE  /\ Granted(s, p, c) \in Db
         /\ Granted(s, p, c).approval = s.approval
         /\ Granted(s, p, c).granted = s.granted
         /\ Granted(s, p, c).feedback = s.feedback \cup {<<p, c>>}
  <1> DEFINE F == s.feedback \cup {<<p, c>>}
             t == [s EXCEPT !.task = "watching"]
  <1>1. F \in SUBSET (Approval \X Command) BY DbFields
  <1>2. Granted(s, p, c) = [t EXCEPT !.feedback = F] BY DEF Granted, Db
  <1> HIDE DEF F
  <1>3. t \in Db /\ t.approval = s.approval /\ t.granted = s.granted
    BY DbTask DEF TaskStatus
  <1> HIDE DEF t
  <1>4. /\ [t EXCEPT !.feedback = F] \in Db
        /\ [t EXCEPT !.feedback = F].approval = t.approval
        /\ [t EXCEPT !.feedback = F].granted = t.granted
        /\ [t EXCEPT !.feedback = F].feedback = F
    BY <1>1, <1>3, DbFeedback
  <1> QED BY <1>2, <1>3, <1>4 DEF F

\* One approval row becomes approved, a reply is made for it, the rest follows.
LEMMA GrantDecides ==
  ASSUME NEW s \in Db, NEW p \in Approval, NEW c \in Command,
         NEW w \in ApprovalRow, w.status = "approved", IsCurrent(w.rev),
         s.approval[p].status \in {"none", "pending"}, FeedbackFree(s, p, c),
         NEW x \in Text \cup {NoText}, NEW r \in Revision, NEW o \in Origin,
         NEW v \in WithReply([s EXCEPT !.approval = [s.approval EXCEPT ![p] = w]],
                             p, x, r, o)
  PROVE  /\ Granted(v, p, c) \in Db /\ Decides(s, Granted(v, p, c), p, c)
         /\ Grants(s, Granted(v, p, c), p)
  <1> DEFINE f == [s.approval EXCEPT ![p] = w]
             u == [s EXCEPT !.approval = f]
             t == Granted(v, p, c)
  <1>1. /\ f \in [Approval -> ApprovalRow] /\ f[p] = w
        /\ \A q \in Approval \ {p} : f[q] = s.approval[q]
    BY DbFields
  <1> HIDE DEF f
  <1>2. /\ u \in Db /\ u.approval = f /\ u.feedback = s.feedback
        /\ u.granted = s.granted
    BY <1>1, DbApproval
  <1>3. v \in WithReply(u, p, x, r, o) BY DEF u, f
  <1> HIDE DEF u
  <1>4. /\ v \in Db /\ v.approval = u.approval /\ v.feedback = u.feedback
        /\ \A q \in Approval :
             v.granted[q] = IF q = p THEN u.granted[q] + 1 ELSE u.granted[q]
    BY <1>2, <1>3, WithReplyEffect
  <1>5. /\ t \in Db /\ t.approval = v.approval /\ t.granted = v.granted
        /\ t.feedback = v.feedback \cup {<<p, c>>}
    BY <1>4, GrantedEffect
  <1> HIDE DEF t
  <1>6. Grants(s, t, p) BY <1>1, <1>2, <1>4, <1>5 DEF Grants
  <1>7. \A q \in Approval \ {p} :
          SameOrLapsed(s, t, q) /\ t.granted[q] = s.granted[q]
    BY <1>1, <1>2, <1>4, <1>5 DEF SameOrLapsed
  <1>8. Silent(s) => Silent(t) BY <1>1, <1>2, <1>4, <1>5 DEF Silent
  <1>9. Decides(s, t, p, c) BY <1>2, <1>4, <1>5, <1>6, <1>7, <1>8 DEF Decides
  <1> QED BY <1>5, <1>6, <1>9 DEF t

LEMMA ApprovedDecides ==
  ASSUME NEW s \in Db, NEW p \in Pending(s), NEW c \in Command,
         ~IsStale(s.approval[p].rev), FeedbackFree(s, p, c),
         NEW t \in Approved(s, p, c)
  PROVE  t \in Db /\ Decides(s, t, p, c) /\ Grants(s, t, p)
  <1> DEFINE a == s.approval[p]
             w == [a EXCEPT !.status = "approved"]
             u == [s EXCEPT !.approval = [s.approval EXCEPT ![p] = w]]
  <1>1. p \in Approval /\ a.status = "pending" BY DEF Pending
  <1>2. a \in ApprovalRow BY <1>1, DbFields
  <1>3. w \in ApprovalRow /\ w.status = "approved" /\ w.rev = a.rev
    BY <1>2, RowStatus DEF ApprovalStatus, ApprovalRow
  <1>4. IsCurrent(a.rev) BY DEF IsStale, IsCurrent
  <1>5. a.text \in Text \cup {NoText} /\ a.rev \in Revision BY <1>2 DEF ApprovalRow
  <1>6. [s EXCEPT !.approval[p].status = "approved"] = u BY <1>1, DbFields
  <1>7. PICK v \in WithReply(u, p, a.text, a.rev, "approval_request") :
          t = Granted(v, p, c)
    BY <1>6 DEF Approved
  <1>8. "approval_request" \in Origin BY DEF Origin
  <1> HIDE DEF a, w
  <1> QED BY <1>1, <1>3, <1>4, <1>5, <1>7, <1>8, GrantDecides DEF a

LEMMA SentDecides ==
  ASSUME NEW s \in Db, NEW p \in Pending(s), NEW c \in Command,
         NEW x \in Text \cup {NoText},
         ~IsStale(s.approval[p].rev), FeedbackFree(s, p, c),
         NEW t \in Sent(s, p, c, x)
  PROVE  t \in Db /\ Decides(s, t, p, c) /\ Grants(s, t, p)
  <1> DEFINE a == s.approval[p]
             w == [a EXCEPT !.status = "approved", !.text = x]
             u == [s EXCEPT !.approval = [s.approval EXCEPT ![p] = w]]
  <1>1. p \in Approval /\ a.status = "pending" BY DEF Pending
  <1>2. a \in ApprovalRow BY <1>1, DbFields
  <1>3. w \in ApprovalRow /\ w.status = "approved" /\ w.rev = a.rev
    BY <1>2, RowText DEF ApprovalStatus
  <1>4. IsCurrent(a.rev) BY DEF IsStale, IsCurrent
  <1>5. a.rev \in Revision BY <1>2 DEF ApprovalRow
  <1>6. [s EXCEPT !.approval[p].status = "approved", !.approval[p].text = x] = u
    BY <1>1, <1>2, DbFields DEF Db, ApprovalRow
  <1>7. PICK v \in WithReply(u, p, x, a.rev, "owner_send") : t = Granted(v, p, c)
    BY <1>6 DEF Sent
  <1>8. "owner_send" \in Origin BY DEF Origin
  <1> HIDE DEF a, w
  <1> QED BY <1>1, <1>3, <1>4, <1>5, <1>7, <1>8, GrantDecides DEF a

SourceType == source \in [revision : 1..MaxRevision, is_deleted : BOOLEAN]

LEMMA SentFreshDecides ==
  ASSUME SourceType, NEW s \in Db, NEW c \in Command, NEW x \in Text \cup {NoText},
         \A p \in Unused(s) : FeedbackFree(s, p, c),
         NEW t \in SentFresh(s, c, x)
  PROVE  t \in Db /\ \E p \in Unused(s) : Decides(s, t, p, c)
  <1> DEFINE r == LatestRevision
             w == [NoRow EXCEPT !.status = "approved", !.text = x, !.rev = r]
  <1>1. PICK p \in Unused(s) :
          t \in {Granted(v, p, c) :
                   v \in WithReply([s EXCEPT !.approval[p] = w], p, x, r, "owner_send")}
    BY DEF SentFresh
  <1>2. p \in Approval /\ s.approval[p].status = "none" BY DEF Unused
  <1>3. r \in Revision /\ IsCurrent(r)
    BY ApprovalsAssumption DEF SourceType, LatestRevision, Revision, IsCurrent
  <1> HIDE DEF r
  <1>4. w \in ApprovalRow /\ w.status = "approved" /\ w.rev = r
    BY <1>3 DEF NoRow, ApprovalRow, ApprovalStatus
  <1> HIDE DEF w
  <1>5. [s EXCEPT !.approval[p] = w] = [s EXCEPT !.approval = [s.approval EXCEPT ![p] = w]]
    OBVIOUS
  <1>6. PICK v \in WithReply([s EXCEPT !.approval = [s.approval EXCEPT ![p] = w]],
                             p, x, r, "owner_send") : t = Granted(v, p, c)
    BY <1>1, <1>5
  <1>7. "owner_send" \in Origin BY DEF Origin
  <1>8. FeedbackFree(s, p, c) OBVIOUS
  <1> QED BY <1>2, <1>3, <1>4, <1>6, <1>7, <1>8, GrantDecides

LEMMA RejectedDecides ==
  ASSUME NEW s \in Db, NEW p \in Pending(s), NEW c \in Command,
         NEW keep, FeedbackFree(s, p, c)
  PROVE  Rejected(s, p, c, keep) \in Db /\ Decides(s, Rejected(s, p, c, keep), p, c)
  <1> DEFINE w == [s.approval[p] EXCEPT !.status = "rejected"]
             f == [s.approval EXCEPT ![p] = w]
             F == s.feedback \cup {<<p, c>>}
             u == [s EXCEPT !.approval = f]
             t == [u EXCEPT !.feedback = F]
  <1>1. p \in Approval /\ s.approval[p].status = "pending" BY DEF Pending
  <1>2. w \in ApprovalRow /\ w.status = "rejected"
    BY <1>1, DbFields, RowStatus DEF ApprovalStatus
  <1>3. [s EXCEPT !.approval[p].status = "rejected", !.feedback = F] = t
    BY <1>1, DbFields DEF Db
  <1> DEFINE keeping == CancelActions(WithTask(t, "watching"), {p})
             ending == CancelActions(Ended(t, "closed", {"pending"}), {p})
  <1>4. Rejected(s, p, c, keep) = IF keep THEN keeping ELSE ending
    BY <1>3 DEF Rejected
  <1> HIDE DEF w
  <1>5. /\ f \in [Approval -> ApprovalRow] /\ f[p].status = "rejected"
        /\ \A q \in Approval \ {p} : f[q] = s.approval[q]
    BY <1>1, <1>2, DbFields
  <1>6. F \in SUBSET (Approval \X Command) BY <1>1, DbFields
  <1> HIDE DEF f
  <1>7. /\ u \in Db /\ u.approval = f /\ u.feedback = s.feedback
        /\ u.granted = s.granted
    BY <1>5, DbApproval
  <1> HIDE DEF u
  <1>8. t \in Db /\ t.approval = f /\ t.feedback = F /\ t.granted = s.granted
    BY <1>6, <1>7, DbFeedback
  <1> HIDE DEF t
  <1>9. Decides(s, t, p, c)
    <2>1. Refuses(s, t, p) BY <1>1, <1>5, <1>8 DEF Refuses
    <2>2. \A q \in Approval \ {p} :
            SameOrLapsed(s, t, q) /\ t.granted[q] = s.granted[q]
      BY <1>5, <1>8 DEF SameOrLapsed
    <2>3. Silent(s) => Silent(t) BY <1>5, <1>8 DEF Silent
    <2> QED BY <2>1, <2>2, <2>3, <1>8 DEF Decides
  <1>10. /\ keeping \in Db /\ Lapses(t, keeping)
         /\ keeping.approval[p].status = t.approval[p].status
    <2> DEFINE x == WithTask(t, "watching")
    <2>1. x \in Db /\ Lapses(t, x) /\ x.approval = t.approval
      BY <1>8, WithTaskLapses DEF TaskStatus
    <2> HIDE DEF x
    <2>2. /\ CancelActions(x, {p}) \in Db /\ Lapses(x, CancelActions(x, {p}))
          /\ CancelActions(x, {p}).approval[p].status = x.approval[p].status
      BY <1>1, <2>1, CancelActionsLapses
    <2>3. keeping = CancelActions(x, {p}) BY DEF x
    <2> HIDE DEF keeping
    <2> QED BY <2>1, <2>2, <2>3, LapsesTrans
  <1>11. /\ ending \in Db /\ Lapses(t, ending)
         /\ ending.approval[p].status = t.approval[p].status
    <2> DEFINE x == Ended(t, "closed", {"pending"})
    <2>1. p \notin Pending(t) BY <1>5, <1>8 DEF Pending
    <2>2. x \in Db /\ Lapses(t, x) /\ x.approval[p] = t.approval[p]
      BY <1>1, <1>8, <2>1, EndedLapses DEF TaskStatus
    <2> HIDE DEF x
    <2>3. /\ CancelActions(x, {p}) \in Db /\ Lapses(x, CancelActions(x, {p}))
          /\ CancelActions(x, {p}).approval[p].status = x.approval[p].status
      BY <1>1, <2>2, CancelActionsLapses
    <2>4. ending = CancelActions(x, {p}) BY DEF x
    <2> HIDE DEF ending
    <2> QED BY <2>2, <2>3, <2>4, LapsesTrans
  <1> HIDE DEF keeping, ending
  <1>12. Refuses(s, t, p) BY <1>1, <1>5, <1>8 DEF Refuses
  <1>13. Decides(s, keeping, p, c)
    BY <1>9, <1>10, <1>12 DEF Decides, Refuses, Lapses, SameOrLapsed
  <1>14. Decides(s, ending, p, c)
    BY <1>9, <1>11, <1>12 DEF Decides, Refuses, Lapses, SameOrLapsed
  <1> QED BY <1>4, <1>10, <1>11, <1>13, <1>14

LEMMA FoundStaleLapses ==
  ASSUME NEW s \in Db, NEW p \in Approval, NEW c \in Command
  PROVE  FoundStale(s, p, c) \in Db /\ Lapses(s, FoundStale(s, p, c))
  <1> DEFINE t == Expired(s, {p})
             F == t.stale \cup {<<p, c>>}
  <1>1. t \in Db /\ Lapses(s, t) BY ExpiredLapses
  <1> HIDE DEF t
  <1>2. F \in SUBSET (Approval \X Command) BY <1>1, DbFields
  <1>3. FoundStale(s, p, c) = [t EXCEPT !.stale = F] BY DEF FoundStale, t
  <1> HIDE DEF F
  <1>4. [t EXCEPT !.stale = F] \in Db /\ Lapses(t, [t EXCEPT !.stale = F])
    BY <1>1, <1>2, DbStale DEF Lapses, SameOrLapsed, Silent
  <1> QED BY <1>1, <1>3, <1>4, LapsesTrans

-----------------------------------------------------------------------------
(* A command as a whole. *)

LEMMA RecordedLapses ==
  ASSUME NEW s \in Db, NEW c \in Command, NEW v \in {"none", "applied", "failed"}
  PROVE  /\ Recorded(s, c, v) \in Db /\ Lapses(s, Recorded(s, c, v))
         /\ Recorded(s, c, v).approval = s.approval
  <1> DEFINE f == [s.recorded EXCEPT ![c] = v]
  <1>1. f \in [Command -> {"none", "applied", "failed"}] BY DbFields
  <1>2. Recorded(s, c, v) = [s EXCEPT !.recorded = f] BY DEF Recorded
  <1> HIDE DEF f
  <1> QED BY <1>1, <1>2, DbRecorded DEF Lapses, SameOrLapsed, Silent

LEMMA EffectsDecide ==
  ASSUME SourceType, NEW s \in Db, NEW c \in Command, NEW rq \in Requests,
         ~Raises(s, c, rq), NEW t \in Effects(s, c, rq)
  PROVE  t \in Db /\ (Lapses(s, t) \/ \E p \in Approval : Decides(s, t, p, c))
  <1> DEFINE named == Named(s, rq.target)
             p == CHOOSE q \in named : TRUE
  <1>1. /\ rq.verb \in {"approve", "reject", "send"}
        /\ rq.text \in Text \cup {NoText}
    BY ApprovalsAssumption DEF RequestType
  <1>2. named \subseteq Pending(s) BY DEF Named
  <1>3. CASE Conflict(s, rq)
    BY <1>3 DEF Effects, Lapses, SameOrLapsed
  <1>4. CASE ~Conflict(s, rq) /\ named = {}
    <2>1. rq.verb = "send" /\ \A q \in Unused(s) : FeedbackFree(s, q, c)
      BY <1>1, <1>4 DEF Raises
    <2>2. t \in SentFresh(s, c, rq.text) BY <1>4 DEF Effects
    <2> QED BY <1>1, <2>1, <2>2, SentFreshDecides DEF Unused
  <1>5. CASE ~Conflict(s, rq) /\ named # {} /\ IsStale(s.approval[p].rev)
    <2>1. p \in named BY <1>5
    <2>2. p \in Approval BY <1>2, <2>1 DEF Pending
    <2>3. t = FoundStale(s, p, c) BY <1>5 DEF Effects
    <2> HIDE DEF p
    <2> QED BY <2>2, <2>3, FoundStaleLapses
  <1>6. CASE ~Conflict(s, rq) /\ named # {} /\ ~IsStale(s.approval[p].rev)
    <2>1. p \in named BY <1>6
    <2>2. p \in Pending(s) /\ p \in Approval BY <1>2, <2>1 DEF Pending
    <2>3. FeedbackFree(s, p, c) BY <1>6, <2>1 DEF Raises
    <2>4. /\ rq.verb = "approve" => t \in Approved(s, p, c)
          /\ rq.verb = "reject" => t = Rejected(s, p, c, KeepsWatching(s, p, rq))
          /\ rq.verb = "send" => t \in Sent(s, p, c, rq.text)
      BY <1>6 DEF Effects
    <2>5. ~IsStale(s.approval[p].rev) BY <1>6
    <2> HIDE DEF p
    <2>6. CASE rq.verb = "approve" BY <2>2, <2>3, <2>4, <2>5, <2>6, ApprovedDecides
    <2>7. CASE rq.verb = "reject" BY <2>2, <2>3, <2>4, <2>7, RejectedDecides
    <2>8. CASE rq.verb = "send" BY <1>1, <2>2, <2>3, <2>4, <2>5, <2>8, SentDecides
    <2> QED BY <1>1, <2>6, <2>7, <2>8
  <1> QED BY <1>3, <1>4, <1>5, <1>6

LEMMA OutcomesDecide ==
  ASSUME SourceType, NEW s \in Db, NEW c \in Command, NEW rq \in Requests,
         NEW e \in Outcomes(s, c, rq)
  PROVE  /\ e.db \in Db /\ e.status \in {"applied", "failed"}
         /\ Lapses(s, e.db) \/ \E p \in Approval : Decides(s, e.db, p, c)
  <1>1. CASE Raises(s, c, rq)
    <2>1. e = [db |-> s, status |-> "failed"] BY <1>1 DEF Outcomes
    <2> QED BY <2>1 DEF Lapses, SameOrLapsed
  <1>2. CASE ~Raises(s, c, rq)
    <2>1. PICK t \in Effects(s, c, rq) :
            e = [db |-> t, status |-> IF Conflict(s, rq) THEN "failed" ELSE "applied"]
      BY <1>2 DEF Outcomes
    <2>2. e.db = t /\ e.status \in {"applied", "failed"} BY <2>1
    <2> QED BY <1>2, <2>2, EffectsDecide
  <1> QED BY <1>1, <1>2

-----------------------------------------------------------------------------
(* Every step is one of the relations and keeps the types. *)

\* A command being applied is a command, and its content is known.
ClientInv ==
  \A k \in Client : client[k].pc \in {"apply", "record"}
                    => client[k].cmd \in Command /\ request[client[k].cmd] \in Requests

TypeInv == TypeOK /\ ClientInv

DecidesNothing == Lapses(db, db') \/ \E p \in Approval : Asks(db, db', p)

DbStep ==
  DecidesNothing \/ \E p \in Approval, c \in Command : Decides(db, db', p, c)

LEMMA DbUnchanged == db' = db => DecidesNothing
  BY DEF DecidesNothing, Lapses, SameOrLapsed

LEMMA InitType == Init => TypeInv
  <1> SUFFICES ASSUME Init PROVE TypeInv OBVIOUS
  <1>1. 0 \in Revision BY ApprovalsAssumption DEF Revision
  <1>2. NoRow \in ApprovalRow BY <1>1 DEF NoRow, ApprovalRow, ApprovalStatus
  <1>3. NoReply \in ReplyRow BY <1>1 DEF NoReply, ReplyRow, ReplyStatus
  <1>4. db \in Db BY <1>2, <1>3 DEF Init, Db, TaskStatus
  <1>5. IdleClient \in ClientState BY DEF IdleClient, ClientState
  <1>6. IdleDaemon \in DaemonState BY <1>1 DEF IdleDaemon, DaemonState
  <1>7. ClientInv BY DEF Init, ClientInv, IdleClient
  <1>8. source \in [revision : 1..MaxRevision, is_deleted : BOOLEAN]
    BY ApprovalsAssumption DEF Init
  <1>9. faults \in 0..MaxFault BY ApprovalsAssumption DEF Init
  <1> QED BY <1>4, <1>5, <1>6, <1>7, <1>8, <1>9 DEF Init, TypeInv, TypeOK

LEMMA SetClientType ==
  ASSUME TypeInv, NEW k \in Client, NEW x \in ClientState, SetClient(k, x),
         \A c \in Command : request[c] \in Requests => request'[c] = request[c],
         x.pc \in {"apply", "record"}
           => x.cmd \in Command /\ request'[x.cmd] \in Requests
  PROVE  client' \in [Client -> ClientState] /\ ClientInv'
  <1>1. client' \in [Client -> ClientState] BY DEF TypeInv, TypeOK, SetClient
  <1>2. client'[k] = x /\ \A l \in Client \ {k} : client'[l] = client[l]
    BY DEF TypeInv, TypeOK, SetClient
  <1>3. ClientInv' BY <1>2 DEF TypeInv, ClientInv
  <1> QED BY <1>1, <1>3

LEMMA IdleClientType ==
  /\ IdleClient \in ClientState /\ IdleClient.pc = "idle"
  /\ \A x \in {"close", "reopen"} :
       [IdleClient EXCEPT !.pc = x] \in ClientState /\ [IdleClient EXCEPT !.pc = x].pc = x
  BY DEF IdleClient, ClientState

LEMMA SetDaemonType ==
  ASSUME TypeInv, NEW d \in Daemon, NEW x \in DaemonState, SetDaemon(d, x)
  PROVE  daemon' \in [Daemon -> DaemonState]
  BY DEF TypeInv, TypeOK, SetDaemon

LEMMA IdleDaemonType == IdleDaemon \in DaemonState
  BY ApprovalsAssumption DEF IdleDaemon, DaemonState, Revision

LEMMA DaemonPc ==
  ASSUME NEW x \in DaemonState, NEW y \in {"idle", "agent", "request", "reply",
                                           "watch", "route", "fence"}
  PROVE  [x EXCEPT !.pc = y] \in DaemonState
  BY DEF DaemonState

\* The client, the request and the daemon are left alone.
LEMMA KeepTypes ==
  ASSUME TypeInv, db' \in Db, UNCHANGED <<client, request>>,
         source' \in [revision : 1..MaxRevision, is_deleted : BOOLEAN],
         overdue' \subseteq Approval, faults' \in 0..MaxFault,
         daemon' \in [Daemon -> DaemonState]
  PROVE  TypeInv'
  BY DEF TypeInv, TypeOK, ClientInv

LEMMA StepBegin ==
  ASSUME TypeInv, NEW k \in Client, NEW c \in Command, NEW rq \in Requests,
         Begin(k, c, rq)
  PROVE  TypeInv' /\ DecidesNothing
  <1> DEFINE x == [IdleClient EXCEPT !.pc = "apply", !.cmd = c, !.late = overdue]
  <1>1. x \in ClientState /\ x.pc = "apply" /\ x.cmd = c
    BY DEF IdleClient, ClientState, TypeInv, TypeOK
  <1>2. SetClient(k, x) BY DEF Begin
  <1> HIDE DEF x
  <1>3. /\ request' \in [Command -> Requests \cup {NoRequest}] /\ request'[c] = rq
        /\ \A b \in Command : request[b] \in Requests => request'[b] = request[b]
    BY ApprovalsAssumption DEF Begin, TypeInv, TypeOK
  <1>4. client' \in [Client -> ClientState] /\ ClientInv'
    BY <1>1, <1>2, <1>3, SetClientType
  <1> QED BY <1>3, <1>4, DbUnchanged DEF Begin, TypeInv, TypeOK

LEMMA StepApplyWithExpiry ==
  ASSUME TypeInv, NEW k \in Client, NEW c \in Command, NEW rq \in Requests,
         ApplyWithExpiry(k, c, rq)
  PROVE  TypeInv' /\ DbStep
  <1> DEFINE s == Expired(db, Lapsed(db, rq))
  <1>1. s \in Db /\ Lapses(db, s) BY ExpiredLapses DEF TypeInv, TypeOK
  <1>2. \/ db.recorded[c] # "none" /\ db' = s
        \/ \E e \in Outcomes(s, c, rq) : db' = Recorded(e.db, c, e.status)
    BY DEF ApplyWithExpiry
  <1> HIDE DEF s
  <1>3. db' \in Db /\ DbStep
    <2>1. CASE db' = s BY <1>1, <2>1 DEF DbStep, DecidesNothing
    <2>2. ASSUME NEW e \in Outcomes(s, c, rq), db' = Recorded(e.db, c, e.status)
          PROVE  db' \in Db /\ DbStep
      <3>1. /\ e.db \in Db /\ e.status \in {"applied", "failed"}
            /\ Lapses(s, e.db) \/ \E p \in Approval : Decides(s, e.db, p, c)
        BY <1>1, OutcomesDecide DEF TypeInv, TypeOK, SourceType
      <3>2. db' \in Db /\ Lapses(e.db, db') /\ db'.approval = e.db.approval
        BY <2>2, <3>1, RecordedLapses
      <3>3. CASE Lapses(s, e.db)
        BY <1>1, <3>2, <3>3, LapsesTrans DEF DbStep, DecidesNothing
      <3>4. ASSUME NEW p \in Approval, Decides(s, e.db, p, c)
            PROVE  DbStep
        <4>1. Decides(db, e.db, p, c) BY <1>1, <3>4, LapsesDecides
        <4>2. Decides(db, db', p, c) BY <3>2, <4>1, DecidesLapses
        <4> QED BY <4>2 DEF DbStep, DecidesNothing
      <3> QED BY <3>1, <3>2, <3>3, <3>4
    <2> QED BY <1>2, <2>1, <2>2
  <1>4. /\ request' \in [Command -> Requests \cup {NoRequest}]
        /\ \A b \in Command : request[b] \in Requests => request'[b] = request[b]
    BY ApprovalsAssumption DEF ApplyWithExpiry, TypeInv, TypeOK
  <1>5. ClientInv' BY <1>4 DEF ApplyWithExpiry, TypeInv, ClientInv
  <1> QED BY <1>3, <1>4, <1>5 DEF ApplyWithExpiry, TypeInv, TypeOK

\* A client at work keeps its command.
LEMMA WorkingClient ==
  ASSUME TypeInv, NEW k \in Client, client[k].pc \in {"apply", "record"}
  PROVE  /\ client[k].cmd \in Command /\ request[client[k].cmd] \in Requests
         /\ \A v \in {"applied", "failed"} :
              LET x == [client[k] EXCEPT !.pc = "record", !.status = v] IN
              x \in ClientState /\ x.cmd = client[k].cmd
  <1>1. client[k] \in ClientState BY DEF TypeInv, TypeOK
  <1>2. ASSUME NEW v \in {"applied", "failed"}
        PROVE  LET x == [client[k] EXCEPT !.pc = "record", !.status = v] IN
               x \in ClientState /\ x.cmd = client[k].cmd
    BY <1>1 DEF ClientState
  <1> QED BY <1>2 DEF TypeInv, ClientInv

LEMMA StepApply ==
  ASSUME TypeInv, NEW k \in Client, Apply(k)
  PROVE  TypeInv' /\ DbStep
  <1> DEFINE c == client[k].cmd
  <1>1. PICK e \in Outcomes(db, c, request[c]) :
          /\ db' = e.db
          /\ SetClient(k, [client[k] EXCEPT !.pc = "record", !.status = e.status])
    BY DEF Apply
  <1>2. c \in Command /\ request[c] \in Requests BY WorkingClient DEF Apply
  <1>3. /\ e.db \in Db /\ e.status \in {"applied", "failed"}
        /\ Lapses(db, e.db) \/ \E p \in Approval : Decides(db, e.db, p, c)
    BY <1>2, OutcomesDecide DEF TypeInv, TypeOK, SourceType
  <1> DEFINE x == [client[k] EXCEPT !.pc = "record", !.status = e.status]
  <1>4. x \in ClientState /\ x.cmd = c BY <1>3, WorkingClient DEF Apply
  <1> HIDE DEF x, c
  <1>5. request' = request BY DEF Apply
  <1>6. SetClient(k, x) BY <1>1 DEF x
  <1>7. client' \in [Client -> ClientState] /\ ClientInv'
    BY <1>2, <1>4, <1>5, <1>6, SetClientType
  <1> QED BY <1>1, <1>2, <1>3, <1>7 DEF Apply, TypeInv, TypeOK, DbStep, DecidesNothing

LEMMA StepLockFails ==
  ASSUME TypeInv, NEW k \in Client, LockFails(k)
  PROVE  TypeInv' /\ DecidesNothing
  <1> DEFINE x == [client[k] EXCEPT !.pc = "record", !.status = "failed"]
  <1>1. /\ x \in ClientState /\ x.cmd = client[k].cmd
        /\ client[k].cmd \in Command /\ request[client[k].cmd] \in Requests
    BY WorkingClient DEF LockFails
  <1>2. SetClient(k, x) /\ request' = request BY DEF LockFails
  <1> HIDE DEF x
  <1>3. client' \in [Client -> ClientState] /\ ClientInv'
    BY <1>1, <1>2, SetClientType
  <1>4. faults' \in 0..MaxFault
    BY ApprovalsAssumption DEF LockFails, TypeInv, TypeOK
  <1> QED BY <1>3, <1>4, DbUnchanged DEF LockFails, TypeInv, TypeOK

\* Steps that leave the client idle, closing or reopening.
LEMMA ClientRests ==
  ASSUME TypeInv, NEW k \in Client, NEW x \in ClientState, SetClient(k, x),
         x.pc \notin {"apply", "record"}, request' = request
  PROVE  client' \in [Client -> ClientState] /\ ClientInv'
  BY SetClientType

LEMMA StepRecord ==
  ASSUME TypeInv, NEW k \in Client, Record(k)
  PROVE  TypeInv' /\ DecidesNothing
  <1> DEFINE c == client[k].cmd
  <1>1. c \in Command BY WorkingClient DEF Record
  <1>2. client[k].status \in {"none", "applied", "failed"}
    BY DEF TypeInv, TypeOK, ClientState
  <1>3. db' = db \/ db' = Recorded(db, c, client[k].status) BY DEF Record
  <1>4. db \in Db BY DEF TypeInv, TypeOK
  <1>5. Recorded(db, c, client[k].status) \in Db
        /\ Lapses(db, Recorded(db, c, client[k].status))
    <2> HIDE DEF c
    <2> QED BY <1>1, <1>2, <1>4, RecordedLapses
  <1>6. Lapses(db, db) BY DEF Lapses, SameOrLapsed
  <1>7. db' \in Db /\ Lapses(db, db') BY <1>3, <1>4, <1>5, <1>6
  <1>8. client' \in [Client -> ClientState] /\ ClientInv'
    BY IdleClientType, ClientRests DEF Record
  <1> QED BY <1>7, <1>8 DEF Record, TypeInv, TypeOK, DecidesNothing

LEMMA StepClientCrash ==
  ASSUME TypeInv, NEW k \in Client, ClientCrash(k)
  PROVE  TypeInv' /\ DecidesNothing
  <1>1. client' \in [Client -> ClientState] /\ ClientInv'
    BY IdleClientType, ClientRests DEF ClientCrash
  <1>2. faults' \in 0..MaxFault
    BY ApprovalsAssumption DEF ClientCrash, TypeInv, TypeOK
  <1> QED BY <1>1, <1>2, DbUnchanged DEF ClientCrash, TypeInv, TypeOK

LEMMA StepCloseReopen ==
  ASSUME TypeInv, NEW k \in Client,
         BeginClose(k) \/ EndClose(k) \/ BeginReopen(k) \/ EndReopen(k)
  PROVE  TypeInv' /\ DecidesNothing
  <1> USE DEF BeginClose, EndClose, BeginReopen, EndReopen
  <1>1. client' \in [Client -> ClientState] /\ ClientInv'
    <2>1. CASE BeginClose(k)
      <3> DEFINE x == [IdleClient EXCEPT !.pc = "close"]
      <3>1. x \in ClientState /\ x.pc = "close" BY IdleClientType
      <3>2. SetClient(k, x) BY <2>1
      <3> HIDE DEF x
      <3> QED BY <2>1, <3>1, <3>2, ClientRests
    <2>2. CASE BeginReopen(k)
      <3> DEFINE x == [IdleClient EXCEPT !.pc = "reopen"]
      <3>1. x \in ClientState /\ x.pc = "reopen" BY IdleClientType
      <3>2. SetClient(k, x) BY <2>2
      <3> HIDE DEF x
      <3> QED BY <2>2, <3>1, <3>2, ClientRests
    <2>3. CASE EndClose(k) \/ EndReopen(k)
      BY <2>3, IdleClientType, ClientRests
    <2> QED BY <2>1, <2>2, <2>3
  <1>2. db' \in Db /\ Lapses(db, db')
    <2>1. db' = db \/ db' = ClosedByOperator(db) \/ db' = WithTask(db, "watching")
      OBVIOUS
    <2> QED BY <2>1, ClosedByOperatorLapses, WithTaskLapses
        DEF TypeInv, TypeOK, TaskStatus, Lapses, SameOrLapsed
  <1> QED BY <1>1, <1>2 DEF TypeInv, TypeOK, DecidesNothing

LEMMA StepStartSession ==
  ASSUME TypeInv, NEW d \in Daemon, StartSession(d)
  PROVE  TypeInv' /\ DecidesNothing
  <1> DEFINE x == [IdleDaemon EXCEPT !.pc = "agent", !.rev = source.revision]
  <1>0. source.revision \in Revision
    BY ApprovalsAssumption DEF Revision, TypeInv, TypeOK
  <1>1. x \in DaemonState BY <1>0, IdleDaemonType DEF DaemonState
  <1>2. SetDaemon(d, x) BY DEF StartSession
  <1> HIDE DEF x
  <1>3. daemon' \in [Daemon -> DaemonState] BY <1>1, <1>2, SetDaemonType
  <1> QED BY <1>3, DbUnchanged, KeepTypes DEF StartSession, TypeInv, TypeOK

\* The answers write the task's status, or end the task.
LEMMA StepAnswer ==
  ASSUME TypeInv, NEW d \in Daemon, NEW x \in DaemonState, SetDaemon(d, x),
         UNCHANGED <<source, overdue, request, client, faults>>,
         db' = Escalated(db) \/ \E v \in TaskStatus : db' = WithTask(db, v)
  PROVE  TypeInv' /\ DecidesNothing
  <1>1. db' \in Db /\ Lapses(db, db')
    BY EscalatedLapses, WithTaskLapses DEF TypeInv, TypeOK
  <1>2. daemon' \in [Daemon -> DaemonState] BY SetDaemonType
  <1> QED BY <1>1, <1>2, KeepTypes DEF DecidesNothing, TypeInv, TypeOK

LEMMA StepAnswerApproval ==
  ASSUME TypeInv, NEW d \in Daemon, NEW x \in Text \cup {NoText},
         NEW keep \in BOOLEAN, AnswerApproval(d, x, keep)
  PROVE  TypeInv' /\ DecidesNothing
  <1> DEFINE y == [daemon[d] EXCEPT !.pc = "request", !.text = x, !.keep = keep]
  <1>1. daemon[d] \in DaemonState BY DEF TypeInv, TypeOK
  <1>2. y \in DaemonState BY <1>1 DEF DaemonState
  <1>3. SetDaemon(d, y) BY DEF AnswerApproval
  <1> HIDE DEF y
  <1>4. db' = WithTask(db, "watching") /\ "watching" \in TaskStatus
    BY DEF AnswerApproval, TaskStatus
  <1> QED BY <1>2, <1>3, <1>4, StepAnswer DEF AnswerApproval

LEMMA StepAnswerReply ==
  ASSUME TypeInv, NEW d \in Daemon, NEW x \in Text,
         NEW v \in {"watching", "closed"}, AnswerReply(d, x, v)
  PROVE  TypeInv' /\ DecidesNothing
  <1> DEFINE y == [daemon[d] EXCEPT !.pc = "reply", !.text = x]
  <1>1. daemon[d] \in DaemonState BY DEF TypeInv, TypeOK
  <1>2. y \in DaemonState BY <1>1 DEF DaemonState
  <1>3. SetDaemon(d, y) BY DEF AnswerReply
  <1> HIDE DEF y
  <1>4. db' = WithTask(db, v) /\ v \in TaskStatus BY DEF AnswerReply, TaskStatus
  <1> QED BY <1>2, <1>3, <1>4, StepAnswer DEF AnswerReply

LEMMA StepAnswerQuiet ==
  ASSUME TypeInv, NEW d \in Daemon, NEW v \in {"watching", "closed"},
         AnswerQuiet(d, v)
  PROVE  TypeInv' /\ DecidesNothing
  <1>1. db' = WithTask(db, v) /\ v \in TaskStatus BY DEF AnswerQuiet, TaskStatus
  <1> QED BY <1>1, StepAnswer, IdleDaemonType DEF AnswerQuiet

LEMMA StepAnswerEscalate ==
  ASSUME TypeInv, NEW d \in Daemon, AnswerEscalate(d)
  PROVE  TypeInv' /\ DecidesNothing
  BY StepAnswer, IdleDaemonType DEF AnswerEscalate

LEMMA StepEndRoute ==
  ASSUME TypeInv, NEW d \in Daemon, NEW v \in {"watching", db.task}, EndRoute(d, v)
  PROVE  TypeInv' /\ DecidesNothing
  <1>1. db' = WithTask(db, v) /\ v \in TaskStatus
    BY DbFields DEF EndRoute, TaskStatus, TypeInv, TypeOK
  <1> QED BY <1>1, StepAnswer, IdleDaemonType DEF EndRoute

LEMMA RequestedAsks ==
  ASSUME NEW s \in Db, NEW p \in Unused(s), NEW r \in Revision,
         NEW x \in Text \cup {NoText}, NEW keep \in BOOLEAN
  PROVE  Requested(s, p, r, x, keep) \in Db /\ Asks(s, Requested(s, p, r, x, keep), p)
  <1> DEFINE w == [status |-> "pending", rev |-> r, text |-> x, keep |-> keep,
                   notice |-> "pending"]
             f == [s.approval EXCEPT ![p] = w]
  <1>1. p \in Approval /\ s.approval[p].status = "none" BY DEF Unused
  <1>2. w \in ApprovalRow /\ w.status = "pending" BY DEF ApprovalRow, ApprovalStatus
  <1>3. Requested(s, p, r, x, keep) = [s EXCEPT !.approval = f] BY DEF Requested
  <1> HIDE DEF w
  <1>4. /\ f \in [Approval -> ApprovalRow] /\ f[p] = w
        /\ \A q \in Approval \ {p} : f[q] = s.approval[q]
    BY <1>1, <1>2, DbFields
  <1> HIDE DEF f
  <1>5. Silent(s) => Silent([s EXCEPT !.approval = f])
    BY <1>2, <1>4, DbApproval DEF Silent
  <1> QED BY <1>1, <1>2, <1>3, <1>4, <1>5, DbApproval DEF Asks

LEMMA StepAnswerCorrection ==
  ASSUME TypeInv, NEW d \in Daemon, NEW x \in Text \cup {NoText},
         AnswerCorrection(d, x)
  PROVE  TypeInv' /\ DecidesNothing
  <1>1. daemon[d] \in DaemonState /\ daemon[d].rev \in Revision
    BY DEF TypeInv, TypeOK, DaemonState
  <1>2. PICK p \in Unused(db) : db' = Requested(db, p, daemon[d].rev, x, FALSE)
    BY DEF AnswerCorrection
  <1>3. db' \in Db /\ Asks(db, db', p)
    BY <1>1, <1>2, RequestedAsks DEF TypeInv, TypeOK
  <1>4. p \in Approval BY DEF Unused
  <1> DEFINE y == [daemon[d] EXCEPT !.pc = "watch"]
  <1>5. y \in DaemonState BY <1>1, DaemonPc
  <1>6. SetDaemon(d, y) BY DEF AnswerCorrection, Goto
  <1> HIDE DEF y
  <1>7. daemon' \in [Daemon -> DaemonState] BY <1>5, <1>6, SetDaemonType
  <1> QED BY <1>3, <1>4, <1>7, KeepTypes DEF AnswerCorrection, DecidesNothing, TypeInv, TypeOK

LEMMA StepWrite ==
  ASSUME TypeInv, NEW d \in Daemon, Write(d)
  PROVE  TypeInv' /\ DecidesNothing
  <1> DEFINE r == daemon[d].rev
             x == daemon[d].text
  <1>1. daemon[d] \in DaemonState BY DEF TypeInv, TypeOK
  <1>2. r \in Revision /\ x \in Text \cup {NoText} /\ daemon[d].keep \in BOOLEAN
    BY <1>1 DEF DaemonState
  <1>3. \/ db' = db
        \/ \E p \in Unused(db) : db' = Requested(db, p, r, x, daemon[d].keep)
        \/ db' \in WithReply(db, NoApproval, x, r, "auto_reply")
        \/ db' = WithTask(db, "watching")
    BY DEF Write
  <1>4. daemon' \in [Daemon -> DaemonState]
    BY IdleDaemonType, SetDaemonType DEF Write
  <1> HIDE DEF r, x
  <1>5. db' \in Db /\ DecidesNothing
    <2>1. CASE db' = db BY <2>1, DbUnchanged DEF TypeInv, TypeOK
    <2>2. ASSUME NEW p \in Unused(db), db' = Requested(db, p, r, x, daemon[d].keep)
          PROVE  db' \in Db /\ DecidesNothing
      <3>1. db' \in Db /\ Asks(db, db', p)
        BY <1>2, <2>2, RequestedAsks DEF TypeInv, TypeOK
      <3> QED BY <3>1 DEF DecidesNothing, Unused
    <2>3. CASE db' \in WithReply(db, NoApproval, x, r, "auto_reply")
      <3>1. "auto_reply" \in Origin BY DEF Origin
      <3>2. /\ db' \in Db /\ db'.approval = db.approval /\ db'.feedback = db.feedback
            /\ \A q \in Approval : db'.granted[q] = db.granted[q]
        BY <1>2, <2>3, <3>1, WithReplyEffect, ApprovalsAssumption DEF TypeInv, TypeOK
      <3>3. db'.granted = db.granted
        <4>1. db'.granted \in [Approval -> Nat] /\ db.granted \in [Approval -> Nat]
          BY <3>2, DbFields DEF TypeInv, TypeOK
        <4> QED BY <3>2, <4>1
      <3> QED BY <3>2, <3>3 DEF DecidesNothing, Lapses, SameOrLapsed, Silent
    <2>4. CASE db' = WithTask(db, "watching")
      BY <2>4, WithTaskLapses DEF DecidesNothing, TaskStatus, TypeInv, TypeOK
    <2> QED BY <1>3, <2>1, <2>2, <2>3, <2>4
  <1> QED BY <1>4, <1>5, KeepTypes DEF Write, TypeInv, TypeOK

LEMMA StepBeginRoute ==
  ASSUME TypeInv, NEW d \in Daemon, BeginRoute(d)
  PROVE  TypeInv' /\ DecidesNothing
  <1> DEFINE y == [daemon[d] EXCEPT !.pc = "route"]
  <1>1. y \in DaemonState BY DaemonPc DEF TypeInv, TypeOK
  <1>2. SetDaemon(d, y) BY DEF BeginRoute, Goto
  <1> HIDE DEF y
  <1>3. daemon' \in [Daemon -> DaemonState] BY <1>1, <1>2, SetDaemonType
  <1> QED BY <1>3, DbUnchanged, KeepTypes DEF BeginRoute, TypeInv, TypeOK

LEMMA StepUpsert ==
  ASSUME TypeInv, NEW d \in Daemon, NEW deleted \in BOOLEAN, Upsert(d, deleted)
  PROVE  TypeInv' /\ DecidesNothing
  <1> DEFINE y == [daemon[d] EXCEPT !.pc = "fence"]
  <1>1. y \in DaemonState BY DaemonPc DEF TypeInv, TypeOK
  <1>2. SetDaemon(d, y) BY DEF Upsert, Goto
  <1> HIDE DEF y
  <1>3. daemon' \in [Daemon -> DaemonState] BY <1>1, <1>2, SetDaemonType
  <1>4. source' \in [revision : 1..MaxRevision, is_deleted : BOOLEAN]
    BY ApprovalsAssumption DEF Upsert, TypeInv, TypeOK
  <1> QED BY <1>3, <1>4, DbUnchanged, KeepTypes DEF Upsert, TypeInv, TypeOK

LEMMA StepInvalidate ==
  ASSUME TypeInv, NEW d \in Daemon, Invalidate(d)
  PROVE  TypeInv' /\ DecidesNothing
  <1>1. db' \in Db /\ Lapses(db, db') BY FencedLapses DEF Invalidate, TypeInv, TypeOK
  <1>2. daemon' \in [Daemon -> DaemonState]
    BY IdleDaemonType, SetDaemonType DEF Invalidate
  <1> QED BY <1>1, <1>2, KeepTypes DEF Invalidate, DecidesNothing, TypeInv, TypeOK

LEMMA StepTakeOver ==
  ASSUME TypeInv, NEW d \in Daemon, TakeOver(d)
  PROVE  TypeInv' /\ DecidesNothing
  <1>1. db' \in Db /\ Lapses(db, db') BY TakenOverLapses DEF TakeOver, TypeInv, TypeOK
  <1> QED BY <1>1, KeepTypes DEF TakeOver, DecidesNothing, TypeInv, TypeOK

LEMMA StepDaemonCrash ==
  ASSUME TypeInv, NEW d \in Daemon, DaemonCrash(d)
  PROVE  TypeInv' /\ DecidesNothing
  <1>1. daemon' \in [Daemon -> DaemonState]
    BY IdleDaemonType, SetDaemonType DEF DaemonCrash
  <1>2. faults' \in 0..MaxFault
    BY ApprovalsAssumption DEF DaemonCrash, TypeInv, TypeOK
  <1> QED BY <1>1, <1>2, DbUnchanged, KeepTypes DEF DaemonCrash, TypeInv, TypeOK

LEMMA StepPassDeadline ==
  ASSUME TypeInv, NEW p \in Approval, PassDeadline(p)
  PROVE  TypeInv' /\ DecidesNothing
  BY DbUnchanged, KeepTypes DEF PassDeadline, TypeInv, TypeOK

LEMMA StepExpireApprovals ==
  ASSUME TypeInv, ExpireApprovals
  PROVE  TypeInv' /\ DecidesNothing
  <1>1. db' \in Db /\ Lapses(db, db')
    BY ExpiredLapses DEF ExpireApprovals, TypeInv, TypeOK
  <1> QED BY <1>1, KeepTypes DEF ExpireApprovals, DecidesNothing, TypeInv, TypeOK

LEMMA StepDispatchReply ==
  ASSUME TypeInv, NEW a \in Reply, DispatchReply(a)
  PROVE  TypeInv' /\ DecidesNothing
  <1>1. PICK v \in Moves(db, a) : db' = [db EXCEPT !.reply[a].status = v]
    BY DEF DispatchReply
  <1>2. v \in ReplyStatus BY DEF Moves, ReplyStatus
  <1> DEFINE w == [db.reply[a] EXCEPT !.status = v]
             f == [db.reply EXCEPT ![a] = w]
  <1>3. db \in Db BY DEF TypeInv, TypeOK
  <1>4. w \in ReplyRow BY <1>2, <1>3, DbFields, ReplyStatusType
  <1>5. db' = [db EXCEPT !.reply = f] BY <1>1
  <1> HIDE DEF w
  <1>6. f \in [Reply -> ReplyRow] BY <1>3, <1>4, DbFields
  <1> HIDE DEF f
  <1>7. db' \in Db /\ Lapses(db, db')
    BY <1>3, <1>5, <1>6, DbReply DEF Lapses, SameOrLapsed, Silent
  <1> QED BY <1>7, KeepTypes DEF DispatchReply, DecidesNothing, TypeInv, TypeOK

LEMMA StepDispatchNotice ==
  ASSUME TypeInv, NEW p \in Approval, DispatchNotice(p)
  PROVE  TypeInv' /\ DecidesNothing
  <1> DEFINE w == [db.approval[p] EXCEPT !.notice = "sent"]
             f == [db.approval EXCEPT ![p] = w]
  <1>1. db \in Db BY DEF TypeInv, TypeOK
  <1>2. /\ w \in ApprovalRow /\ w.status = db.approval[p].status
        /\ w.notice # "pending"
    <2>1. db.approval[p] \in ApprovalRow BY <1>1, DbFields
    <2> QED BY <2>1, RowNotice
  <1>3. db' = [db EXCEPT !.approval = f] BY DEF DispatchNotice
  <1> HIDE DEF w
  <1>4. /\ f \in [Approval -> ApprovalRow] /\ f[p].status = db.approval[p].status
        /\ f[p].notice # "pending"
        /\ \A q \in Approval \ {p} : f[q] = db.approval[q]
    BY <1>1, <1>2, DbFields
  <1> HIDE DEF f
  <1>5. db' \in Db /\ Lapses(db, db')
    <2>1. Silent(db) => Silent([db EXCEPT !.approval = f])
      BY <1>1, <1>4, DbApproval DEF Silent
    <2> QED BY <1>1, <1>3, <1>4, <2>1, DbApproval DEF Lapses, SameOrLapsed
  <1> QED BY <1>5, KeepTypes DEF DispatchNotice, DecidesNothing, TypeInv, TypeOK

\* Only a command decides.
LEMMA StepCommand ==
  ASSUME TypeInv, NEW k \in Client, ClientStep(k)
  PROVE  /\ TypeInv' /\ DbStep
         /\ \/ DecidesNothing
            \/ Apply(k)
            \/ \E c \in Command, rq \in Requests : ApplyWithExpiry(k, c, rq)
  BY StepBegin, StepApplyWithExpiry, StepApply, StepLockFails, StepRecord,
     StepClientCrash, StepCloseReopen DEF ClientStep, DbStep

LEMMA StepOther ==
  ASSUME TypeInv, [Next]_vars, ~\E k \in Client : ClientStep(k)
  PROVE  TypeInv' /\ DecidesNothing
  <1>1. ASSUME NEW d \in Daemon, Proceed(d)
        PROVE  TypeInv' /\ DecidesNothing
    BY <1>1, StepAnswerApproval, StepAnswerCorrection, StepAnswerReply,
       StepAnswerQuiet, StepAnswerEscalate, StepWrite, StepEndRoute, StepInvalidate
    DEF Proceed
  <1>2. ASSUME NEW d \in Daemon,
               \/ StartSession(d) \/ BeginRoute(d) \/ TakeOver(d)
               \/ \E deleted \in BOOLEAN : Upsert(d, deleted)
               \/ DaemonCrash(d)
        PROVE  TypeInv' /\ DecidesNothing
    BY <1>2, StepStartSession, StepBeginRoute, StepTakeOver, StepUpsert, StepDaemonCrash
  <1>3. ASSUME NEW p \in Approval, PassDeadline(p) \/ DispatchNotice(p)
        PROVE  TypeInv' /\ DecidesNothing
    BY <1>3, StepPassDeadline, StepDispatchNotice
  <1>4. ASSUME NEW a \in Reply, DispatchReply(a)
        PROVE  TypeInv' /\ DecidesNothing
    BY <1>4, StepDispatchReply
  <1>5. CASE ExpireApprovals BY <1>5, StepExpireApprovals
  <1>6. CASE UNCHANGED vars
    <2>1. TypeInv' BY <1>6 DEF TypeInv, TypeOK, ClientInv, vars
    <2> QED BY <1>6, <2>1, DbUnchanged DEF vars
  <1> QED BY <1>1, <1>2, <1>3, <1>4, <1>5, <1>6 DEF Next

LEMMA StepAll ==
  ASSUME TypeInv, [Next]_vars
  PROVE  TypeInv' /\ DbStep
  BY StepCommand, StepOther DEF DbStep

-----------------------------------------------------------------------------
(* Theorems. *)

\* Type correctness of Approvals: a value the tables may not hold (a task with
\* the status of an action, a feedback row of no command) is never written.
THEOREM TypeCorrect == Spec => []TypeOK
  <1>1. TypeInv /\ [Next]_vars => TypeInv' BY StepAll
  <1>2. TypeInv => TypeOK BY DEF TypeInv
  <1> QED BY <1>1, <1>2, InitType, PTL DEF Spec

\* What the history variable counts: one reply per approved approval, none
\* for any other.
OneReplyPerGrant ==
  \A p \in Approval :
    db.granted[p] = IF db.approval[p].status = "approved" THEN 1 ELSE 0

DecisionInv == TypeInv /\ OneReplyPerGrant /\ FeedbackMatchesDecision

LEMMA InitDecision == Init => DecisionInv
  <1> SUFFICES ASSUME Init PROVE DecisionInv OBVIOUS
  <1>1. \A p \in Approval : db.approval[p].status = "none" /\ db.granted[p] = 0
    BY DEF Init, NoRow
  <1>2. db.feedback = {} BY DEF Init
  <1>3. FeedbackMatchesDecision BY <1>1, <1>2 DEF FeedbackMatchesDecision
  <1> QED BY <1>1, <1>3, InitType DEF DecisionInv, OneReplyPerGrant

LEMMA StepOneReply ==
  ASSUME DecisionInv, DbStep
  PROVE  OneReplyPerGrant'
  <1> USE DEF DecisionInv, OneReplyPerGrant
  <1>1. CASE Lapses(db, db') BY <1>1 DEF Lapses, SameOrLapsed
  <1>2. ASSUME NEW p \in Approval, NEW c \in Command, Decides(db, db', p, c)
        PROVE  OneReplyPerGrant'
    BY <1>2 DEF Decides, Grants, Refuses, SameOrLapsed
  <1>3. ASSUME NEW p \in Approval, Asks(db, db', p)
        PROVE  OneReplyPerGrant'
    BY <1>3 DEF Asks
  <1> QED BY <1>1, <1>2, <1>3 DEF DbStep, DecidesNothing

LEMMA StepFeedback ==
  ASSUME DecisionInv, DbStep
  PROVE  FeedbackMatchesDecision'
  <1> USE DEF DecisionInv, FeedbackMatchesDecision
  <1> DEFINE Settled(s, q) == s.approval[q].status \in {"approved", "rejected"}
             Named_(s, q) == \E c \in Command : <<q, c>> \in s.feedback
  <1>1. CASE Lapses(db, db')
    <2>1. db'.feedback = db.feedback BY <1>1 DEF Lapses
    <2>2. \A q \in Approval : Settled(db', q) <=> Settled(db, q)
      BY <1>1 DEF Lapses, SameOrLapsed
    <2> QED BY <2>1, <2>2
  <1>2. ASSUME NEW p \in Approval, NEW c \in Command, Decides(db, db', p, c)
        PROVE  FeedbackMatchesDecision'
    <2>1. /\ db'.feedback = db.feedback \cup {<<p, c>>}
          /\ FeedbackFree(db, p, c)
      BY <1>2 DEF Decides
    <2>2. Settled(db', p) /\ Named_(db', p)
      BY <1>2, <2>1 DEF Decides, Grants, Refuses
    <2>3. \A q \in Approval \ {p} : Settled(db', q) <=> Settled(db, q)
      BY <1>2 DEF Decides, SameOrLapsed
    <2>4. \A q \in Approval \ {p} : Named_(db', q) <=> Named_(db, q)
      BY <2>1
    <2>5. \A q \in Approval : Settled(db', q) <=> Named_(db', q)
      BY <2>2, <2>3, <2>4
    <2>6. \A f, g \in db'.feedback : (f[1] = g[1]) = (f[2] = g[2])
      <3> SUFFICES ASSUME NEW f \in db'.feedback, NEW g \in db'.feedback
                   PROVE  (f[1] = g[1]) = (f[2] = g[2])
        OBVIOUS
      <3>1. CASE f \in db.feedback /\ g \in db.feedback BY <3>1
      <3>2. CASE f \in db.feedback /\ g = <<p, c>>
        <4>1. f[1] # p /\ f[2] # c BY <2>1, <3>2 DEF FeedbackFree
        <4> QED BY <3>2, <4>1
      <3>3. CASE f = <<p, c>> /\ g \in db.feedback
        <4>1. g[1] # p /\ g[2] # c BY <2>1, <3>3 DEF FeedbackFree
        <4> QED BY <3>3, <4>1
      <3>4. CASE f = <<p, c>> /\ g = <<p, c>> BY <3>4
      <3> QED BY <2>1, <3>1, <3>2, <3>3, <3>4
    <2> QED BY <2>5, <2>6
  <1>3. ASSUME NEW p \in Approval, Asks(db, db', p)
        PROVE  FeedbackMatchesDecision'
    <2>1. db'.feedback = db.feedback BY <1>3 DEF Asks
    <2>2. \A q \in Approval : Settled(db', q) <=> Settled(db, q)
      BY <1>3 DEF Asks
    <2> QED BY <2>1, <2>2
  <1> QED BY <1>1, <1>2, <1>3 DEF DbStep, DecidesNothing

LEMMA StepDecision == DecisionInv /\ [Next]_vars => DecisionInv'
  <1> SUFFICES ASSUME DecisionInv, [Next]_vars PROVE DecisionInv' OBVIOUS
  <1>1. TypeInv' /\ DbStep BY StepAll DEF DecisionInv
  <1> QED BY <1>1, StepOneReply, StepFeedback DEF DecisionInv

\* Exactly one feedback row per decision: whatever is redelivered, crashes or
\* is applied by several clients, approved and rejected approvals are those
\* named by a feedback row, and no command's feedback names two.
THEOREM FeedbackCorrect == Spec => []FeedbackMatchesDecision
  <1>1. DecisionInv => FeedbackMatchesDecision BY DEF DecisionInv
  <1> QED BY <1>1, InitDecision, StepDecision, PTL DEF Spec

\* An approval is answered by exactly one reply if it was approved, and by
\* none if it was not, whatever later happens to that reply.
THEOREM OneReply == Spec => []OneReplyPerGrant
  <1>1. DecisionInv => OneReplyPerGrant BY DEF DecisionInv
  <1> QED BY <1>1, InitDecision, StepDecision, PTL DEF Spec

\* A decision that raced an edit or a deletion grants nothing: each step that
\* makes a reply for an approval makes it for the source as it is then.
THEOREM GrantsCurrent == Spec => GrantsAreCurrent
  <1>1. ASSUME TypeInv, [Next]_vars
        PROVE  \A p \in Approval : db'.granted[p] # db.granted[p]
                 => \/ db'.approval[p].rev = 0
                    \/ db'.approval[p].rev = source.revision /\ ~source.is_deleted
    <2>1. DbStep BY <1>1, StepAll
    <2>2. CASE Lapses(db, db') BY <2>2 DEF Lapses
    <2>3. CASE \E p \in Approval, c \in Command : Decides(db, db', p, c)
      BY <2>3 DEF Decides, Grants, Refuses, IsCurrent
    <2>4. CASE \E p \in Approval : Asks(db, db', p) BY <2>4 DEF Asks
    <2> QED BY <2>1, <2>2, <2>3, <2>4 DEF DbStep, DecidesNothing
  <1>2. TypeInv /\ [Next]_vars => TypeInv' BY StepAll
  <1>3. TypeInv /\ [Next]_vars
        => [\A p \in Approval : db'.granted[p] # db.granted[p]
              => \/ db'.approval[p].rev = 0
                 \/ db'.approval[p].rev = source.revision /\ ~source.is_deleted]_vars
    BY <1>1
  <1> QED BY <1>2, <1>3, InitType, PTL DEF Spec, GrantsAreCurrent

\* Approvals implements Decisions: every step requests one approval, or grants
\* or refuses one while others may lapse, or only lapses, or changes none.
THEOREM Refinement == Spec => KeepsDecisions
  <1>1. Init => Ledger!Init
    BY DEF Init, NoRow, Ledger!Init
  <1>2. ASSUME DecisionInv, [Next]_vars
        PROVE  [Ledger!Next]_(Ledger!vars)
    <2>1. DbStep BY <1>2, StepAll DEF DecisionInv
    <2>2. \A q \in Approval : SameOrLapsed(db, db', q) /\ db'.granted[q] = db.granted[q]
                              => Ledger!Same(q) \/ Ledger!Lapse(q)
      BY DEF SameOrLapsed, Ledger!Same, Ledger!Lapse, Ledger!Becomes
    <2>3. CASE Lapses(db, db')
      <3>1. CASE \A q \in Approval : db'.approval[q].status = db.approval[q].status
        BY <2>3, <3>1 DEF Lapses, Ledger!vars
      <3>2. CASE \E q \in Approval : db'.approval[q].status # db.approval[q].status
        <4>1. PICK p \in Approval : db'.approval[p].status # db.approval[p].status
          BY <3>2
        <4>2. Ledger!Lapse(p)
          BY <2>3, <4>1 DEF Lapses, SameOrLapsed, Ledger!Lapse, Ledger!Becomes
        <4>3. \A q \in Approval \ {p} : Ledger!Same(q) \/ Ledger!Lapse(q)
          BY <2>2, <2>3 DEF Lapses
        <4> QED BY <4>2, <4>3 DEF Ledger!Next
      <3> QED BY <3>1, <3>2
    <2>4. ASSUME NEW p \in Approval, NEW c \in Command, Decides(db, db', p, c)
          PROVE  Ledger!Next
      <3>1. \A q \in Approval \ {p} : Ledger!Same(q) \/ Ledger!Lapse(q)
        BY <2>2, <2>4 DEF Decides
      <3>2. CASE Grants(db, db', p)
        <4>1. db.granted[p] = 0 BY <1>2, <3>2 DEF Grants, DecisionInv, OneReplyPerGrant
        <4>2. Ledger!Grant(p)
          BY <3>2, <4>1 DEF Grants, Ledger!Grant, Ledger!Becomes
        <4> QED BY <3>1, <4>2 DEF Ledger!Next
      <3>3. CASE Refuses(db, db', p)
        <4>1. Ledger!Refuse(p) BY <3>3 DEF Refuses, Ledger!Refuse, Ledger!Becomes
        <4> QED BY <3>1, <4>1 DEF Ledger!Next
      <3> QED BY <2>4, <3>2, <3>3 DEF Decides
    <2>5. ASSUME NEW p \in Approval, Asks(db, db', p)
          PROVE  Ledger!Next
      <3>1. Ledger!Request(p)
        BY <2>5 DEF Asks, Ledger!Request, Ledger!Becomes
      <3>2. \A q \in Approval \ {p} : Ledger!Same(q) \/ Ledger!Lapse(q)
        BY <2>2, <2>5 DEF Asks, SameOrLapsed
      <3> QED BY <3>1, <3>2 DEF Ledger!Next
    <2> QED BY <2>1, <2>3, <2>4, <2>5 DEF DbStep, DecidesNothing
  <1> QED BY <1>1, <1>2, InitDecision, StepDecision, PTL
      DEF Spec, KeepsDecisions, Ledger!Spec

\* The owner is not asked to decide what has expired: every transaction that
\* expires an approval, or may, takes its unsent notice back.
THEOREM ExpiredSilent == Spec => []ExpiredNotAnnounced
  <1> DEFINE Inv == TypeInv /\ ExpiredNotAnnounced
  <1>1. Init => Inv
    BY InitType DEF Init, NoRow, ExpiredNotAnnounced
  <1>2. ASSUME Inv, [Next]_vars PROVE Inv'
    <2>1. TypeInv' /\ DbStep BY <1>2, StepAll
    <2>2. Silent(db) BY <1>2 DEF ExpiredNotAnnounced, Silent
    <2>3. Silent(db') BY <2>1, <2>2 DEF DbStep, DecidesNothing, Lapses, Decides, Asks
    <2>4. ExpiredNotAnnounced' BY <2>3 DEF ExpiredNotAnnounced, Silent
    <2> QED BY <2>1, <2>4
  <1>3. Inv => ExpiredNotAnnounced OBVIOUS
  <1> QED BY <1>1, <1>2, <1>3, PTL DEF Spec

-----------------------------------------------------------------------------
(* What a command decides, by its verb. *)

LEMMA RejectedRow ==
  ASSUME NEW s \in Db, NEW p \in Pending(s), NEW c \in Command, NEW keep
  PROVE  LET t == Rejected(s, p, c, keep) IN
         /\ t.approval[p].status = "rejected"
         /\ keep => \A q \in Approval \ {p} : t.approval[q] = s.approval[q]
         /\ ~keep => t.task = "closed"
  <1> DEFINE w == [s.approval[p] EXCEPT !.status = "rejected"]
             f == [s.approval EXCEPT ![p] = w]
             F == s.feedback \cup {<<p, c>>}
             u == [s EXCEPT !.approval = f]
             t == [u EXCEPT !.feedback = F]
  <1>1. p \in Approval /\ s.approval[p] \in ApprovalRow BY DbFields DEF Pending
  <1>2. w \in ApprovalRow /\ w.status = "rejected"
    BY <1>1, RowStatus DEF ApprovalStatus
  <1>3. [s EXCEPT !.approval[p].status = "rejected", !.feedback = F] = t
    BY <1>1, DbFields DEF Db
  <1> DEFINE keeping == CancelActions(WithTask(t, "watching"), {p})
             ending == CancelActions(Ended(t, "closed", {"pending"}), {p})
  <1>4. Rejected(s, p, c, keep) = IF keep THEN keeping ELSE ending
    BY <1>3 DEF Rejected
  <1> HIDE DEF w
  <1>5. /\ f \in [Approval -> ApprovalRow] /\ f[p].status = "rejected"
        /\ \A q \in Approval \ {p} : f[q] = s.approval[q]
    BY <1>1, <1>2, DbFields
  <1>6. F \in SUBSET (Approval \X Command) BY <1>1, DbFields
  <1> HIDE DEF f
  <1>7. u \in Db /\ u.approval = f BY <1>5, DbApproval
  <1> HIDE DEF u
  <1>8. t \in Db /\ t.approval = f BY <1>6, <1>7, DbFeedback
  <1> HIDE DEF t
  <1>9. /\ keeping.approval[p].status = "rejected"
        /\ \A q \in Approval \ {p} : keeping.approval[q] = s.approval[q]
    <2> DEFINE x == WithTask(t, "watching")
    <2>1. x \in Db /\ x.approval = f BY <1>8, WithTaskLapses DEF TaskStatus
    <2> HIDE DEF x
    <2>2. /\ CancelActions(x, {p}).approval[p].status = x.approval[p].status
          /\ \A q \in Approval \ {p} :
               CancelActions(x, {p}).approval[q] = x.approval[q]
      BY <1>1, <2>1, CancelActionsLapses
    <2> QED BY <1>5, <2>1, <2>2 DEF x
  <1>10. ending.approval[p].status = "rejected" /\ ending.task = "closed"
    <2> DEFINE x == Ended(t, "closed", {"pending"})
    <2>1. p \notin Pending(t) BY <1>5, <1>8 DEF Pending
    <2>2. x \in Db /\ x.approval[p] = f[p] /\ x.task = "closed"
      BY <1>1, <1>8, <2>1, EndedLapses DEF TaskStatus
    <2> HIDE DEF x
    <2>3. /\ CancelActions(x, {p}).approval[p].status = x.approval[p].status
          /\ CancelActions(x, {p}).task = x.task
      BY <1>1, <2>2, CancelActionsLapses
    <2> QED BY <1>5, <2>2, <2>3 DEF x
  <1> HIDE DEF keeping, ending
  <1> QED BY <1>4, <1>9, <1>10


LEMMA EffectByVerb ==
  ASSUME SourceType, NEW s \in Db, NEW c \in Command, NEW rq \in Requests,
         ~Raises(s, c, rq), NEW t \in Effects(s, c, rq), NEW p \in Pending(s)
  PROVE  /\ t.approval[p].status = "approved" => rq.verb # "reject"
         /\ t.approval[p].status = "rejected"
            => /\ rq.verb = "reject" /\ p \in Named(s, rq.target)
               /\ t.task = "watching"
                  => \A q \in Approval \ {p} : t.approval[q] = s.approval[q]
  <1> DEFINE named == Named(s, rq.target)
             z == CHOOSE q \in named : TRUE
  <1>1. /\ rq.verb \in {"approve", "reject", "send"}
        /\ rq.text \in Text \cup {NoText}
    BY ApprovalsAssumption DEF RequestType
  <1>2. named \subseteq Pending(s) BY DEF Named
  <1>3. p \in Approval /\ s.approval[p].status = "pending" BY DEF Pending
  <1>4. CASE Conflict(s, rq) BY <1>3, <1>4 DEF Effects
  <1>5. CASE ~Conflict(s, rq) /\ named = {}
    <2>1. rq.verb = "send" /\ \A q \in Unused(s) : FeedbackFree(s, q, c)
      BY <1>1, <1>5 DEF Raises
    <2>2. t \in SentFresh(s, c, rq.text) BY <1>5 DEF Effects
    <2>3. PICK q \in Unused(s) : Decides(s, t, q, c)
      BY <1>1, <2>1, <2>2, SentFreshDecides
    <2>4. q # p BY <1>3 DEF Unused
    <2> QED BY <1>3, <2>1, <2>3, <2>4 DEF Decides, SameOrLapsed
  <1>6. CASE ~Conflict(s, rq) /\ named # {} /\ IsStale(s.approval[z].rev)
    <2>1. z \in named BY <1>6
    <2>2. z \in Approval BY <1>2, <2>1 DEF Pending
    <2>3. t = FoundStale(s, z, c) BY <1>6 DEF Effects
    <2> HIDE DEF z
    <2> QED BY <1>3, <2>2, <2>3, FoundStaleLapses DEF Lapses, SameOrLapsed
  <1>7. CASE ~Conflict(s, rq) /\ named # {} /\ ~IsStale(s.approval[z].rev)
    <2>1. z \in named BY <1>7
    <2>2. z \in Pending(s) /\ z \in Approval BY <1>2, <2>1 DEF Pending
    <2>3. FeedbackFree(s, z, c) BY <1>7, <2>1 DEF Raises
    <2>4. /\ rq.verb = "approve" => t \in Approved(s, z, c)
          /\ rq.verb = "reject" => t = Rejected(s, z, c, KeepsWatching(s, z, rq))
          /\ rq.verb = "send" => t \in Sent(s, z, c, rq.text)
      BY <1>7 DEF Effects
    <2>5. ~IsStale(s.approval[z].rev) BY <1>7
    <2> HIDE DEF z, named
    <2>6. CASE rq.verb # "reject"
      <3>1. Decides(s, t, z, c) /\ Grants(s, t, z)
        BY <1>1, <2>2, <2>3, <2>4, <2>5, <2>6, ApprovedDecides, SentDecides
      <3> QED BY <1>3, <2>6, <3>1 DEF Decides, Grants, SameOrLapsed
    <2>7. CASE rq.verb = "reject"
      <3> DEFINE keep == KeepsWatching(s, z, rq)
      <3>1. t = Rejected(s, z, c, keep) BY <2>4, <2>7
      <3> HIDE DEF keep
      <3>2. /\ Decides(s, t, z, c) /\ t.approval[z].status = "rejected"
            /\ keep => \A q \in Approval \ {z} : t.approval[q] = s.approval[q]
            /\ ~keep => t.task = "closed"
        BY <2>2, <2>3, <3>1, RejectedDecides, RejectedRow
      <3>3. p # z => t.approval[p].status \in {"pending", "expired"}
        BY <1>3, <3>2 DEF Decides, SameOrLapsed
      <3> QED BY <2>1, <2>7, <3>2, <3>3 DEF named
    <2> QED BY <2>6, <2>7
  <1> QED BY <1>4, <1>5, <1>6, <1>7

LEMMA OutcomeByVerb ==
  ASSUME SourceType, NEW s \in Db, NEW c \in Command, NEW rq \in Requests,
         NEW e \in Outcomes(s, c, rq), NEW p \in Pending(s)
  PROVE  /\ e.db.approval[p].status = "approved" => rq.verb # "reject"
         /\ e.db.approval[p].status = "rejected"
            => /\ rq.verb = "reject" /\ p \in Named(s, rq.target)
               /\ e.db.task = "watching"
                  => \A q \in Approval \ {p} : e.db.approval[q] = s.approval[q]
  <1>1. CASE Raises(s, c, rq)
    <2>1. e.db = s BY <1>1 DEF Outcomes
    <2> QED BY <2>1 DEF Pending
  <1>2. CASE ~Raises(s, c, rq)
    <2>1. PICK t \in Effects(s, c, rq) :
            e = [db |-> t, status |-> IF Conflict(s, rq) THEN "failed" ELSE "applied"]
      BY <1>2 DEF Outcomes
    <2>2. e.db = t BY <2>1
    <2> QED BY <1>2, <2>2, EffectByVerb
  <1> QED BY <1>1, <1>2

\* The steps that approve or reject a pending approval.
LEMMA DecidedByCommand ==
  ASSUME TypeInv, [Next]_vars, NEW p \in Pending(db),
         db'.approval[p].status \in {"approved", "rejected"}
  PROVE  \E k \in Client :
           \/ Apply(k)
           \/ \E c \in Command, rq \in Requests : ApplyWithExpiry(k, c, rq)
  <1>1. p \in Approval /\ db.approval[p].status = "pending" BY DEF Pending
  <1>2. ~DecidesNothing BY <1>1 DEF DecidesNothing, Lapses, Asks, SameOrLapsed
  <1> QED BY <1>2, StepCommand, StepOther

\* ApplyWithExpiry as one outcome on the expired database, for an approval
\* that its command decides.
LEMMA DecidedWithExpiry ==
  ASSUME TypeInv, NEW k \in Client, NEW c \in Command, NEW rq \in Requests,
         ApplyWithExpiry(k, c, rq), NEW p \in Pending(db),
         db'.approval[p].status \in {"approved", "rejected"}
  PROVE  LET s == Expired(db, overdue \cap Pending(db)) IN
         /\ ~SparesTask(db, rq) /\ p \notin overdue /\ p \in Pending(s)
         /\ \E e \in Outcomes(s, c, rq) : db'.approval = e.db.approval
  <1> DEFINE s == Expired(db, overdue \cap Pending(db))
  <1>1. /\ p \in Approval /\ db.approval[p].status = "pending"
        /\ db \in Db
    BY DEF Pending, TypeInv, TypeOK
  <1>2. ~SparesTask(db, rq) /\ Lapsed(db, rq) = overdue \cap Pending(db)
    BY DEF ApplyWithExpiry, Lapsed
  <1>3. /\ s \in Db /\ Lapses(db, s)
        /\ \A q \in overdue \cap Pending(db) : s.approval[q].status = "expired"
    BY <1>1, ExpiredLapses
  <1>4. \/ db.recorded[c] # "none" /\ db' = s
        \/ \E e \in Outcomes(s, c, rq) : db' = Recorded(e.db, c, e.status)
    BY <1>2 DEF ApplyWithExpiry
  <1> HIDE DEF s
  <1>5. db' # s BY <1>1, <1>3 DEF Lapses, SameOrLapsed
  <1>6. PICK e \in Outcomes(s, c, rq) : db' = Recorded(e.db, c, e.status)
    BY <1>4, <1>5
  <1>7. /\ e.db \in Db /\ e.status \in {"applied", "failed"}
        /\ Lapses(s, e.db) \/ \E q \in Approval : Decides(s, e.db, q, c)
    BY <1>3, OutcomesDecide DEF TypeInv, TypeOK, SourceType
  <1>8. db'.approval = e.db.approval BY <1>6, <1>7, RecordedLapses
  <1>9. s.approval[p].status = "pending"
    BY <1>1, <1>3, <1>7, <1>8 DEF Lapses, Decides, Grants, Refuses, SameOrLapsed
  <1>10. p \in Pending(s) /\ p \notin overdue BY <1>1, <1>3, <1>9 DEF Pending
  <1> QED BY <1>2, <1>8, <1>10 DEF s

\* What was overdue when a command read the clock is not pending when the
\* command is applied, unless the command rejects.
LateInv ==
  /\ \A p \in overdue : db.approval[p].status # "none"
  /\ \A k \in Client : client[k].pc = "apply" =>
       /\ client[k].late \subseteq overdue
       /\ \/ request[client[k].cmd].verb = "reject"
          \/ client[k].late \cap Pending(db) = {}

LEMMA ApplyingClient ==
  ASSUME TypeInv, [Next]_vars, NEW k \in Client, client'[k].pc = "apply"
  PROVE  \/ /\ client'[k] = client[k]
            /\ request'[client[k].cmd] = request[client[k].cmd]
         \/ \E c \in Command, rq \in Requests : Begin(k, c, rq)
  <1>1. CASE UNCHANGED <<client, request>> BY <1>1
  <1>2. ASSUME NEW j \in Client, ClientStep(j)
        PROVE  \/ /\ client'[k] = client[k]
                  /\ client[k].pc = "apply"
                     => request'[client[k].cmd] = request[client[k].cmd]
               \/ \E c \in Command, rq \in Requests : Begin(k, c, rq)
    <2>1. client \in [Client -> ClientState] /\ request \in [Command -> Requests \cup {NoRequest}]
      BY DEF TypeInv, TypeOK
    <2>2. client[k].pc = "apply" => request[client[k].cmd] \in Requests
      BY DEF TypeInv, ClientInv
    <2>3. ASSUME NEW c \in Command, NEW rq \in Requests, Begin(j, c, rq)
          PROVE  \/ /\ client'[k] = client[k]
                    /\ client[k].pc = "apply"
                       => request'[client[k].cmd] = request[client[k].cmd]
                 \/ j = k
      BY <2>1, <2>2, <2>3, ApprovalsAssumption DEF Begin, SetClient
    <2>4. ASSUME NEW c \in Command, NEW rq \in Requests, ApplyWithExpiry(j, c, rq)
          PROVE  /\ client'[k] = client[k]
                 /\ client[k].pc = "apply"
                    => request'[client[k].cmd] = request[client[k].cmd]
      BY <2>1, <2>2, <2>4, ApprovalsAssumption DEF ApplyWithExpiry
    <2>5. CASE Apply(j)
      BY <2>1, <2>5 DEF Apply, SetClient
    <2>6. CASE LockFails(j) \/ Record(j) \/ ClientCrash(j)
      <3>1. request' = request BY <2>6 DEF LockFails, Record, ClientCrash
      <3>2. \/ SetClient(j, IdleClient)
            \/ SetClient(j, [client[j] EXCEPT !.pc = "record", !.status = "failed"])
        BY <2>6 DEF LockFails, Record, ClientCrash
      <3>3. j = k => client'[k].pc # "apply"
        <4>1. client[j] \in ClientState BY <2>1
        <4>2. [client[j] EXCEPT !.pc = "record", !.status = "failed"].pc = "record"
          BY <4>1 DEF ClientState
        <4>3. IdleClient.pc = "idle" BY DEF IdleClient
        <4>4. CASE SetClient(j, IdleClient) BY <2>1, <4>3, <4>4 DEF SetClient
        <4> DEFINE x == [client[j] EXCEPT !.pc = "record", !.status = "failed"]
        <4>5. CASE SetClient(j, x)
          <5>1. x.pc = "record" BY <4>2
          <5> HIDE DEF x
          <5> QED BY <2>1, <4>5, <5>1 DEF SetClient
        <4> QED BY <3>2, <4>4, <4>5
      <3>4. j # k => client'[k] = client[k] BY <2>1, <3>2 DEF SetClient
      <3> QED BY <3>1, <3>3, <3>4
    <2>7. CASE BeginClose(j) \/ EndClose(j) \/ BeginReopen(j) \/ EndReopen(j)
      BY <2>1, <2>7
      DEF BeginClose, EndClose, BeginReopen, EndReopen, SetClient, IdleClient
    <2> QED BY <1>2, <2>3, <2>4, <2>5, <2>6, <2>7 DEF ClientStep
  <1>3. CASE ~\E j \in Client : ClientStep(j)
    BY <1>3 DEF Next, vars, StartSession, Proceed, BeginRoute, TakeOver, Upsert,
       DaemonCrash, PassDeadline, DispatchNotice, DispatchReply, ExpireApprovals,
       AnswerApproval, AnswerCorrection, AnswerReply, AnswerQuiet, AnswerEscalate,
       Write, EndRoute, Invalidate
  <1> QED BY <1>1, <1>2, <1>3

LEMMA StepLate ==
  ASSUME TypeInv, LateInv, [Next]_vars
  PROVE  LateInv'
  <1>1. DbStep BY StepAll
  <1>2. \A p \in Approval :
          /\ db.approval[p].status # "none" => db'.approval[p].status # "none"
          /\ p \in Pending(db')
             => db.approval[p].status = "none" \/ p \in Pending(db)
    BY <1>1 DEF DbStep, DecidesNothing, Lapses, Decides, Grants, Refuses, Asks,
       SameOrLapsed, Pending
  <1>3. overdue' = overdue \/ \E p \in Pending(db) : overdue' = overdue \cup {p}
    BY DEF Next, vars, ClientStep, Begin, ApplyWithExpiry, Apply, LockFails, Record,
       ClientCrash, BeginClose, EndClose, BeginReopen, EndReopen,
       StartSession, Proceed, BeginRoute, TakeOver, Upsert,
       DaemonCrash, PassDeadline, DispatchNotice, DispatchReply, ExpireApprovals,
       AnswerApproval, AnswerCorrection, AnswerReply, AnswerQuiet, AnswerEscalate,
       Write, EndRoute, Invalidate
  <1>4. overdue \subseteq Approval BY DEF TypeInv, TypeOK
  <1>5. \A p \in overdue' : p \in Approval /\ db'.approval[p].status # "none"
    BY <1>2, <1>3, <1>4 DEF LateInv, Pending
  <1>6. ASSUME NEW k \in Client, client'[k].pc = "apply"
        PROVE  /\ client'[k].late \subseteq overdue'
               /\ \/ request'[client'[k].cmd].verb = "reject"
                  \/ client'[k].late \cap Pending(db') = {}
    <2>1. CASE client'[k] = client[k] /\ request'[client[k].cmd] = request[client[k].cmd]
      <3>1. /\ client[k].late \subseteq overdue
            /\ \/ request[client[k].cmd].verb = "reject"
               \/ client[k].late \cap Pending(db) = {}
        BY <1>6, <2>1 DEF LateInv
      <3>2. \A p \in client[k].late : p \in Pending(db') => p \in Pending(db)
        BY <1>2, <1>4, <3>1 DEF LateInv
      <3> QED BY <1>3, <2>1, <3>1, <3>2
    <2>2. ASSUME NEW c \in Command, NEW rq \in Requests, Begin(k, c, rq)
          PROVE  /\ client'[k].late \subseteq overdue'
                 /\ \/ request'[client'[k].cmd].verb = "reject"
                    \/ client'[k].late \cap Pending(db') = {}
      <3>1. /\ client'[k] = [IdleClient EXCEPT !.pc = "apply", !.cmd = c, !.late = overdue]
            /\ request'[c] = rq /\ overdue' = overdue /\ db' = db
            /\ Lapsed(db, rq) = {}
        BY <2>2 DEF Begin, SetClient, TypeInv, TypeOK
      <3>2. client'[k].late = overdue /\ client'[k].cmd = c
        BY <3>1 DEF IdleClient
      <3>3. rq.verb = "reject" \/ overdue \cap Pending(db) = {}
        BY <3>1 DEF Lapsed, SparesTask
      <3> QED BY <3>1, <3>2, <3>3
    <2> QED BY <1>6, <2>1, <2>2, ApplyingClient
  <1> QED BY <1>5, <1>6 DEF LateInv

\* An approval that was overdue when a command read the clock is not approved
\* by it, whichever of its transactions the deadline and expiry fall between:
\* the list of overdue approvals is read once, applied perhaps much later.
THEOREM OverdueNever == Spec => OverdueNotApproved
  <1> DEFINE Inv == TypeInv /\ LateInv
             Fair(p) ==
               db.approval[p].status = "pending" /\ db'.approval[p].status = "approved"
               => p \notin overdue \/ \E k \in Client : client[k].pc = "apply"
                                                        /\ p \notin client[k].late
  <1>1. Init => Inv
    BY InitType DEF Init, LateInv, IdleClient
  <1>2. Inv /\ [Next]_vars => Inv' BY StepAll, StepLate
  <1>3. ASSUME Inv, [Next]_vars, NEW p \in Approval PROVE Fair(p)
    <2> SUFFICES ASSUME db.approval[p].status = "pending",
                        db'.approval[p].status = "approved"
                 PROVE  p \notin overdue \/ \E k \in Client : client[k].pc = "apply"
                                                /\ p \notin client[k].late
      OBVIOUS
    <2>1. p \in Pending(db) BY DEF Pending
    <2>2. ASSUME NEW k \in Client, Apply(k)
          PROVE  client[k].pc = "apply" /\ p \notin client[k].late
      <3> DEFINE c == client[k].cmd
      <3>1. PICK e \in Outcomes(db, c, request[c]) : db' = e.db
        BY <2>2 DEF Apply
      <3>2. /\ client[k].pc = "apply" /\ c \in Command /\ request[c] \in Requests
            /\ db \in Db /\ SourceType
        BY <1>3, <2>2 DEF Apply, TypeInv, TypeOK, ClientInv, SourceType
      <3>3. request[c].verb # "reject" BY <2>1, <3>1, <3>2, OutcomeByVerb
      <3> QED BY <1>3, <2>1, <3>2, <3>3 DEF LateInv
    <2>3. ASSUME NEW k \in Client, NEW c \in Command, NEW rq \in Requests,
                 ApplyWithExpiry(k, c, rq)
          PROVE  p \notin overdue
      BY <1>3, <2>1, <2>3, DecidedWithExpiry
    <2> QED BY <1>3, <2>1, <2>2, <2>3, DecidedByCommand
  <1>4. Inv /\ [Next]_vars => [\A p \in Approval : Fair(p)]_vars BY <1>3
  <1> QED BY <1>1, <1>2, <1>4, PTL DEF Spec, OverdueNotApproved

\* Rejecting a draft whose postprocessing failed leaves every other approval of
\* the task alone, overdue ones included: neither the expiry a command begins
\* with nor the end of the task, which other rejections bring, touches them.
THEOREM KeepSpares == Spec => KeepRejectSparesOthers
  <1> DEFINE Spares(p) ==
               /\ db.approval[p].status = "pending" /\ db'.approval[p].status = "rejected"
               /\ db.approval[p].keep /\ db'.task = "watching"
               => \A q \in Approval \ {p} : db'.approval[q] = db.approval[q]
  <1>1. ASSUME TypeInv, [Next]_vars, NEW p \in Approval PROVE Spares(p)
    <2> SUFFICES ASSUME db.approval[p].status = "pending",
                        db'.approval[p].status = "rejected",
                        db.approval[p].keep, db'.task = "watching"
                 PROVE  \A q \in Approval \ {p} : db'.approval[q] = db.approval[q]
      OBVIOUS
    <2>1. p \in Pending(db) BY DEF Pending
    <2>2. ASSUME NEW k \in Client, Apply(k)
          PROVE  \A q \in Approval \ {p} : db'.approval[q] = db.approval[q]
      <3> DEFINE c == client[k].cmd
      <3>1. PICK e \in Outcomes(db, c, request[c]) : db' = e.db
        BY <2>2 DEF Apply
      <3>2. /\ c \in Command /\ request[c] \in Requests
            /\ db \in Db /\ SourceType
        BY <1>1, <2>2 DEF Apply, TypeInv, TypeOK, ClientInv, SourceType
      <3> HIDE DEF c
      <3> QED BY <2>1, <3>1, <3>2, OutcomeByVerb
    <2>3. ASSUME NEW k \in Client, NEW c \in Command, NEW rq \in Requests,
                 ApplyWithExpiry(k, c, rq)
          PROVE  FALSE
      <3> DEFINE s == Expired(db, overdue \cap Pending(db))
      <3>1. /\ ~SparesTask(db, rq) /\ p \in Pending(s)
            /\ \E e \in Outcomes(s, c, rq) : db'.approval = e.db.approval
        BY <1>1, <2>1, <2>3, DecidedWithExpiry
      <3>2. s \in Db BY <1>1, ExpiredLapses DEF TypeInv, TypeOK
      <3> HIDE DEF s
      <3>3. rq.verb = "reject" /\ p \in Named(s, rq.target)
        BY <1>1, <3>1, <3>2, OutcomeByVerb DEF TypeInv, TypeOK, SourceType
      <3>4. p \in Named(db, rq.target) BY <2>1, <3>3 DEF Named
      <3> QED BY <3>1, <3>3, <3>4 DEF SparesTask
    <2> QED BY <1>1, <2>1, <2>2, <2>3, DecidedByCommand
  <1>2. TypeInv /\ [Next]_vars => TypeInv' BY StepAll
  <1>3. TypeInv /\ [Next]_vars => [\A p \in Approval : Spares(p)]_vars BY <1>1
  <1> QED BY <1>2, <1>3, InitType, PTL DEF Spec, KeepRejectSparesOthers

=============================================================================
