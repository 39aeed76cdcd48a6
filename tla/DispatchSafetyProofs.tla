------------------------ MODULE DispatchSafetyProofs ------------------------
(***************************************************************************)
(* More proofs about Dispatch for every value of its constants: one active *)
(* reply per slot, nothing stale is posted, what a failed attempt and a    *)
(* sent row prove about the chat, and who reopens a settled row.           *)
(*                                                                         *)
(* All start from AuthInv of DispatchProofs: an attempt has one holder and *)
(* is called once.                                                         *)
(***************************************************************************)
EXTENDS DispatchProofs

-----------------------------------------------------------------------------
(***************************************************************************)
(* What a step does to the rows.  Either no row enters an active state and *)
(* the rows keep all but their status, or one row alone becomes pending,   *)
(* and if it is a reply its slot has no other active one.                  *)
(***************************************************************************)
SameRow(a) ==
  /\ row'[a].kind = row[a].kind /\ row'[a].text = row[a].text
  /\ row'[a].key = row[a].key /\ row'[a].mode = row[a].mode

Narrow ==
  \A a \in Action :
    /\ SameRow(a) /\ row'[a].rev = row[a].rev
    /\ row'[a].status \in Active => row[a].status \in Active

Opens(a) ==
  /\ row'[a].status = "pending" /\ row'[a].kind # "none"
  /\ \A b \in Action \ {a} : row'[b] = row[b]
  /\ row[a].kind # "none" => SameRow(a)
  /\ row'[a].kind = "send_reply" => /\ row'[a].key \in ReplyKey
                                    /\ ~HasActive(row'[a].mode, row'[a].rev, a)
  /\ row'[a].rev <= source.revision

RowsStep == Narrow \/ \E a \in Action : Opens(a)

\* A notice never takes the key of a reply; no row is bound to a revision that
\* is not stored yet.
KeyInv == \A a \in Action : IsReply(a) => row[a].key \in ReplyKey
BoundInv == \A a \in Action : row[a].rev <= source.revision

SlotInv == AuthInv /\ KeyInv /\ BoundInv /\ SingleActiveSend

-----------------------------------------------------------------------------
(***************************************************************************)
(* What each control state of a dispatcher knows about its attempt and     *)
(* about the chat.                                                         *)
(***************************************************************************)
Mine(d) == <<disp[d].act, disp[d].try>>

\* The first check has passed: the attempt was not superseded when claimed.
FreshInv ==
  \A d \in Dispatcher : disp[d].pc \in Working =>
    /\ disp[d].rev <= source.revision
    /\ attempt[disp[d].act][disp[d].try].stale => ~Current(disp[d].rev)
    /\ disp[d].pc \in {"guard", "send"} => ~attempt[disp[d].act][disp[d].try].stale

CalledInv ==
  \A a \in Action : \A n \in AttemptNo :
    <<a, n>> \in delivered => attempt[a][n].calls >= 1

KindInv ==
  /\ \A d \in Dispatcher : disp[d].pc \in Working => row[disp[d].act].kind # "none"
  /\ \A a \in Action : \A n \in AttemptNo :
       <<a, n>> \in delivered => row[a].kind # "none"

HeldInv ==
  \A d \in Dispatcher : disp[d].pc \in Working =>
    /\ disp[d].pc \in BeforeSend
       => attempt[disp[d].act][disp[d].try].status # "failed"
    /\ disp[d].pc = "report" /\ disp[d].report = "rejected" => Mine(d) \notin delivered
    /\ disp[d].pc = "report" /\ disp[d].report = "ok" => Mine(d) \in delivered
    /\ disp[d].pc = "readback" => Mine(d) \in delivered
    /\ disp[d].pc \in {"finish", "write"} /\ disp[d].outcome = "sent"
       => Mine(d) \in delivered

\* Every kind of proof that a row was sent is backed by a message in the chat:
\* a read-back attempt, what a stale recovery took for proof, an operator's
\* evidence.
ProofInv ==
  /\ \A a \in Action : \A n \in AttemptNo :
       attempt[a][n].status = "readback_ok" => row[a].kind # "none" /\ Posted(a)
  /\ \A d \in Dispatcher : \A s \in disp[d].stale :
       s.proven => row[s.act].kind # "none" /\ Posted(s.act)
  /\ \A o \in Operator : op[o].cmd = "mark_sent" => Posted(op[o].act)

FreshAll == SlotInv /\ FreshInv /\ CalledInv /\ StaleNeverPosted
EvidenceInv == SlotInv /\ CalledInv /\ KindInv /\ HeldInv /\ ProofInv
               /\ FailedAttemptNotPosted /\ SentMeansPosted

-----------------------------------------------------------------------------
(* Every step is a RowsStep. *)

USE DEF AuthInv, TypeInv, TypeOK, Shape, tables

LEMMA KeyKinds == \A k \in NoticeKey : k \notin ReplyKey
  BY DEF NoticeKey, ReplyKey

LEMMA SameNarrow == ASSUME UNCHANGED row PROVE Narrow
  BY DEF Narrow, SameRow

LEMMA StatusNarrow ==
  ASSUME TypeInv, NEW a \in Action, NEW s, SetStatus(a, s),
         s \in Active => row[a].status \in Active
  PROVE  Narrow
  BY SetStatusEffect DEF Narrow, SameRow

LEMMA ReviveOpens ==
  ASSUME SlotInv, NEW a \in Action, NEW r \in 0..MaxRevision, Revive(a, r),
         row[a].kind # "none", r <= source.revision,
         IsReply(a) => ~HasActive(row[a].mode, r, a)
  PROVE  Opens(a)
  <1>1. /\ row'[a].status = "pending" /\ row'[a].rev = r
        /\ SameRow(a) /\ \A c \in Action \ {a} : row'[c] = row[c]
    BY ReviveEffect DEF SlotInv, SameRow
  <1>2. row'[a].kind = "send_reply" => /\ row'[a].key \in ReplyKey
                                       /\ ~HasActive(row'[a].mode, row'[a].rev, a)
    BY <1>1 DEF SameRow, SlotInv, KeyInv, IsReply
  <1> QED BY <1>1, <1>2 DEF Opens, SameRow

LEMMA InsertOpens ==
  ASSUME SlotInv, NEW a \in Action, NEW new, Insert(a, new),
         new.kind # "none", new.status = "pending", new.rev <= source.revision,
         new.kind = "send_reply" => /\ new.key \in ReplyKey
                                    /\ ~HasActive(new.mode, new.rev, a)
  PROVE  Opens(a)
  BY InsertEffect DEF SlotInv, Opens

LEMMA CreateRows ==
  ASSUME SlotInv, NEW t \in Text, NEW m \in Mode, NEW r \in 1..MaxRevision,
         CreateReply(t, m, r)
  PROVE  \E a \in Action : Opens(a)
  <1>1. r <= source.revision /\ r \in 0..MaxRevision
    BY DispatchAssumption DEF CreateReply
  <1>2. ASSUME NEW a \in Action, IsReply(a), row[a].mode = m, ~HasActive(m, r, a),
               Revive(a, r)
        PROVE  Opens(a)
    BY <1>1, <1>2, ReviveOpens DEF IsReply
  <1>3. ASSUME NEW a \in Action, ~HasActive(m, r, NoAction),
               Insert(a, [kind |-> "send_reply", status |-> "pending",
                          mode |-> m, rev |-> r, text |-> t,
                          key |-> <<"reply", t, r, m>>])
        PROVE  Opens(a)
    <2>1. ~HasActive(m, r, a) BY <1>3, DispatchAssumption DEF HasActive
    <2>2. <<"reply", t, r, m>> \in ReplyKey BY DEF ReplyKey
    <2> QED BY <1>1, <1>3, <2>1, <2>2, InsertOpens
  <1> QED BY <1>2, <1>3 DEF CreateReply

LEMMA NoticeRows ==
  ASSUME SlotInv, NEW d \in Dispatcher, NEW k \in disp[d].todo, QueueNotice(d, k)
  PROVE  RowsStep
  <1> DEFINE a == k[2]
  <1>1. k \in NoticeKey BY DEF SlotInv, Disp
  <1>2. a \in Action BY <1>1 DEF NoticeKey
  <1>3. row[a].rev \in 0..MaxRevision /\ row[a].rev <= source.revision
    BY <1>2 DEF SlotInv, BoundInv, Row
  <1>4. ASSUME NEW b \in Action, row[b].key = k, row[b].status = "failed",
               Revive(b, row[a].rev)
        PROVE  Opens(b)
    <2>1. ~IsReply(b) BY <1>1, <1>4, KeyKinds DEF SlotInv, KeyInv
    <2>2. row[b].kind # "none" BY <1>4 DEF SlotInv, RealInv
    <2> QED BY <1>3, <1>4, <2>1, <2>2, ReviveOpens
  <1>5. ASSUME NEW b \in Action,
               Insert(b, [kind |-> "owner_notification", status |-> "pending",
                          mode |-> row[a].mode, rev |-> row[a].rev,
                          text |-> NoText, key |-> k])
        PROVE  Opens(b)
    BY <1>3, <1>5, InsertOpens
  <1> QED BY <1>4, <1>5, SameNarrow DEF QueueNotice, RowsStep

LEMMA DispatcherRows ==
  ASSUME SlotInv, NEW d \in Dispatcher, DispatcherStep(d) \/ Crash(d)
  PROVE  RowsStep
  <1>1. CASE UNCHANGED row BY <1>1, SameNarrow DEF RowsStep
  <1>2. CASE RecoverStale(d)
    <2>1. ASSUME NEW a \in Action
          PROVE  /\ SameRow(a) /\ row'[a].rev = row[a].rev
                 /\ row'[a].status \in Active => row[a].status \in Active
      <3>1. row[a] \in Row BY DEF SlotInv
      <3>2. row'[a] = row[a] \/ (row[a].status = "sending" /\ \E s \in Status :
                                   row'[a] = [row[a] EXCEPT !.status = s])
        BY <1>2 DEF RecoverStale, Recovered, Status
      <3> QED BY <3>1, <3>2 DEF SameRow, Active, Row
    <2> QED BY <2>1 DEF Narrow, RowsStep
  <1>3. ASSUME NEW a \in Action, Claim(d, a) PROVE Narrow
    BY <1>3, StatusNarrow DEF Claim, Claimable, Active, SlotInv
  <1>4. CASE FinishWrite(d)
    <2>1. disp[d].act \in Action BY <1>4 DEF FinishWrite, Working, SlotInv
    <2>2. CASE SetStatus(disp[d].act, disp[d].outcome)
               /\ row[disp[d].act].status \in {"sending", "failed_needs_review"}
      BY <2>1, <2>2, StatusNarrow DEF Active, SlotInv, RowsStep
    <2> QED BY <1>1, <1>4, <2>2 DEF FinishWrite, Reconciles
  <1> QED BY <1>1, <1>2, <1>3, <1>4, NoticeRows
      DEF DispatcherStep, BeginDispatch, EndDispatch, QueueNoticeFails, DryRun, Guard,
          Send, Record, Readback, FinishRead, Crash, RowsStep

LEMMA OperatorRows ==
  ASSUME SlotInv, NEW o \in Operator, OperatorStep(o)
  PROVE  RowsStep
  <1> DEFINE a == op[o].act
  <1>1. CASE UNCHANGED row BY <1>1, SameNarrow DEF RowsStep
  <1>2. CASE op[o].cmd # "none" /\ \E s : SetStatus(a, s) /\ s \notin Active
    <2>1. a \in Action BY <1>2 DEF SlotInv
    <2> QED BY <1>2, <2>1, StatusNarrow DEF RowsStep, SlotInv
  <1>3. CASE EndRetry(o) /\ SetStatus(a, "pending")
             /\ ~(IsReply(a) /\ HasActive(row[a].mode, row[a].rev, a))
    <2>1. a \in Action /\ row[a].kind # "none"
      BY <1>3 DEF EndRetry, SlotInv, RealInv
    <2>2. /\ row'[a].status = "pending" /\ SameRow(a) /\ row'[a].rev = row[a].rev
          /\ \A c \in Action \ {a} : row'[c] = row[c]
      BY <1>3, <2>1, SetStatusEffect DEF SlotInv, SameRow
    <2>3. row[a].rev <= source.revision BY <2>1 DEF SlotInv, BoundInv
    <2>4. row'[a].kind = "send_reply" => /\ row'[a].key \in ReplyKey
                                         /\ ~HasActive(row'[a].mode, row'[a].rev, a)
      BY <1>3, <2>1, <2>2 DEF SlotInv, KeyInv, IsReply, SameRow
    <2>5. Opens(a) BY <2>1, <2>2, <2>3, <2>4 DEF Opens, SameRow
    <2> QED BY <2>1, <2>5 DEF RowsStep
  <1>4. CASE \E b \in Action : BeginRetry(o, b) \/ BeginCancel(o, b) \/ BeginMarkSent(o, b)
    BY <1>1, <1>4 DEF BeginRetry, BeginCancel, BeginMarkSent
  <1>5. CASE EndRetry(o) BY <1>1, <1>3, <1>5 DEF EndRetry
  <1>6. CASE EndCancel(o) BY <1>2, <1>6 DEF EndCancel, Active
  <1>7. CASE EndMarkSent(o) BY <1>2, <1>7 DEF EndMarkSent, Active
  <1> QED BY <1>4, <1>5, <1>6, <1>7 DEF OperatorStep

LEMMA EnvironmentRows ==
  ASSUME SlotInv,
         \/ \E deleted \in BOOLEAN : Upsert(deleted)
         \/ Invalidate \/ IngestionCrash \/ TakeOver \/ CloseByOperator \/ RejectAndEnd
         \/ \E a \in Action : Age(a)
  PROVE  Narrow
  <1>1. CASE UNCHANGED row BY <1>1, SameNarrow
  <1>2. CASE Invalidate
    BY <1>2 DEF Invalidate, Fenced, Active, Narrow, SameRow, SlotInv, Row
  <1>3. ASSUME NEW S, CancelRows(S) PROVE Narrow
    BY <1>3 DEF CancelRows, Active, Narrow, SameRow, SlotInv, Row
  <1> QED BY <1>1, <1>2, <1>3
      DEF Upsert, IngestionCrash, TakeOver, CloseByOperator, RejectAndEnd, Age

LEMMA NextRows ==
  ASSUME SlotInv, [Next]_vars
  PROVE  RowsStep
  <1>1. CASE UNCHANGED vars BY <1>1, SameNarrow DEF vars, RowsStep
  <1>2. CASE Next
    BY <1>2, CreateRows, DispatcherRows, OperatorRows, EnvironmentRows DEF Next, RowsStep
  <1> QED BY <1>1, <1>2

-----------------------------------------------------------------------------
(* Single active send. *)

LEMMA SourceGrows ==
  ASSUME TypeInv, [Next]_vars
  PROVE  \/ source' = source
         \/ ~source.is_deleted /\ source'.revision = source.revision + 1
  <1>1. CASE UNCHANGED vars BY <1>1 DEF vars
  <1>2. ASSUME NEW deleted \in BOOLEAN, Upsert(deleted)
        PROVE  ~source.is_deleted /\ source'.revision = source.revision + 1
    BY <1>2 DEF Upsert
  <1>3. ASSUME NEW d \in Dispatcher, DispatcherStep(d) \/ Crash(d) PROVE source' = source
    BY <1>3 DEF DispatcherStep, BeginDispatch, RecoverStale, EndDispatch, QueueNotice,
                QueueNoticeFails, Claim, DryRun, Guard, Send, Record, Readback,
                FinishRead, FinishWrite, Crash
  <1>4. ASSUME NEW o \in Operator, OperatorStep(o) PROVE source' = source
    BY <1>4 DEF OperatorStep, BeginRetry, BeginCancel, BeginMarkSent, EndRetry,
                EndCancel, EndMarkSent
  <1>5. CASE \/ \E t \in Text, m \in Mode, r \in 1..MaxRevision : CreateReply(t, m, r)
             \/ \E a \in Action : Age(a)
             \/ Invalidate \/ IngestionCrash \/ TakeOver \/ CloseByOperator \/ RejectAndEnd
    BY <1>5 DEF CreateReply, Age, Invalidate, IngestionCrash, TakeOver, CloseByOperator,
                RejectAndEnd, CancelRows
  <1> QED BY <1>1, <1>2, <1>3, <1>4, <1>5 DEF Next

LEMMA SlotRows ==
  ASSUME KeyInv, BoundInv, SingleActiveSend, RowsStep,
         \A a \in Action : row[a].rev \in Nat /\ row'[a].rev \in Nat,
         source.revision \in Nat, source'.revision \in Nat,
         source'.revision >= source.revision
  PROVE  KeyInv' /\ BoundInv' /\ SingleActiveSend'
  <1> HIDE DEF AuthInv, TypeInv, TypeOK, Shape
  <1>1. CASE Narrow
    <2>1. KeyInv' BY <1>1 DEF KeyInv, Narrow, SameRow, IsReply
    <2>2. BoundInv' BY <1>1 DEF BoundInv, Narrow
    <2>3. \A a \in Action : /\ row'[a].kind = row[a].kind /\ row'[a].mode = row[a].mode
                            /\ row'[a].rev = row[a].rev
                            /\ row'[a].status \in Active => row[a].status \in Active
      BY <1>1 DEF Narrow, SameRow
    <2>4. SingleActiveSend' BY <2>3 DEF SingleActiveSend, IsReply
    <2> QED BY <2>1, <2>2, <2>4
  <1>2. ASSUME NEW a \in Action, Opens(a)
        PROVE  KeyInv' /\ BoundInv' /\ SingleActiveSend'
    <2>1. KeyInv' BY <1>2 DEF KeyInv, Opens, IsReply
    <2>2. \A b \in Action : b # a => row'[b] = row[b] BY <1>2 DEF Opens
    <2>3. BoundInv'
      <3>1. row'[a].rev <= source'.revision BY <1>2 DEF Opens
      <3>2. \A b \in Action : b # a => row'[b].rev <= source'.revision
        BY <2>2 DEF BoundInv
      <3> QED BY <3>1, <3>2 DEF BoundInv
    <2>4. ASSUME NEW x \in Action, x # a, IsReply(a)', IsReply(x)',
                 row'[x].status \in Active
          PROVE  row'[x].mode # row'[a].mode \/ row'[x].rev # row'[a].rev
      BY <1>2, <2>2, <2>4 DEF Opens, HasActive, IsReply
    <2>5. ASSUME NEW b \in Action, NEW c \in Action, b # c, IsReply(b)', IsReply(c)',
                 row'[b].status \in Active, row'[c].status \in Active
          PROVE  row'[b].mode # row'[c].mode \/ row'[b].rev # row'[c].rev
      <3>1. CASE b # a /\ c # a
        BY <2>2, <2>5, <3>1 DEF SingleActiveSend, IsReply
      <3> QED BY <2>4, <2>5, <3>1
    <2> QED BY <2>1, <2>3, <2>5 DEF SingleActiveSend
  <1> QED BY <1>1, <1>2 DEF RowsStep

LEMMA InitSlot == Init => SlotInv
  <1> SUFFICES ASSUME Init PROVE SlotInv OBVIOUS
  <1>1. AuthInv BY InitAuth
  <1>2. \A a \in Action : row[a] = EmptyRow /\ source.revision = 1 BY DEF Init
  <1> QED BY <1>1, <1>2
      DEF SlotInv, KeyInv, BoundInv, SingleActiveSend, EmptyRow, IsReply

LEMMA SlotStep == SlotInv /\ [Next]_vars => SlotInv'
  <1> SUFFICES ASSUME SlotInv, [Next]_vars PROVE SlotInv' OBVIOUS
  <1>1. AuthInv' BY AuthStep DEF SlotInv
  <1>2. /\ source.revision \in Nat /\ source'.revision \in Nat
        /\ \A a \in Action : row[a].rev \in Nat /\ row'[a].rev \in Nat
    BY <1>1, DispatchAssumption DEF SlotInv, Row
  <1>3. source'.revision >= source.revision BY <1>2, SourceGrows DEF SlotInv
  <1>4. RowsStep BY NextRows
  <1> QED BY <1>1, <1>2, <1>3, <1>4, SlotRows DEF SlotInv

\* A slot never has two replies pending, in flight or under review, with any
\* number of rows and writers: whichever handler moves a row into these states
\* looks at the slot in the same transaction.
THEOREM SingleActive == Spec => []SingleActiveSend
  <1>1. SlotInv => SingleActiveSend BY DEF SlotInv
  <1> QED BY <1>1, InitSlot, SlotStep, PTL DEF Spec

-----------------------------------------------------------------------------
(* Who reopens a settled row. *)

Settled(a) ==
  \/ row'[a].status = row[a].status
  \/ /\ row[a].status \notin {"sent", "cancelled"}
     /\ row[a].status = "failed_needs_review" => row'[a].status # "pending"

Reopened(a) == \E o \in Operator : op[o].act = a /\ op'[o].cmd = "none"

LEMMA ReviveSettles ==
  ASSUME TypeInv, NEW a \in Action, NEW r, Revive(a, r), row[a].status = "failed"
  PROVE  \A c \in Action : Settled(c)
  BY ReviveEffect DEF Settled

LEMMA InsertSettles ==
  ASSUME AuthInv, NEW a \in Action, NEW new, Insert(a, new)
  PROVE  \A c \in Action : Settled(c)
  BY InsertEffect DEF Settled, RealInv

LEMMA StatusSettles ==
  ASSUME TypeInv, NEW a \in Action, NEW s, SetStatus(a, s), Settled(a)
  PROVE  \A c \in Action : Settled(c)
  BY SetStatusEffect DEF Settled

LEMMA DispatcherSettles ==
  ASSUME AuthInv, NEW d \in Dispatcher, DispatcherStep(d) \/ Crash(d)
  PROVE  \A a \in Action : Settled(a)
  <1>1. CASE UNCHANGED row BY <1>1 DEF Settled
  <1>2. CASE RecoverStale(d)
    <2> SUFFICES ASSUME NEW a \in Action PROVE Settled(a) OBVIOUS
    <2>1. row'[a] = row[a] \/ row[a].status = "sending"
      BY <1>2 DEF RecoverStale
    <2> QED BY <2>1 DEF Settled
  <1>3. ASSUME NEW k \in disp[d].todo, QueueNotice(d, k)
        PROVE  \A a \in Action : Settled(a)
    BY <1>1, <1>3, ReviveSettles, InsertSettles DEF QueueNotice
  <1>4. ASSUME NEW a \in Action, Claim(d, a) PROVE \A c \in Action : Settled(c)
    BY <1>4, StatusSettles DEF Claim, Claimable, Settled
  <1>5. CASE FinishWrite(d)
    <2> DEFINE a == disp[d].act
    <2>1. a \in Action BY <1>5 DEF FinishWrite, Working
    <2>2. disp[d].outcome # "pending" BY DEF Disp, Outcome
    <2>3. CASE SetStatus(a, disp[d].outcome)
               /\ row[a].status \in {"sending", "failed_needs_review"}
      <3>1. row'[a].status = disp[d].outcome
        BY <2>1, <2>3, SetStatusEffect
      <3> QED BY <2>1, <2>2, <2>3, <3>1, StatusSettles DEF Settled
    <2> QED BY <1>1, <1>5, <2>3 DEF FinishWrite, Reconciles
  <1> QED BY <1>1, <1>2, <1>3, <1>4, <1>5
      DEF DispatcherStep, BeginDispatch, EndDispatch, QueueNoticeFails, DryRun, Guard,
          Send, Record, Readback, FinishRead, Crash

LEMMA OperatorReopens ==
  ASSUME AuthInv, NEW o \in Operator, OperatorStep(o)
  PROVE  \A a \in Action : Settled(a) \/ Reopened(a)
  <1>1. CASE UNCHANGED row BY <1>1 DEF Settled
  <1>2. CASE op[o].cmd # "none" /\ op' = [op EXCEPT ![o] = IdleOp]
             /\ \E s : SetStatus(op[o].act, s)
    <2>1. op[o].act \in Action BY <1>2
    <2>2. op'[o].cmd = "none" BY <1>2 DEF IdleOp
    <2>3. \A a \in Action \ {op[o].act} : row'[a] = row[a]
      BY <1>2, <2>1, SetStatusEffect
    <2> QED BY <2>1, <2>2, <2>3 DEF Settled, Reopened
  <1>3. CASE \E b \in Action : BeginRetry(o, b) \/ BeginCancel(o, b) \/ BeginMarkSent(o, b)
    BY <1>1, <1>3 DEF BeginRetry, BeginCancel, BeginMarkSent
  <1>4. CASE EndRetry(o) BY <1>1, <1>2, <1>4 DEF EndRetry
  <1>5. CASE EndCancel(o) BY <1>2, <1>5 DEF EndCancel
  <1>6. CASE EndMarkSent(o) BY <1>2, <1>6 DEF EndMarkSent
  <1> QED BY <1>3, <1>4, <1>5, <1>6 DEF OperatorStep

LEMMA EnvironmentSettles ==
  ASSUME AuthInv,
         \/ \E deleted \in BOOLEAN : Upsert(deleted)
         \/ Invalidate \/ IngestionCrash \/ TakeOver \/ CloseByOperator \/ RejectAndEnd
         \/ \E a \in Action : Age(a)
         \/ \E t \in Text, m \in Mode, r \in 1..MaxRevision : CreateReply(t, m, r)
  PROVE  \A a \in Action : Settled(a)
  <1>1. CASE UNCHANGED row BY <1>1 DEF Settled
  <1>2. CASE Invalidate
    <2> SUFFICES ASSUME NEW a \in Action PROVE Settled(a) OBVIOUS
    <2>1. row'[a] = row[a] \/ row'[a] = [row[a] EXCEPT !.status = Fenced(@)]
      BY <1>2 DEF Invalidate
    <2>2. row[a] \in Row OBVIOUS
    <2> QED BY <2>1, <2>2 DEF Settled, Fenced, Row
  <1>3. ASSUME NEW S, CancelRows(S),
               \A a \in S : row[a].status \in {"pending", "sending"}
        PROVE  \A a \in Action : Settled(a)
    BY <1>3 DEF CancelRows, Settled, Row
  <1>4. CASE TakeOver \/ CloseByOperator \/ RejectAndEnd
    BY <1>3, <1>4 DEF TakeOver, CloseByOperator, RejectAndEnd, Replies
  <1>5. ASSUME NEW t \in Text, NEW m \in Mode, NEW r \in 1..MaxRevision,
               CreateReply(t, m, r)
        PROVE  \A a \in Action : Settled(a)
    BY <1>5, ReviveSettles, InsertSettles DEF CreateReply
  <1> QED BY <1>1, <1>2, <1>4, <1>5 DEF Upsert, IngestionCrash, Age

\* No dispatcher, recovery, ingestion or new draft takes a row out of sent or
\* cancelled, or puts one that awaits review back in the queue: only the end of
\* an operator's own command for that row does.
THEOREM OnlyOperators == Spec => OnlyOperatorReopens
  <1>1. ASSUME AuthInv, [Next]_vars
        PROVE  \A a \in Action : Settled(a) \/ Reopened(a)
    <2>1. CASE UNCHANGED vars BY <2>1 DEF vars, Settled
    <2> QED BY <1>1, <2>1, DispatcherSettles, OperatorReopens, EnvironmentSettles DEF Next
  <1>2. AuthInv /\ [Next]_vars
        => [\A a \in Action :
              \/ row'[a].status = row[a].status
              \/ /\ row[a].status \notin {"sent", "cancelled"}
                 /\ row[a].status = "failed_needs_review" => row'[a].status # "pending"
              \/ \E o \in Operator : op[o].act = a /\ op'[o].cmd = "none"]_vars
    BY <1>1 DEF Settled, Reopened
  <1> QED BY <1>2, InitAuth, AuthStep, PTL DEF Spec, OnlyOperatorReopens

-----------------------------------------------------------------------------
(* What a step does to attempts and to the chat. *)

\* Only a provider call posts.
LEMMA OnlySendPosts ==
  ASSUME [Next]_vars, \A d \in Dispatcher : ~Send(d)
  PROVE  delivered' = delivered
  <1>1. CASE UNCHANGED vars BY <1>1 DEF vars
  <1>2. ASSUME NEW d \in Dispatcher, DispatcherStep(d) \/ Crash(d)
        PROVE  delivered' = delivered
    BY <1>2 DEF DispatcherStep, BeginDispatch, RecoverStale, EndDispatch, QueueNotice,
                QueueNoticeFails, Claim, DryRun, Guard, Record, Readback,
                FinishRead, FinishWrite, Crash
  <1>3. ASSUME NEW o \in Operator, OperatorStep(o) PROVE delivered' = delivered
    BY <1>3 DEF OperatorStep, BeginRetry, BeginCancel, BeginMarkSent, EndRetry,
                EndCancel, EndMarkSent
  <1>4. CASE \/ \E t \in Text, m \in Mode, r \in 1..MaxRevision : CreateReply(t, m, r)
             \/ \E a \in Action : Age(a)
             \/ \E deleted \in BOOLEAN : Upsert(deleted)
             \/ Invalidate \/ IngestionCrash \/ TakeOver \/ CloseByOperator \/ RejectAndEnd
    BY <1>4 DEF CreateReply, Age, Upsert, Invalidate, IngestionCrash, TakeOver,
                CloseByOperator, RejectAndEnd, CancelRows
  <1> QED BY <1>1, <1>2, <1>3, <1>4 DEF Next

SameAttempts ==
  \A a \in Action : \A n \in AttemptNo : /\ attempt'[a][n].stale = attempt[a][n].stale
                                       /\ attempt'[a][n].calls = attempt[a][n].calls

LEMMA MarkSentAttempt ==
  ASSUME AuthInv, NEW o \in Operator, EndMarkSent(o)
  PROVE  \E a \in Action, n \in AttemptNo :
           a = op[o].act /\ SetAttempt(a, n, "readback_ok", TRUE, TRUE)
  <1> DEFINE a == op[o].act
             n == IF tries[a] = 0 THEN 1 ELSE tries[a]
  <1>1. a \in Action BY DEF EndMarkSent
  <1>2. n \in AttemptNo BY <1>1, DispatchAssumption DEF AttemptNo
  <1>3. SetAttempt(a, n, "readback_ok", TRUE, TRUE) BY DEF EndMarkSent
  <1> HIDE DEF n
  <1> QED BY <1>1, <1>2, <1>3

\* The result that a dispatcher at work writes to its own attempt, and no other.
Writes(d, st) ==
  \E f \in BOOLEAN, g \in BOOLEAN : SetAttempt(disp[d].act, disp[d].try, st, f, g)

LEMMA WorkerWrites ==
  ASSUME NEW d \in Dispatcher, DryRun(d) \/ Guard(d) \/ Record(d) \/ Readback(d)
  PROVE  /\ disp[d].pc \in Working
         /\ attempt' = attempt \/ \E st \in AttemptStatus : Writes(d, st)
  BY DEF DryRun, Guard, Record, Readback, Working, Writes, AttemptStatus

LEMMA KeepAttempts ==
  ASSUME AuthInv, [Next]_vars,
         \A d \in Dispatcher : ~Send(d) /\ \A a \in Action : ~Claim(d, a)
  PROVE  SameAttempts
  <1>1. CASE attempt' = attempt BY <1>1 DEF SameAttempts
  <1>2. ASSUME NEW d \in Dispatcher, DispatcherStep(d) \/ Crash(d)
        PROVE  SameAttempts
    <2>1. CASE RecoverStale(d) BY <2>1, RecoverAttempts DEF SameAttempts
    <2>2. CASE DryRun(d) \/ Guard(d) \/ Record(d) \/ Readback(d)
      <3>1. CASE \E st \in AttemptStatus : Writes(d, st)
        BY <2>2, <3>1, WorkerWrites, SetAttemptCalls DEF Writes, SameAttempts
      <3> QED BY <1>1, <2>2, <3>1, WorkerWrites
    <2> QED BY <1>1, <1>2, <2>1, <2>2
        DEF DispatcherStep, BeginDispatch, EndDispatch, QueueNotice, QueueNoticeFails,
            FinishRead, FinishWrite, Crash
  <1>3. ASSUME NEW o \in Operator, OperatorStep(o) PROVE SameAttempts
    <2>1. CASE EndMarkSent(o)
      BY <2>1, MarkSentAttempt, SetAttemptCalls DEF SameAttempts
    <2> QED BY <1>1, <1>3, <2>1
        DEF OperatorStep, BeginRetry, BeginCancel, BeginMarkSent, EndRetry, EndCancel
  <1>4. CASE UNCHANGED vars BY <1>1, <1>4 DEF vars
  <1>5. CASE \/ \E t \in Text, m \in Mode, r \in 1..MaxRevision : CreateReply(t, m, r)
             \/ \E a \in Action : Age(a)
             \/ \E deleted \in BOOLEAN : Upsert(deleted)
             \/ Invalidate \/ IngestionCrash \/ TakeOver \/ CloseByOperator \/ RejectAndEnd
    BY <1>1, <1>5 DEF CreateReply, Age, Upsert, Invalidate, IngestionCrash, TakeOver,
                CloseByOperator, RejectAndEnd, CancelRows
  <1> QED BY <1>2, <1>3, <1>4, <1>5 DEF Next

\* The claim of row a as its n-th attempt, and the call of attempt n of row a,
\* as the layers below see them.
ClaimsAs(d, a, n) ==
  /\ disp'[d].pc = "claimed" /\ disp'[d].act = a /\ disp'[d].try = n
  /\ disp'[d].rev = row[a].rev /\ disp'[d].stale = {}
  /\ \A e \in Dispatcher \ {d} : disp'[e] = disp[e]
  /\ attempt'[a][n].status = "started"
  /\ attempt'[a][n].stale = ~Current(row[a].rev)
  /\ \A c \in Action, m \in AttemptNo :
       /\ attempt'[c][m].calls = attempt[c][m].calls
       /\ c # a \/ m # n => attempt'[c][m] = attempt[c][m]

CallsOn(d, a, n) ==
  /\ disp'[d].pc = "report" /\ disp'[d].act = a /\ disp'[d].try = n
  /\ disp'[d].rev = disp[d].rev /\ disp'[d].stale = disp[d].stale
  /\ \A e \in Dispatcher \ {d} : disp'[e] = disp[e]
  /\ attempt'[a][n].calls = 1
  /\ \A c \in Action, m \in AttemptNo :
       /\ attempt'[c][m].status = attempt[c][m].status
       /\ attempt'[c][m].stale = attempt[c][m].stale
       /\ c # a \/ m # n => attempt'[c][m] = attempt[c][m]
  /\ delivered' \in {delivered, delivered \cup {<<a, n>>}}
  /\ disp'[d].report \in {"ok", "no_id"} => <<a, n>> \in delivered'
  /\ disp'[d].report = "rejected" => delivered' = delivered

LEMMA ClaimEffect ==
  ASSUME AuthInv, NEW d \in Dispatcher, NEW a \in Action, Claim(d, a)
  PROVE  /\ tries[a] + 1 \in AttemptNo /\ row[a].kind # "none"
         /\ ClaimsAs(d, a, tries[a] + 1)
  <1> DEFINE n == tries[a] + 1
  <1>1. n \in AttemptNo BY DispatchAssumption DEF Claim, AttemptNo
  <1>2. /\ disp'[d] = [IdleDisp EXCEPT !.pc = "claimed", !.act = a, !.try = n,
                                        !.rev = row[a].rev]
        /\ \A e \in Dispatcher \ {d} : disp'[e] = disp[e]
    BY DEF Claim
  <1>3. attempt' = [attempt EXCEPT ![a][n].status = "started",
                                   ![a][n].stale = ~Current(row[a].rev)]
    BY DEF Claim
  <1>4. row[a].kind # "none" BY DEF Claim, Claimable, RealInv
  <1> HIDE DEF n
  <1>5. /\ attempt'[a][n].status = "started"
        /\ attempt'[a][n].stale = ~Current(row[a].rev)
        /\ attempt'[a][n].calls = attempt[a][n].calls
        /\ \A c \in Action, m \in AttemptNo :
             c # a \/ m # n => attempt'[c][m] = attempt[c][m]
    BY <1>1, <1>3 DEF Attempt
  <1>6. ClaimsAs(d, a, n) BY <1>1, <1>2, <1>5 DEF IdleDisp, ClaimsAs
  <1> QED BY <1>1, <1>4, <1>6 DEF n

LEMMA SendEffect ==
  ASSUME AuthInv, NEW d \in Dispatcher, Send(d)
  PROVE  /\ disp[d].act \in Action /\ disp[d].try \in AttemptNo
         /\ disp[d].pc = "send" /\ attempt[disp[d].act][disp[d].try].calls = 0
         /\ CallsOn(d, disp[d].act, disp[d].try)
  <1> DEFINE a == disp[d].act
             n == disp[d].try
  <1>1. /\ a \in Action /\ n \in AttemptNo /\ disp[d].pc = "send"
        /\ attempt[a][n].calls = 0
    BY DEF Send, Working, BeforeSend, HoldInv
  <1>2. attempt' = [attempt EXCEPT ![a][n].calls = @ + 1] BY DEF Send
  <1>3. PICK rep \in {"ok", "no_id", "rejected", "unknown"}, posted \in BOOLEAN :
          /\ rep \in {"ok", "no_id"} => posted
          /\ rep = "rejected" => ~posted
          /\ delivered' = IF posted THEN delivered \cup {<<a, n>>} ELSE delivered
          /\ disp' = [disp EXCEPT ![d].pc = "report", ![d].report = rep]
    BY DEF Send
  <1>4. /\ disp'[d].pc = "report" /\ disp'[d].act = a /\ disp'[d].try = n
        /\ disp'[d].rev = disp[d].rev /\ disp'[d].stale = disp[d].stale
        /\ disp'[d].report = rep
        /\ \A e \in Dispatcher \ {d} : disp'[e] = disp[e]
    BY <1>3 DEF Disp
  <1> HIDE DEF a, n
  <1>5. /\ attempt'[a][n].calls = 1
        /\ \A c \in Action, m \in AttemptNo :
             /\ attempt'[c][m].status = attempt[c][m].status
             /\ attempt'[c][m].stale = attempt[c][m].stale
             /\ c # a \/ m # n => attempt'[c][m] = attempt[c][m]
    BY <1>1, <1>2 DEF Attempt
  <1>6. CallsOn(d, a, n) BY <1>3, <1>4, <1>5 DEF CallsOn
  <1> QED BY <1>1, <1>6 DEF a, n

\* What the other steps leave of a dispatcher's work: it goes on with the same
\* attempt, and passes a revision check only while its row is current.
Continues(e) ==
  disp'[e].pc \in Working =>
    /\ disp[e].pc \in Working
    /\ disp'[e].act = disp[e].act /\ disp'[e].try = disp[e].try
    /\ disp'[e].rev = disp[e].rev
    /\ disp'[e].pc \in BeforeSend => disp[e].pc \in BeforeSend
    /\ disp'[e].pc \in {"guard", "send"}
       => disp[e].pc \in {"guard", "send"} \/ Current(disp[e].rev)

LEMMA DispatcherContinues ==
  ASSUME AuthInv, NEW d \in Dispatcher,
         DispatcherStep(d) \/ Crash(d), \A a \in Action : ~Claim(d, a)
  PROVE  \A e \in Dispatcher : Continues(e)
  <1> USE DEF Continues, Working, BeforeSend, Disp
  <1>1. CASE BeginDispatch(d) BY <1>1 DEF BeginDispatch
  <1>2. CASE RecoverStale(d) BY <1>2 DEF RecoverStale
  <1>3. CASE EndDispatch(d) BY <1>3 DEF EndDispatch, Goto
  <1>4. CASE \E k \in disp[d].todo : QueueNotice(d, k) BY <1>4 DEF QueueNotice
  <1>5. CASE \E k \in disp[d].todo : QueueNoticeFails(d, k)
    BY <1>5 DEF QueueNoticeFails
  <1>6. CASE DryRun(d)
    <2>1. \/ \E out \in Outcome : Conclude(d, out)
          \/ Goto(d, "guard") /\ Current(disp[d].rev)
      BY <1>6 DEF DryRun, Outcome, StillCurrent
    <2>2. disp[d].pc = "claimed" BY <1>6 DEF DryRun
    <2> QED BY <2>1, <2>2 DEF Goto, Conclude
  <1>7. CASE Guard(d)
    <2>1. Conclude(d, "cancelled") \/ Goto(d, "send") BY <1>7 DEF Guard
    <2>2. disp[d].pc = "guard" BY <1>7 DEF Guard
    <2> QED BY <2>1, <2>2 DEF Goto, Conclude
  <1>8. CASE Send(d)
    <2>1. /\ disp'[d].pc = "report" /\ disp'[d].act = disp[d].act
          /\ disp'[d].try = disp[d].try /\ disp'[d].rev = disp[d].rev
          /\ \A e \in Dispatcher \ {d} : disp'[e] = disp[e] /\ disp[d].pc = "send"
      BY <1>8, SendEffect DEF CallsOn
    <2>2. disp[d].pc = "send" BY <1>8 DEF Send
    <2> QED BY <2>1, <2>2
  <1>9. CASE Record(d)
    <2>1. PICK p \in {"readback", "finish"}, out \in Outcome :
            disp' = [disp EXCEPT ![d].pc = p, ![d].outcome = out, ![d].report = "none"]
      BY <1>9 DEF Record, Outcome
    <2>2. disp[d].pc = "report" BY <1>9 DEF Record
    <2> QED BY <2>1, <2>2
  <1>10. CASE Readback(d) BY <1>10 DEF Readback, Conclude
  <1>11. CASE FinishRead(d) BY <1>11 DEF FinishRead, IdleDisp
  <1>12. CASE FinishWrite(d) BY <1>12 DEF FinishWrite, IdleDisp
  <1>13. CASE Crash(d) BY <1>13 DEF Crash, IdleDisp
  <1> QED BY <1>1, <1>2, <1>3, <1>4, <1>5, <1>6, <1>7, <1>8, <1>9, <1>10, <1>11,
             <1>12, <1>13 DEF DispatcherStep

LEMMA OthersContinue ==
  ASSUME AuthInv, [Next]_vars,
         \A d \in Dispatcher : \A a \in Action : ~Claim(d, a)
  PROVE  \A e \in Dispatcher : Continues(e)
  <1>1. CASE disp' = disp BY <1>1 DEF Continues
  <1>2. ASSUME NEW o \in Operator, OperatorStep(o) PROVE disp' = disp
    BY <1>2 DEF OperatorStep, BeginRetry, BeginCancel, BeginMarkSent, EndRetry,
                EndCancel, EndMarkSent
  <1>3. CASE \/ \E t \in Text, m \in Mode, r \in 1..MaxRevision : CreateReply(t, m, r)
             \/ \E a \in Action : Age(a)
             \/ \E deleted \in BOOLEAN : Upsert(deleted)
             \/ Invalidate \/ IngestionCrash \/ TakeOver \/ CloseByOperator \/ RejectAndEnd
    BY <1>1, <1>3 DEF CreateReply, Age, Upsert, Invalidate, IngestionCrash, TakeOver,
                CloseByOperator, RejectAndEnd, CancelRows
  <1>4. CASE UNCHANGED vars BY <1>1, <1>4 DEF vars
  <1> QED BY <1>1, <1>2, <1>3, <1>4, DispatcherContinues DEF Next

LEMMA RowsPersist ==
  ASSUME RowsStep, NEW a \in Action, row[a].kind # "none"
  PROVE  SameRow(a) /\ row'[a].kind # "none"
  BY DEF RowsStep, Narrow, Opens, SameRow

LEMMA CalledStep ==
  ASSUME AuthInv, CalledInv, [Next]_vars
  PROVE  CalledInv'
  <1>1. ASSUME NEW d \in Dispatcher, Send(d) PROVE CalledInv'
    <2> DEFINE a == disp[d].act
               n == disp[d].try
    <2>1. CallsOn(d, a, n) BY <1>1, SendEffect
    <2> HIDE DEF a, n
    <2>2. ASSUME NEW c \in Action, NEW m \in AttemptNo, <<c, m>> \in delivered'
          PROVE  attempt'[c][m].calls >= 1
      <3>1. CASE c = a /\ m = n BY <2>1, <3>1 DEF CallsOn
      <3>2. CASE c # a \/ m # n
        <4>1. <<c, m>> \in delivered BY <2>1, <2>2, <3>2 DEF CallsOn
        <4> QED BY <2>1, <3>2, <4>1 DEF CalledInv, CallsOn
      <3> QED BY <3>1, <3>2
    <2> QED BY <2>2 DEF CalledInv
  <1>2. ASSUME NEW d \in Dispatcher, NEW a \in Action, Claim(d, a) PROVE CalledInv'
    <2>1. delivered' = delivered BY <1>2 DEF Claim
    <2>2. \A c \in Action, m \in AttemptNo : attempt'[c][m].calls = attempt[c][m].calls
      BY <1>2, ClaimEffect DEF ClaimsAs
    <2> QED BY <2>1, <2>2 DEF CalledInv
  <1>3. CASE \A d \in Dispatcher : ~Send(d) /\ \A a \in Action : ~Claim(d, a)
    BY <1>3, KeepAttempts, OnlySendPosts DEF CalledInv, SameAttempts
  <1> QED BY <1>1, <1>2, <1>3

-----------------------------------------------------------------------------
(* Nothing superseded is posted. *)

\* A revision that is not current never is again.
CurrentAfter(r) == ~source'.is_deleted /\ source'.revision = r

LEMMA StaysSuperseded ==
  ASSUME TypeInv, [Next]_vars, NEW r \in Nat, r <= source.revision
  PROVE  r <= source'.revision /\ (CurrentAfter(r) => Current(r))
  <1>1. source.revision \in Nat BY DispatchAssumption
  <1>2. CASE source' = source BY <1>2 DEF Current, CurrentAfter
  <1>3. CASE ~source.is_deleted /\ source'.revision = source.revision + 1
    BY <1>1, <1>3 DEF Current, CurrentAfter
  <1> QED BY <1>2, <1>3, SourceGrows

\* The attempt that a claim opens is nobody's and was never called.
LEMMA ClaimIsNew ==
  ASSUME AuthInv, CalledInv, NEW a \in Action, tries[a] + 1 \in AttemptNo
  PROVE  /\ <<a, tries[a] + 1>> \notin delivered
         /\ \A e \in Dispatcher : disp[e].pc \in Working
              => disp[e].act # a \/ disp[e].try # tries[a] + 1
  <1>1. tries[a] \in Nat BY DispatchAssumption
  <1>2. attempt[a][tries[a] + 1].calls = 0
    <2>1. attempt[a][tries[a] + 1].calls <= 0 BY <1>1 DEF SendsAreAuthorised
    <2>2. attempt[a][tries[a] + 1].calls \in Nat
      <3>1. attempt[a][tries[a] + 1] \in Attempt OBVIOUS
      <3> QED BY <3>1 DEF Attempt
    <2> QED BY <2>1, <2>2
  <1>3. <<a, tries[a] + 1>> \notin delivered BY <1>2 DEF CalledInv
  <1>4. \A e \in Dispatcher : disp[e].pc \in Working /\ disp[e].act = a
          => disp[e].try <= tries[a] /\ disp[e].try \in Nat
    BY DEF HoldInv, AttemptNo
  <1> QED BY <1>1, <1>3, <1>4

LEMMA FreshStep ==
  ASSUME SlotInv, CalledInv, FreshInv, [Next]_vars
  PROVE  FreshInv'
  <1> SUFFICES ASSUME NEW e \in Dispatcher, disp'[e].pc \in Working
               PROVE  /\ disp'[e].rev <= source'.revision
                      /\ attempt'[disp'[e].act][disp'[e].try].stale
                         => ~CurrentAfter(disp'[e].rev)
                      /\ disp'[e].pc \in {"guard", "send"}
                         => ~attempt'[disp'[e].act][disp'[e].try].stale
    BY DEF FreshInv, Current, CurrentAfter
  <1>1. AuthInv BY DEF SlotInv
  <1>2. ASSUME NEW a \in Action, NEW n \in AttemptNo, disp[e].pc \in Working,
               disp[e].act = a, disp[e].try = n,
               disp'[e].act = a, disp'[e].try = n, disp'[e].rev = disp[e].rev,
               attempt'[a][n].stale = attempt[a][n].stale,
               disp'[e].pc \in {"guard", "send"}
                 => disp[e].pc \in {"guard", "send"} \/ Current(disp[e].rev)
        PROVE  /\ disp'[e].rev <= source'.revision
               /\ attempt'[disp'[e].act][disp'[e].try].stale
                  => ~CurrentAfter(disp'[e].rev)
               /\ disp'[e].pc \in {"guard", "send"}
                  => ~attempt'[disp'[e].act][disp'[e].try].stale
    <2>1. disp[e].rev \in Nat BY <1>1, DispatchAssumption DEF Disp
    <2>2. /\ disp[e].rev <= source.revision
          /\ attempt[a][n].stale => ~Current(disp[e].rev)
          /\ disp[e].pc \in {"guard", "send"} => ~attempt[a][n].stale
      BY <1>2 DEF FreshInv
    <2>3. /\ disp[e].rev <= source'.revision
          /\ CurrentAfter(disp[e].rev) => Current(disp[e].rev)
      BY <1>1, <2>1, <2>2, StaysSuperseded
    <2> QED BY <1>2, <2>2, <2>3
  <1>3. CASE \A d \in Dispatcher : \A a \in Action : ~Claim(d, a)
    <2>1. /\ disp[e].pc \in Working
          /\ disp'[e].act = disp[e].act /\ disp'[e].try = disp[e].try
          /\ disp'[e].rev = disp[e].rev
          /\ disp'[e].pc \in {"guard", "send"}
             => disp[e].pc \in {"guard", "send"} \/ Current(disp[e].rev)
      BY <1>1, <1>3, OthersContinue DEF Continues
    <2>2. \A a \in Action, n \in AttemptNo : attempt'[a][n].stale = attempt[a][n].stale
      <3>1. ASSUME NEW d \in Dispatcher, Send(d)
            PROVE  \A a \in Action, n \in AttemptNo :
                     attempt'[a][n].stale = attempt[a][n].stale
        <4>1. CallsOn(d, disp[d].act, disp[d].try) BY <1>1, <3>1, SendEffect
        <4> QED BY <4>1 DEF CallsOn
      <3> QED BY <1>1, <1>3, <3>1, KeepAttempts DEF SameAttempts
    <2>3. disp[e].act \in Action /\ disp[e].try \in AttemptNo BY <1>1, <2>1
    <2> QED BY <1>2, <2>1, <2>2, <2>3
  <1>4. ASSUME NEW d \in Dispatcher, NEW a \in Action, Claim(d, a)
        PROVE  /\ disp'[e].rev <= source'.revision
               /\ attempt'[disp'[e].act][disp'[e].try].stale
                  => ~CurrentAfter(disp'[e].rev)
               /\ disp'[e].pc \in {"guard", "send"}
                  => ~attempt'[disp'[e].act][disp'[e].try].stale
    <2> DEFINE n == tries[a] + 1
    <2>1. /\ n \in AttemptNo /\ ClaimsAs(d, a, n)
          /\ disp[e].pc \in Working => disp[e].act # a \/ disp[e].try # n
      BY <1>1, <1>4, ClaimEffect, ClaimIsNew
    <2>2. source' = source BY <1>4 DEF Claim
    <2> HIDE DEF n
    <2>3. CASE e = d
      <3>1. row[a].rev <= source.revision BY DEF SlotInv, BoundInv
      <3> QED BY <2>1, <2>2, <2>3, <3>1 DEF ClaimsAs, Current, CurrentAfter
    <2>4. CASE e # d
      <3>1. disp'[e] = disp[e] BY <2>1, <2>4 DEF ClaimsAs
      <3>2. disp[e].act \in Action /\ disp[e].try \in AttemptNo BY <1>1, <3>1
      <3>3. attempt'[disp[e].act][disp[e].try] = attempt[disp[e].act][disp[e].try]
        BY <2>1, <3>1, <3>2 DEF ClaimsAs
      <3> QED BY <1>2, <3>1, <3>2, <3>3
    <2> QED BY <2>3, <2>4
  <1> QED BY <1>3, <1>4

LEMMA NeverPostedStep ==
  ASSUME AuthInv, CalledInv, FreshInv, StaleNeverPosted, [Next]_vars
  PROVE  StaleNeverPosted'
  <1>1. delivered \subseteq Action \X AttemptNo OBVIOUS
  <1>2. ASSUME NEW d \in Dispatcher, Send(d) PROVE StaleNeverPosted'
    <2> DEFINE a == disp[d].act
               n == disp[d].try
    <2>1. /\ a \in Action /\ n \in AttemptNo /\ CallsOn(d, a, n)
          /\ ~attempt[a][n].stale
      BY <1>2, SendEffect DEF FreshInv, Working
    <2> HIDE DEF a, n
    <2>2. /\ \A c \in Action, m \in AttemptNo : attempt'[c][m].stale = attempt[c][m].stale
          /\ delivered' \in {delivered, delivered \cup {<<a, n>>}}
      BY <2>1 DEF CallsOn
    <2>3. \A x \in delivered' : x \in Action \X AttemptNo
                               /\ (x \in delivered \/ x = <<a, n>>)
      BY <1>1, <2>1, <2>2
    <2> QED BY <2>1, <2>2, <2>3 DEF StaleNeverPosted
  <1>3. ASSUME NEW d \in Dispatcher, NEW a \in Action, Claim(d, a)
        PROVE  StaleNeverPosted'
    <2>1. /\ tries[a] + 1 \in AttemptNo /\ ClaimsAs(d, a, tries[a] + 1)
          /\ <<a, tries[a] + 1>> \notin delivered
      BY <1>3, ClaimEffect, ClaimIsNew
    <2>2. delivered' = delivered BY <1>3 DEF Claim
    <2> DEFINE n == tries[a] + 1
    <2> HIDE DEF n
    <2>3. \A x \in delivered : attempt'[x[1]][x[2]] = attempt[x[1]][x[2]]
      <3> SUFFICES ASSUME NEW x \in delivered
                   PROVE  attempt'[x[1]][x[2]] = attempt[x[1]][x[2]]
        OBVIOUS
      <3>1. PICK c \in Action, m \in AttemptNo : x = <<c, m>> BY <1>1
      <3>2. c # a \/ m # n BY <2>1, <3>1 DEF n
      <3> QED BY <2>1, <3>1, <3>2 DEF ClaimsAs, n
    <2> QED BY <2>2, <2>3 DEF StaleNeverPosted
  <1>4. CASE \A d \in Dispatcher : ~Send(d) /\ \A a \in Action : ~Claim(d, a)
    BY <1>1, <1>4, KeepAttempts, OnlySendPosts DEF StaleNeverPosted, SameAttempts
  <1> QED BY <1>2, <1>3, <1>4

\* The two revision checks of a dispatch suffice: whatever edits, deletions and
\* crashes of ingestion happen meanwhile, an attempt that was claimed for a
\* superseded revision never reaches the chat.
THEOREM NothingStalePosted == Spec => []StaleNeverPosted
  <1>1. Init => FreshAll
    <2> SUFFICES ASSUME Init PROVE FreshAll OBVIOUS
    <2>1. \A d \in Dispatcher : disp[d].pc \notin Working
      BY DEF Init, IdleDisp, Working
    <2>2. delivered = {} BY DEF Init
    <2> QED BY <2>1, <2>2, InitSlot
        DEF FreshAll, FreshInv, CalledInv, StaleNeverPosted
  <1>2. FreshAll /\ [Next]_vars => FreshAll'
    <2> SUFFICES ASSUME FreshAll, [Next]_vars PROVE FreshAll' OBVIOUS
    <2>1. AuthInv /\ SlotInv BY DEF FreshAll, SlotInv
    <2> QED BY <2>1, SlotStep, CalledStep, FreshStep, NeverPostedStep DEF FreshAll
  <1>3. FreshAll => StaleNeverPosted BY DEF FreshAll
  <1> QED BY <1>1, <1>2, <1>3, PTL DEF Spec

-----------------------------------------------------------------------------
(* What attempts and rows prove about the chat. *)

LEMMA DeliveredGrows ==
  ASSUME AuthInv, [Next]_vars
  PROVE  delivered \subseteq delivered'
  <1>1. ASSUME NEW d \in Dispatcher, Send(d) PROVE delivered \subseteq delivered'
    <2>1. CallsOn(d, disp[d].act, disp[d].try) BY <1>1, SendEffect
    <2> QED BY <2>1 DEF CallsOn
  <1> QED BY <1>1, OnlySendPosts

LEMMA KindStep ==
  ASSUME SlotInv, KindInv, [Next]_vars
  PROVE  KindInv'
  <1>1. AuthInv BY DEF SlotInv
  <1>2. \A a \in Action : row[a].kind # "none" => row'[a].kind # "none"
    BY NextRows, RowsPersist
  <1>3. \A e \in Dispatcher : disp'[e].pc \in Working => row'[disp'[e].act].kind # "none"
    <2> SUFFICES ASSUME NEW e \in Dispatcher, disp'[e].pc \in Working
                 PROVE  row'[disp'[e].act].kind # "none"
      OBVIOUS
    <2>1. CASE disp[e].pc \in Working /\ disp'[e].act = disp[e].act
      BY <1>1, <1>2, <2>1 DEF KindInv
    <2>2. ASSUME NEW d \in Dispatcher, NEW a \in Action, Claim(d, a)
          PROVE  row'[disp'[e].act].kind # "none"
      <3>1. row[a].kind # "none" /\ ClaimsAs(d, a, tries[a] + 1)
        BY <1>1, <2>2, ClaimEffect
      <3>2. CASE e = d BY <1>2, <3>1, <3>2 DEF ClaimsAs
      <3>3. CASE e # d
        <4>1. disp'[e] = disp[e] BY <3>1, <3>3 DEF ClaimsAs
        <4> QED BY <2>1, <4>1
      <3> QED BY <3>2, <3>3
    <2>3. CASE \A d \in Dispatcher : \A a \in Action : ~Claim(d, a)
      BY <1>1, <2>1, <2>3, OthersContinue DEF Continues
    <2> QED BY <2>2, <2>3
  <1>4. \A a \in Action : \A n \in AttemptNo :
          <<a, n>> \in delivered' => row'[a].kind # "none"
    <2>1. ASSUME NEW d \in Dispatcher, Send(d),
                 NEW a \in Action, NEW n \in AttemptNo, <<a, n>> \in delivered'
          PROVE  row[a].kind # "none"
      <3>1. CallsOn(d, disp[d].act, disp[d].try) /\ disp[d].pc = "send"
        BY <1>1, <2>1, SendEffect
      <3>2. row[disp[d].act].kind # "none" BY <3>1 DEF KindInv, Working
      <3>3. <<a, n>> \in delivered \/ a = disp[d].act
        BY <2>1, <3>1 DEF CallsOn
      <3> QED BY <3>2, <3>3 DEF KindInv
    <2>2. CASE \A d \in Dispatcher : ~Send(d)
      BY <1>2, <2>2, OnlySendPosts DEF KindInv
    <2> QED BY <1>2, <2>1, <2>2
  <1> QED BY <1>3, <1>4 DEF KindInv

\* A message stays in the chat, and rows keep target and content.
LEMMA PostedPersists ==
  ASSUME SlotInv, KindInv, [Next]_vars, NEW a \in Action,
         row[a].kind # "none", Posted(a)
  PROVE  row'[a].kind # "none" /\ Posted(a)'
  <1>1. PICK x \in delivered : IsReply(x[1]) = IsReply(a) /\ Content(x[1]) = Content(a)
    BY DEF Posted
  <1>2. PICK b \in Action, n \in AttemptNo : x = <<b, n>> BY DEF SlotInv
  <1>3. row[b].kind # "none" BY <1>2 DEF KindInv
  <1>4. SameRow(a) /\ SameRow(b) /\ row'[a].kind # "none"
    BY <1>3, NextRows, RowsPersist
  <1>5. x \in delivered' BY DeliveredGrows DEF SlotInv
  <1>6. x[1] = b BY <1>2
  <1>7. /\ IsReply(b)' = IsReply(b) /\ Content(b)' = Content(b)
        /\ IsReply(a)' = IsReply(a) /\ Content(a)' = Content(a)
    BY <1>4 DEF SameRow, IsReply, Content
  <1>8. IsReply(b)' = IsReply(a)' /\ Content(b)' = Content(a)'
    BY <1>1, <1>6, <1>7
  <1> QED BY <1>4, <1>5, <1>6, <1>8 DEF Posted, IsReply, Content

LEMMA OwnIsPosted ==
  ASSUME NEW a, NEW n, <<a, n>> \in delivered
  PROVE  Posted(a)
  <1>1. <<a, n>>[1] = a OBVIOUS
  <1> QED BY <1>1 DEF Posted

\* What a step may make of an attempt: readback_ok only with a message in the
\* chat; failed only if it never posted and nobody is still to send it.
Graded(a, n) ==
  \/ attempt'[a][n].status = attempt[a][n].status
  \/ attempt'[a][n].status \notin {"readback_ok", "failed"}
  \/ attempt'[a][n].status = "readback_ok" /\ row[a].kind # "none" /\ Posted(a)
  \/ /\ attempt'[a][n].status = "failed" /\ <<a, n>> \notin delivered
     /\ \A e \in Dispatcher : disp'[e].pc \in BeforeSend
                              => disp'[e].act # a \/ disp'[e].try # n

LEMMA SetAttemptStatus ==
  ASSUME TypeInv, NEW b \in Action, NEW m \in AttemptNo, NEW st, NEW f, NEW g,
         SetAttempt(b, m, st, f, g)
  PROVE  /\ attempt'[b][m].status = st
         /\ \A a \in Action, n \in AttemptNo :
              a # b \/ n # m => attempt'[a][n] = attempt[a][n]
  BY DEF SetAttempt, Attempt

LEMMA WorkerGrades ==
  ASSUME EvidenceInv, NEW d \in Dispatcher,
         DryRun(d) \/ Guard(d) \/ Record(d) \/ Readback(d)
  PROVE  \A a \in Action, n \in AttemptNo : Graded(a, n)
  <1> DEFINE b == disp[d].act
             m == disp[d].try
  <1>1. AuthInv BY DEF EvidenceInv, SlotInv
  <1>2. /\ disp[d].pc \in Working /\ b \in Action /\ m \in AttemptNo
        /\ row[b].kind # "none"
    BY <1>1, WorkerWrites DEF EvidenceInv, KindInv
  <1>3. ASSUME NEW st, Writes(d, st), st \notin {"readback_ok", "failed"}
        PROVE  \A a \in Action, n \in AttemptNo : Graded(a, n)
    BY <1>1, <1>2, <1>3, SetAttemptStatus DEF Writes, Graded
  <1>4. ASSUME Writes(d, "readback_ok"), Mine(d) \in delivered
        PROVE  \A a \in Action, n \in AttemptNo : Graded(a, n)
    <2>1. Posted(b) BY <1>4, OwnIsPosted DEF Mine
    <2>2. /\ attempt'[b][m].status = "readback_ok"
          /\ \A a \in Action, n \in AttemptNo :
               a # b \/ n # m => attempt'[a][n] = attempt[a][n]
      BY <1>1, <1>2, <1>4, SetAttemptStatus DEF Writes
    <2> QED BY <1>2, <2>1, <2>2 DEF Graded
  <1>5. ASSUME Writes(d, "failed"), Mine(d) \notin delivered,
               disp'[d].pc \notin BeforeSend
        PROVE  \A a \in Action, n \in AttemptNo : Graded(a, n)
    <2>1. \A e \in Dispatcher : disp'[e].pc \in BeforeSend
                                => disp'[e].act # b \/ disp'[e].try # m
      <3>1. Keeps(d) BY <1>1, KeepsAttempt
      <3> QED BY <1>1, <1>2, <1>5, <3>1 DEF Keeps, HoldInv, BeforeSend, Working
    <2>2. /\ attempt'[b][m].status = "failed"
          /\ \A a \in Action, n \in AttemptNo :
               a # b \/ n # m => attempt'[a][n] = attempt[a][n]
      BY <1>1, <1>2, <1>5, SetAttemptStatus DEF Writes
    <2> QED BY <1>5, <2>1, <2>2 DEF Graded, Mine
  <1>6. ASSUME disp[d].pc \in BeforeSend PROVE Mine(d) \notin delivered
    <2>1. attempt[b][m].calls = 0 BY <1>1, <1>2, <1>6 DEF HoldInv
    <2> QED BY <1>2, <2>1 DEF EvidenceInv, CalledInv, Mine
  <1>7. CASE attempt' = attempt BY <1>7 DEF Graded
  <1>8. ASSUME NEW out, Conclude(d, out) PROVE disp'[d].pc \notin BeforeSend
    BY <1>1, <1>8 DEF Conclude, Disp, BeforeSend
  <1>9. CASE DryRun(d)
    <2>1. \/ Writes(d, "failed") /\ \E out : Conclude(d, out)
          \/ Writes(d, "dry_run_ok")
      BY <1>9 DEF DryRun, Writes
    <2>2. disp[d].pc \in BeforeSend BY <1>9 DEF DryRun, BeforeSend
    <2> QED BY <1>3, <1>5, <1>6, <1>8, <2>1, <2>2
  <1>10. CASE Guard(d)
    <2>1. \/ Writes(d, "failed") /\ \E out : Conclude(d, out)
          \/ attempt' = attempt
      BY <1>10 DEF Guard, Writes
    <2>2. disp[d].pc \in BeforeSend BY <1>10 DEF Guard, BeforeSend
    <2> QED BY <1>5, <1>6, <1>7, <1>8, <2>1, <2>2
  <1>11. CASE Record(d)
    <2>1. \/ Writes(d, "send_ok") \/ Writes(d, "uncertain")
          \/ /\ Writes(d, "failed") /\ disp[d].report = "rejected"
             /\ disp' = [disp EXCEPT ![d].pc = "finish", ![d].outcome = "failed",
                                      ![d].report = "none"]
      BY <1>11 DEF Record, Writes, ProvesNotSent
    <2>2. ASSUME disp[d].report = "rejected" PROVE Mine(d) \notin delivered
      BY <1>2, <1>11, <2>2 DEF EvidenceInv, HeldInv, Record
    <2>3. ASSUME disp' = [disp EXCEPT ![d].pc = "finish", ![d].outcome = "failed",
                                      ![d].report = "none"]
          PROVE  disp'[d].pc \notin BeforeSend
      BY <1>1, <2>3 DEF Disp, BeforeSend
    <2> QED BY <1>3, <1>5, <2>1, <2>2, <2>3
  <1>12. CASE Readback(d)
    <2>1. Writes(d, "send_ok") \/ Writes(d, "readback_ok")
      BY <1>12 DEF Readback, Writes
    <2>2. Mine(d) \in delivered BY <1>2, <1>12 DEF EvidenceInv, HeldInv, Readback
    <2> QED BY <1>3, <1>4, <2>1, <2>2
  <1> QED BY <1>9, <1>10, <1>11, <1>12

LEMMA MarkSentGrades ==
  ASSUME EvidenceInv, NEW o \in Operator, EndMarkSent(o)
  PROVE  \A a \in Action, n \in AttemptNo : Graded(a, n)
  <1>1. AuthInv BY DEF EvidenceInv, SlotInv
  <1>2. PICK a \in Action, n \in AttemptNo :
          a = op[o].act /\ SetAttempt(a, n, "readback_ok", TRUE, TRUE)
    BY <1>1, MarkSentAttempt
  <1>3. row[a].kind # "none" /\ Posted(a)
    BY <1>1, <1>2 DEF EndMarkSent, RealInv, EvidenceInv, ProofInv
  <1>4. /\ attempt'[a][n].status = "readback_ok"
        /\ \A c \in Action, m \in AttemptNo :
             c # a \/ m # n => attempt'[c][m] = attempt[c][m]
    BY <1>1, <1>2, SetAttemptStatus
  <1> QED BY <1>3, <1>4 DEF Graded

LEMMA NextGrades ==
  ASSUME EvidenceInv, [Next]_vars
  PROVE  \A a \in Action, n \in AttemptNo : Graded(a, n)
  <1>1. AuthInv BY DEF EvidenceInv, SlotInv
  <1>2. CASE attempt' = attempt BY <1>2 DEF Graded
  <1>3. ASSUME NEW d \in Dispatcher, DispatcherStep(d) \/ Crash(d)
        PROVE  \A a \in Action, n \in AttemptNo : Graded(a, n)
    <2>1. CASE RecoverStale(d) BY <1>1, <2>1, RecoverAttempts DEF Graded
    <2>2. CASE Send(d)
      <3>1. CallsOn(d, disp[d].act, disp[d].try) BY <1>1, <2>2, SendEffect
      <3> QED BY <3>1 DEF CallsOn, Graded
    <2>3. ASSUME NEW a \in Action, Claim(d, a)
          PROVE  \A c \in Action, n \in AttemptNo : Graded(c, n)
      <3>1. ClaimsAs(d, a, tries[a] + 1) BY <1>1, <2>3, ClaimEffect
      <3> QED BY <3>1 DEF ClaimsAs, Graded
    <2> QED BY <1>2, <1>3, <2>1, <2>2, <2>3, WorkerGrades
        DEF DispatcherStep, BeginDispatch, EndDispatch, QueueNotice, QueueNoticeFails,
            FinishRead, FinishWrite, Crash
  <1>4. ASSUME NEW o \in Operator, OperatorStep(o)
        PROVE  \A a \in Action, n \in AttemptNo : Graded(a, n)
    BY <1>2, <1>4, MarkSentGrades
       DEF OperatorStep, BeginRetry, BeginCancel, BeginMarkSent, EndRetry, EndCancel
  <1>5. CASE UNCHANGED vars BY <1>2, <1>5 DEF vars
  <1>6. CASE \/ \E t \in Text, m \in Mode, r \in 1..MaxRevision : CreateReply(t, m, r)
             \/ \E a \in Action : Age(a)
             \/ \E deleted \in BOOLEAN : Upsert(deleted)
             \/ Invalidate \/ IngestionCrash \/ TakeOver \/ CloseByOperator \/ RejectAndEnd
    BY <1>2, <1>6 DEF CreateReply, Age, Upsert, Invalidate, IngestionCrash, TakeOver,
                CloseByOperator, RejectAndEnd, CancelRows
  <1> QED BY <1>3, <1>4, <1>5, <1>6 DEF Next

LEMMA FailedStep ==
  ASSUME EvidenceInv, [Next]_vars
  PROVE  FailedAttemptNotPosted'
  <1>1. AuthInv BY DEF EvidenceInv, SlotInv
  <1>2. ASSUME NEW d \in Dispatcher, Send(d) PROVE FailedAttemptNotPosted'
    <2> DEFINE b == disp[d].act
               m == disp[d].try
    <2>1. /\ b \in Action /\ m \in AttemptNo /\ CallsOn(d, b, m)
          /\ attempt[b][m].status # "failed"
      BY <1>1, <1>2, SendEffect DEF EvidenceInv, HeldInv, Working, BeforeSend
    <2> HIDE DEF b, m
    <2> SUFFICES ASSUME NEW a \in Action, NEW n \in AttemptNo,
                        attempt'[a][n].status = "failed"
                 PROVE  <<a, n>> \notin delivered'
      BY DEF FailedAttemptNotPosted
    <2>2. attempt[a][n].status = "failed" BY <2>1 DEF CallsOn
    <2>3. <<a, n>> \notin delivered BY <2>2 DEF EvidenceInv, FailedAttemptNotPosted
    <2>4. a # b \/ n # m BY <2>1, <2>2
    <2> QED BY <2>1, <2>3, <2>4 DEF CallsOn
  <1>3. CASE \A d \in Dispatcher : ~Send(d)
    <2>1. delivered' = delivered BY <1>3, OnlySendPosts
    <2>2. \A a \in Action, n \in AttemptNo :
            attempt'[a][n].status = "failed" => <<a, n>> \notin delivered
      BY NextGrades DEF Graded, EvidenceInv, FailedAttemptNotPosted
    <2> QED BY <2>1, <2>2 DEF FailedAttemptNotPosted
  <1> QED BY <1>2, <1>3

\* The part of HeldInv about a call that was made.
Told(d) ==
  /\ disp[d].pc = "report" /\ disp[d].report = "rejected" => Mine(d) \notin delivered
  /\ disp[d].pc = "report" /\ disp[d].report = "ok" => Mine(d) \in delivered
  /\ disp[d].pc = "readback" => Mine(d) \in delivered
  /\ disp[d].pc \in {"finish", "write"} /\ disp[d].outcome = "sent"
     => Mine(d) \in delivered

LEMMA HeldTold == ASSUME HeldInv, NEW d \in Dispatcher PROVE Told(d)
  BY DEF HeldInv, Told, Working

\* A dispatcher's own step tells no more than the provider told it.
LEMMA OwnTold ==
  ASSUME EvidenceInv, NEW d \in Dispatcher, DispatcherStep(d) \/ Crash(d),
         [Next]_vars, disp'[d] # disp[d]
  PROVE  Told(d)'
  <1>1. AuthInv /\ Told(d) BY HeldTold DEF EvidenceInv, SlotInv
  <1>2. ASSUME disp'[d].pc \in {"idle", "recover", "scan", "claimed", "guard", "send"}
        PROVE  Told(d)'
    BY <1>2 DEF Told
  <1>3. CASE BeginDispatch(d)
    <2>1. disp'[d].pc \in {"recover", "scan"} BY <1>1, <1>3 DEF BeginDispatch, Disp
    <2> QED BY <1>2, <2>1
  <1>4. CASE RecoverStale(d)
    <2>1. disp'[d].pc = "scan" BY <1>1, <1>4 DEF RecoverStale, Disp
    <2> QED BY <1>2, <2>1
  <1>5. CASE EndDispatch(d)
    <2>1. disp'[d].pc = "idle" BY <1>1, <1>5 DEF EndDispatch, Goto, Disp
    <2> QED BY <1>2, <2>1
  <1>6. CASE \E k \in disp[d].todo : QueueNotice(d, k) \/ QueueNoticeFails(d, k)
    <2>1. disp'[d].pc = "scan" BY <1>1, <1>6 DEF QueueNotice, QueueNoticeFails, Disp
    <2> QED BY <1>2, <2>1
  <1>7. ASSUME NEW a \in Action, Claim(d, a) PROVE Told(d)'
    <2>1. disp'[d].pc = "claimed" BY <1>1, <1>7, ClaimEffect DEF ClaimsAs
    <2> QED BY <1>2, <2>1
  <1>8. ASSUME NEW out, out # "sent", Conclude(d, out) PROVE Told(d)'
    <2>1. disp'[d].pc = "finish" /\ disp'[d].outcome = out
      BY <1>1, <1>8 DEF Conclude, Disp
    <2> QED BY <1>8, <2>1 DEF Told
  <1>9. ASSUME NEW p \in {"guard", "send"}, Goto(d, p) PROVE Told(d)'
    <2>1. disp'[d].pc = p BY <1>1, <1>9 DEF Goto, Disp
    <2> QED BY <1>2, <2>1
  <1>10. CASE DryRun(d)
    <2>1. Conclude(d, "cancelled") \/ Conclude(d, "failed") \/ Goto(d, "guard")
      BY <1>10 DEF DryRun
    <2> QED BY <1>8, <1>9, <2>1
  <1>11. CASE Guard(d)
    <2>1. Conclude(d, "cancelled") \/ Goto(d, "send") BY <1>11 DEF Guard
    <2> QED BY <1>8, <1>9, <2>1
  <1>12. CASE Send(d)
    <2> DEFINE b == disp[d].act
               m == disp[d].try
    <2>1. /\ b \in Action /\ m \in AttemptNo /\ attempt[b][m].calls = 0
          /\ CallsOn(d, b, m)
      BY <1>1, <1>12, SendEffect
    <2>2. <<b, m>> \notin delivered BY <2>1 DEF EvidenceInv, CalledInv
    <2> HIDE DEF b, m
    <2> QED BY <2>1, <2>2 DEF CallsOn, Told, Mine
  <1>13. CASE Record(d)
    <2>1. delivered' = delivered /\ disp[d].pc = "report" BY <1>13 DEF Record
    <2>2. \/ /\ disp[d].report = "ok"
             /\ disp' = [disp EXCEPT ![d].pc = "readback", ![d].outcome = "none",
                                      ![d].report = "none"]
          \/ \E out \in {"failed", "failed_needs_review"} :
               disp' = [disp EXCEPT ![d].pc = "finish", ![d].outcome = out,
                                    ![d].report = "none"]
      BY <1>13 DEF Record, Acknowledged
    <2>3. /\ disp'[d].act = disp[d].act /\ disp'[d].try = disp[d].try
          /\ \/ disp[d].report = "ok" /\ disp'[d].pc = "readback"
             \/ disp'[d].pc = "finish" /\ disp'[d].outcome # "sent"
      BY <1>1, <2>2 DEF Disp
    <2> QED BY <1>1, <2>1, <2>3 DEF Told, Mine
  <1>14. CASE Readback(d)
    <2>1. /\ delivered' = delivered /\ disp[d].pc = "readback"
          /\ disp'[d].pc = "finish"
          /\ disp'[d].act = disp[d].act /\ disp'[d].try = disp[d].try
      BY <1>1, <1>14 DEF Readback, Conclude, Disp
    <2> QED BY <1>1, <2>1 DEF Told, Mine
  <1>15. CASE FinishRead(d)
    <2>1. CASE disp' = [disp EXCEPT ![d].pc = "write", ![d].seen = row[disp[d].act].status]
      <3>1. /\ disp'[d].pc = "write" /\ disp'[d].outcome = disp[d].outcome
            /\ disp'[d].act = disp[d].act /\ disp'[d].try = disp[d].try
        BY <1>1, <2>1 DEF Disp
      <3>2. delivered' = delivered /\ disp[d].pc = "finish" BY <1>15 DEF FinishRead
      <3> QED BY <1>1, <3>1, <3>2 DEF Told, Mine
    <2>2. CASE disp' = [disp EXCEPT ![d] = [IdleDisp EXCEPT !.pc = "scan"]]
      <3>1. disp'[d].pc = "scan" BY <1>1, <2>2 DEF IdleDisp
      <3> QED BY <1>2, <3>1
    <2> QED BY <1>15, <2>1, <2>2 DEF FinishRead
  <1>16. CASE FinishWrite(d)
    <2>1. disp'[d].pc = "scan" BY <1>1, <1>16 DEF FinishWrite, IdleDisp
    <2> QED BY <1>2, <2>1
  <1>17. CASE Crash(d)
    <2>1. disp'[d].pc = "idle" BY <1>1, <1>17 DEF Crash, IdleDisp
    <2> QED BY <1>2, <2>1
  <1> QED BY <1>3, <1>4, <1>5, <1>6, <1>7, <1>10, <1>11, <1>12, <1>13, <1>14, <1>15,
             <1>16, <1>17 DEF DispatcherStep

\* A step of another process leaves what a dispatcher was told.
LEMMA SameTold ==
  ASSUME EvidenceInv, NEW e \in Dispatcher, disp'[e] = disp[e], [Next]_vars
  PROVE  Told(e)'
  <1>1. AuthInv /\ Told(e) BY HeldTold DEF EvidenceInv, SlotInv
  <1>2. delivered \subseteq delivered' BY <1>1, DeliveredGrows
  <1>3. ASSUME disp[e].pc = "report", Mine(e) \notin delivered
        PROVE  Mine(e) \notin delivered'
    <2>1. ASSUME NEW d \in Dispatcher, Send(d) PROVE Mine(e) \notin delivered'
      <3>1. CallsOn(d, disp[d].act, disp[d].try) /\ disp[d].pc = "send"
        BY <1>1, <2>1, SendEffect
      <3>2. d # e BY <1>3, <3>1
      <3>3. disp[e].act # disp[d].act \/ disp[e].try # disp[d].try
        BY <1>1, <1>3, <3>1, <3>2 DEF HoldInv, Working
      <3> QED BY <1>3, <3>1, <3>3 DEF CallsOn, Mine
    <2> QED BY <1>3, <2>1, OnlySendPosts
  <1> QED BY <1>1, <1>2, <1>3 DEF Told, Mine

LEMMA HeldStep ==
  ASSUME EvidenceInv, [Next]_vars
  PROVE  HeldInv'
  <1>1. AuthInv BY DEF EvidenceInv, SlotInv
  <1>2. ASSUME NEW e \in Dispatcher PROVE Told(e)'
    <2>1. ASSUME NEW d \in Dispatcher, DispatcherStep(d) \/ Crash(d), e # d
          PROVE  disp'[e] = disp[e]
      <3>1. CASE Keeps(d) BY <2>1, <3>1 DEF Keeps
      <3>2. CASE \E a \in Action : Claim(d, a) BY <2>1, <3>2 DEF Claim
      <3>3. CASE Send(d)
        <4>1. CallsOn(d, disp[d].act, disp[d].try) BY <1>1, <3>3, SendEffect
        <4> QED BY <2>1, <4>1 DEF CallsOn
      <3> QED BY <1>1, <2>1, <3>1, <3>2, <3>3, KeepsAttempt DEF DispatcherStep
    <2>2. CASE disp'[e] = disp[e] BY <2>2, SameTold
    <2>3. CASE DispatcherStep(e) \/ Crash(e) BY <2>2, <2>3, OwnTold
    <2>4. ASSUME NEW o \in Operator, OperatorStep(o) PROVE disp' = disp
      BY <2>4 DEF OperatorStep, BeginRetry, BeginCancel, BeginMarkSent, EndRetry,
                  EndCancel, EndMarkSent
    <2>5. CASE \/ \E t \in Text, m \in Mode, r \in 1..MaxRevision : CreateReply(t, m, r)
               \/ \E a \in Action : Age(a)
               \/ \E deleted \in BOOLEAN : Upsert(deleted)
               \/ Invalidate \/ IngestionCrash \/ TakeOver \/ CloseByOperator \/ RejectAndEnd
      BY <2>2, <2>5 DEF CreateReply, Age, Upsert, Invalidate, IngestionCrash, TakeOver,
                  CloseByOperator, RejectAndEnd, CancelRows
    <2>6. CASE UNCHANGED vars BY <2>2, <2>6 DEF vars
    <2> QED BY <2>1, <2>2, <2>3, <2>4, <2>5, <2>6 DEF Next
  <1>3. ASSUME NEW e \in Dispatcher, disp'[e].pc \in BeforeSend
        PROVE  attempt'[disp'[e].act][disp'[e].try].status # "failed"
    <2>1. disp'[e].pc \in Working BY <1>3 DEF BeforeSend, Working
    <2>2. ASSUME NEW a \in Action, NEW n \in AttemptNo,
                 disp'[e].act = a, disp'[e].try = n, attempt[a][n].status # "failed"
          PROVE  attempt'[a][n].status # "failed"
      BY <1>3, <2>2, NextGrades DEF Graded
    <2>3. ASSUME disp[e].pc \in BeforeSend, disp'[e].act = disp[e].act,
                 disp'[e].try = disp[e].try
          PROVE  attempt'[disp'[e].act][disp'[e].try].status # "failed"
      <3>1. /\ disp[e].act \in Action /\ disp[e].try \in AttemptNo
            /\ attempt[disp[e].act][disp[e].try].status # "failed"
        BY <1>1, <2>3 DEF BeforeSend, Working, EvidenceInv, HeldInv
      <3> QED BY <2>2, <2>3, <3>1
    <2>4. CASE \A d \in Dispatcher : \A a \in Action : ~Claim(d, a)
      BY <1>1, <1>3, <2>1, <2>3, <2>4, OthersContinue DEF Continues
    <2>5. ASSUME NEW d \in Dispatcher, NEW a \in Action, Claim(d, a)
          PROVE  attempt'[disp'[e].act][disp'[e].try].status # "failed"
      <3>1. ClaimsAs(d, a, tries[a] + 1) BY <1>1, <2>5, ClaimEffect
      <3>2. CASE e = d BY <3>1, <3>2 DEF ClaimsAs
      <3>3. CASE e # d
        <4>1. disp'[e] = disp[e] BY <3>1, <3>3 DEF ClaimsAs
        <4> QED BY <1>3, <2>3, <4>1
      <3> QED BY <3>2, <3>3
    <2> QED BY <2>4, <2>5
  <1>4. \A e \in Dispatcher : Told(e)' BY <1>2
  <1>5. \A e \in Dispatcher : disp'[e].pc \in BeforeSend
          => attempt'[disp'[e].act][disp'[e].try].status # "failed"
    BY <1>3
  <1> QED BY <1>4, <1>5 DEF HeldInv, Told

\* A row becomes sent only with a message of its content in the chat.
LEMMA SentRows ==
  ASSUME EvidenceInv, [Next]_vars, NEW a \in Action, row'[a].status = "sent"
  PROVE  row[a].kind # "none" /\ Posted(a)
  <1>1. AuthInv BY DEF EvidenceInv, SlotInv
  <1>2. CASE row[a].status = "sent"
    BY <1>1, <1>2 DEF RealInv, EvidenceInv, SentMeansPosted
  <1>3. ASSUME row'[a].status \in {row[a].status, "pending", "sending", "cancelled",
                                   "failed_needs_review", "failed"}
        PROVE  row[a].status = "sent"
    BY <1>3
  <1>4. ASSUME NEW d \in Dispatcher, RecoverStale(d)
        PROVE  row[a].kind # "none" /\ Posted(a)
    <2> DEFINE S == disp[d].stale
               Of == CHOOSE s \in S : s.act = a
    <2>1. CASE row'[a] = row[a] BY <1>2, <2>1
    <2>2. CASE /\ \E s \in S : s.act = a
               /\ row'[a] = [row[a] EXCEPT !.status = Recovered(Of.proven)]
      <3>1. Of \in S /\ Of.act = a BY <2>2
      <3> HIDE DEF Of
      <3>2. Of.proven
        <4>1. row[a] \in Row BY <1>1
        <4> QED BY <2>2, <4>1 DEF Recovered, Row
      <3> QED BY <3>1, <3>2 DEF EvidenceInv, ProofInv
    <2> QED BY <1>4, <2>1, <2>2 DEF RecoverStale
  <1>5. ASSUME NEW d \in Dispatcher, FinishWrite(d)
        PROVE  row[a].kind # "none" /\ Posted(a)
    <2>1. CASE row' = row BY <1>2, <2>1
    <2>2. CASE SetStatus(disp[d].act, disp[d].outcome)
      <3>1. disp[d].act \in Action /\ disp[d].try \in AttemptNo /\ disp[d].pc = "write"
        BY <1>1, <1>5 DEF FinishWrite, Working
      <3>2. CASE a # disp[d].act
        <4>1. row'[a] = row[a] BY <1>1, <2>2, <3>1, <3>2, SetStatusEffect
        <4> QED BY <1>2, <4>1
      <3>3. CASE a = disp[d].act
        <4>1. disp[d].outcome = "sent" BY <1>1, <2>2, <3>1, <3>3, SetStatusEffect
        <4>2. Mine(d) \in delivered /\ row[a].kind # "none"
          BY <3>1, <3>3, <4>1 DEF EvidenceInv, HeldInv, KindInv, Working
        <4> QED BY <3>3, <4>2, OwnIsPosted DEF Mine
      <3> QED BY <3>2, <3>3
    <2> QED BY <1>5, <2>1, <2>2 DEF FinishWrite
  <1>6. ASSUME NEW o \in Operator, EndMarkSent(o)
        PROVE  row[a].kind # "none" /\ Posted(a)
    <2>1. op[o].act \in Action /\ op[o].cmd = "mark_sent" /\ SetStatus(op[o].act, "sent")
      BY <1>1, <1>6 DEF EndMarkSent
    <2>2. CASE a = op[o].act
      BY <1>1, <2>1, <2>2 DEF EvidenceInv, ProofInv, RealInv
    <2>3. CASE a # op[o].act
      <3>1. row'[a] = row[a] BY <1>1, <2>1, <2>3, SetStatusEffect
      <3> QED BY <1>2, <3>1
    <2> QED BY <2>2, <2>3
  <1>7. ASSUME NEW b \in Action, NEW st \in {"pending", "sending", "cancelled"},
               SetStatus(b, st)
        PROVE  row[a].status = "sent"
    <2>1. row'[a].status \in {row[a].status, st} BY <1>1, <1>7, SetStatusEffect
    <2> QED BY <2>1
  <1>8. ASSUME NEW b \in Action, NEW r, Revive(b, r) PROVE row[a].status = "sent"
    <2>1. row'[a].status \in {row[a].status, "pending"} BY <1>1, <1>8, ReviveEffect
    <2> QED BY <2>1
  <1>9. ASSUME NEW b \in Action, NEW new, Insert(b, new), new.status = "pending"
        PROVE  row[a].status = "sent"
    <2>1. row'[a].status \in {row[a].status, "pending"} BY <1>1, <1>9, InsertEffect
    <2> QED BY <2>1
  <1>10. CASE UNCHANGED row BY <1>2, <1>10
  <1>11. ASSUME NEW d \in Dispatcher, DispatcherStep(d) \/ Crash(d)
         PROVE  row[a].kind # "none" /\ Posted(a)
    <2>1. ASSUME NEW k, QueueNotice(d, k) PROVE UNCHANGED row \/ row[a].status = "sent"
      BY <1>8, <1>9, <2>1 DEF QueueNotice
    <2>2. ASSUME NEW b \in Action, Claim(d, b) PROVE row[a].status = "sent"
      BY <1>7, <2>2 DEF Claim
    <2> QED BY <1>2, <1>4, <1>5, <1>10, <1>11, <2>1, <2>2
        DEF DispatcherStep, BeginDispatch, EndDispatch, QueueNoticeFails, DryRun, Guard,
            Send, Record, Readback, FinishRead, Crash
  <1>12. ASSUME NEW o \in Operator, OperatorStep(o)
         PROVE  row[a].kind # "none" /\ Posted(a)
    <2>1. CASE EndRetry(o) \/ EndCancel(o)
      <3>1. op[o].act \in Action BY <1>1, <2>1 DEF EndRetry, EndCancel
      <3> QED BY <1>2, <1>7, <1>10, <2>1, <3>1 DEF EndRetry, EndCancel
    <2> QED BY <1>6, <1>10, <1>12, <2>1
        DEF OperatorStep, BeginRetry, BeginCancel, BeginMarkSent
  <1>13. CASE Invalidate
    <2>1. row'[a] = row[a] \/ row'[a] = [row[a] EXCEPT !.status = Fenced(@)]
      BY <1>13 DEF Invalidate
    <2>2. row[a] \in Row BY <1>1
    <2>3. row[a].status = "sent" BY <2>1, <2>2 DEF Fenced, Row
    <2> QED BY <1>2, <2>3
  <1>14. ASSUME NEW S, CancelRows(S) PROVE row[a].status = "sent"
    <2>1. row'[a] = row[a] \/ row'[a] = [row[a] EXCEPT !.status = "cancelled"]
      BY <1>14 DEF CancelRows
    <2>2. row[a] \in Row BY <1>1
    <2> QED BY <2>1, <2>2 DEF Row
  <1>15. ASSUME NEW t \in Text, NEW m \in Mode, NEW r \in 1..MaxRevision,
                CreateReply(t, m, r)
         PROVE  row[a].status = "sent"
    BY <1>8, <1>9, <1>15 DEF CreateReply
  <1>16. CASE UNCHANGED vars BY <1>10, <1>16 DEF vars
  <1> QED BY <1>2, <1>10, <1>11, <1>12, <1>13, <1>14, <1>15, <1>16
      DEF Next, Age, Upsert, IngestionCrash, TakeOver, CloseByOperator, RejectAndEnd

LEMMA SentStep ==
  ASSUME EvidenceInv, [Next]_vars
  PROVE  SentMeansPosted'
  <1> SUFFICES ASSUME NEW a \in Action, row'[a].status = "sent" PROVE Posted(a)'
    BY DEF SentMeansPosted
  <1> QED BY SentRows, PostedPersists DEF EvidenceInv

\* What a recovery takes for proof, and what an operator's evidence is.
NewStale(d) ==
  \A s \in disp'[d].stale :
    s.proven => s \in disp[d].stale \/ (row[s.act].kind # "none" /\ Posted(s.act))

NewMark(o) ==
  op'[o].cmd = "mark_sent" => /\ op'[o].act \in Action
                              /\ row[op'[o].act].kind # "none"
                              /\ Posted(op'[o].act)

LEMMA BeginProofs ==
  ASSUME EvidenceInv, NEW d \in Dispatcher, BeginDispatch(d)
  PROVE  NewStale(d)
  <1> DEFINE T == {[act |-> a, try |-> tries[a], proven |-> ProvesReadback(a),
                    open |-> ~attempt[a][tries[a]].finished] : a \in StaleSending}
  <1>1. AuthInv BY DEF EvidenceInv, SlotInv
  <1>2. ASSUME NEW s \in T, s.proven
        PROVE  row[s.act].kind # "none" /\ Posted(s.act)
    <2>1. PICK a \in StaleSending : s.act = a /\ s.proven = ProvesReadback(a)
      OBVIOUS
    <2>2. a \in Action /\ tries[a] \in AttemptNo BY <1>1 DEF StaleSending
    <2>3. attempt[a][tries[a]].status = "readback_ok"
      BY <1>2, <2>1 DEF ProvesReadback
    <2> QED BY <2>1, <2>2, <2>3 DEF EvidenceInv, ProofInv
  <1>3. \/ disp' = [disp EXCEPT ![d].pc = "scan"]
        \/ disp' = [disp EXCEPT ![d].pc = "recover", ![d].stale = T]
    BY DEF BeginDispatch
  <1> HIDE DEF T
  <1>4. disp'[d].stale = disp[d].stale \/ disp'[d].stale = T
    BY <1>1, <1>3 DEF Disp
  <1> QED BY <1>2, <1>4 DEF NewStale

LEMMA DispatcherProofs ==
  ASSUME EvidenceInv, NEW d \in Dispatcher, DispatcherStep(d) \/ Crash(d)
  PROVE  NewStale(d) /\ \A e \in Dispatcher \ {d} : disp'[e] = disp[e]
  <1>1. AuthInv BY DEF EvidenceInv, SlotInv
  <1>2. ASSUME disp'[d].stale \subseteq disp[d].stale PROVE NewStale(d)
    BY <1>2 DEF NewStale
  <1>3. \A e \in Dispatcher \ {d} : disp'[e] = disp[e]
    <2>1. CASE Keeps(d) BY <2>1 DEF Keeps
    <2>2. CASE \E a \in Action : Claim(d, a) BY <2>2 DEF Claim
    <2>3. CASE Send(d)
      <3>1. CallsOn(d, disp[d].act, disp[d].try) BY <1>1, <2>3, SendEffect
      <3> QED BY <3>1 DEF CallsOn
    <2> QED BY <1>1, <2>1, <2>2, <2>3, KeepsAttempt DEF DispatcherStep
  <1> SUFFICES NewStale(d) BY <1>3
  <1>4. CASE BeginDispatch(d) BY <1>4, BeginProofs
  <1>5. CASE RecoverStale(d)
    <2>1. disp'[d].stale = {} BY <1>1, <1>5 DEF RecoverStale, Disp
    <2> QED BY <1>2, <2>1
  <1>6. CASE EndDispatch(d)
    <2>1. disp'[d].stale = disp[d].stale BY <1>1, <1>6 DEF EndDispatch, Goto, Disp
    <2> QED BY <1>2, <2>1
  <1>7. CASE \E k \in disp[d].todo : QueueNotice(d, k) \/ QueueNoticeFails(d, k)
    <2>1. disp'[d].stale = disp[d].stale
      BY <1>1, <1>7 DEF QueueNotice, QueueNoticeFails, Disp
    <2> QED BY <1>2, <2>1
  <1>8. ASSUME NEW a \in Action, Claim(d, a) PROVE NewStale(d)
    <2>1. disp'[d].stale = {} BY <1>1, <1>8, ClaimEffect DEF ClaimsAs
    <2> QED BY <1>2, <2>1
  <1>9. ASSUME NEW out, Conclude(d, out) PROVE NewStale(d)
    <2>1. disp'[d].stale = disp[d].stale BY <1>1, <1>9 DEF Conclude, Disp
    <2> QED BY <1>2, <2>1
  <1>10. ASSUME NEW pc, Goto(d, pc) PROVE NewStale(d)
    <2>1. disp'[d].stale = disp[d].stale BY <1>1, <1>10 DEF Goto, Disp
    <2> QED BY <1>2, <2>1
  <1>11. CASE DryRun(d) BY <1>9, <1>10, <1>11 DEF DryRun
  <1>12. CASE Guard(d) BY <1>9, <1>10, <1>12 DEF Guard
  <1>13. CASE Send(d)
    <2>1. CallsOn(d, disp[d].act, disp[d].try) BY <1>1, <1>13, SendEffect
    <2> QED BY <1>2, <2>1 DEF CallsOn
  <1>14. CASE Record(d)
    <2>1. PICK p \in {"readback", "finish"}, out \in Outcome :
            disp' = [disp EXCEPT ![d].pc = p, ![d].outcome = out, ![d].report = "none"]
      BY <1>14 DEF Record, Outcome
    <2>2. disp'[d].stale = disp[d].stale BY <1>1, <2>1 DEF Disp
    <2> QED BY <1>2, <2>2
  <1>15. CASE Readback(d) BY <1>9, <1>15 DEF Readback
  <1>16. CASE FinishRead(d)
    <2>1. disp'[d].stale \subseteq disp[d].stale
      BY <1>1, <1>16 DEF FinishRead, IdleDisp, Disp
    <2> QED BY <1>2, <2>1
  <1>17. CASE FinishWrite(d)
    <2>1. disp'[d].stale = {} BY <1>1, <1>17 DEF FinishWrite, IdleDisp
    <2> QED BY <1>2, <2>1
  <1>18. CASE Crash(d)
    <2>1. disp'[d].stale = {} BY <1>1, <1>18 DEF Crash, IdleDisp
    <2> QED BY <1>2, <2>1
  <1> QED BY <1>4, <1>5, <1>6, <1>7, <1>8, <1>11, <1>12, <1>13, <1>14, <1>15, <1>16,
             <1>17, <1>18 DEF DispatcherStep

LEMMA OperatorProofs ==
  ASSUME EvidenceInv, NEW o \in Operator, OperatorStep(o)
  PROVE  NewMark(o) /\ \A p \in Operator \ {o} : op'[p] = op[p]
  <1>1. AuthInv BY DEF EvidenceInv, SlotInv
  <1>2. ASSUME op' = [op EXCEPT ![o] = IdleOp] PROVE NewMark(o)
    BY <1>1, <1>2 DEF IdleOp, NewMark
  <1>3. ASSUME NEW a \in Action, BeginMarkSent(o, a) PROVE NewMark(o)
    <2>1. row[a].kind # "none" /\ Posted(a)
      BY <1>1, <1>3 DEF BeginMarkSent, RealInv
    <2>2. op'[o].act = a BY <1>1, <1>3 DEF BeginMarkSent
    <2> QED BY <2>1, <2>2 DEF NewMark
  <1>4. ASSUME NEW a \in Action, BeginRetry(o, a) \/ BeginCancel(o, a)
        PROVE  NewMark(o)
    BY <1>1, <1>4 DEF BeginRetry, BeginCancel, NewMark
  <1>5. \A p \in Operator \ {o} : op'[p] = op[p]
    BY <1>1 DEF OperatorStep, BeginRetry, BeginCancel, BeginMarkSent, EndRetry,
                EndCancel, EndMarkSent
  <1> QED BY <1>2, <1>3, <1>4, <1>5 DEF OperatorStep, EndRetry, EndCancel, EndMarkSent

LEMMA NewProofs ==
  ASSUME EvidenceInv, [Next]_vars
  PROVE  /\ \A d \in Dispatcher : NewStale(d)
         /\ \A o \in Operator : NewMark(o)
  <1>1. AuthInv BY DEF EvidenceInv, SlotInv
  <1>2. ASSUME NEW d \in Dispatcher, disp'[d] = disp[d] PROVE NewStale(d)
    BY <1>2 DEF NewStale
  <1>3. ASSUME NEW o \in Operator, op'[o] = op[o] PROVE NewMark(o)
    BY <1>1, <1>3 DEF NewMark, RealInv, EvidenceInv, ProofInv
  <1>4. ASSUME NEW d \in Dispatcher, DispatcherStep(d) \/ Crash(d)
        PROVE  op' = op /\ \A e \in Dispatcher : NewStale(e)
    <2>1. op' = op
      BY <1>4 DEF DispatcherStep, BeginDispatch, RecoverStale, EndDispatch, QueueNotice,
                  QueueNoticeFails, Claim, DryRun, Guard, Send, Record, Readback,
                  FinishRead, FinishWrite, Crash
    <2> QED BY <1>2, <1>4, <2>1, DispatcherProofs
  <1>5. ASSUME NEW o \in Operator, OperatorStep(o)
        PROVE  disp' = disp /\ \A p \in Operator : NewMark(p)
    <2>1. disp' = disp
      BY <1>5 DEF OperatorStep, BeginRetry, BeginCancel, BeginMarkSent, EndRetry,
                  EndCancel, EndMarkSent
    <2> QED BY <1>3, <1>5, <2>1, OperatorProofs
  <1>6. CASE \/ \E t \in Text, m \in Mode, r \in 1..MaxRevision : CreateReply(t, m, r)
             \/ \E a \in Action : Age(a)
             \/ \E deleted \in BOOLEAN : Upsert(deleted)
             \/ Invalidate \/ IngestionCrash \/ TakeOver \/ CloseByOperator \/ RejectAndEnd
    <2>1. op' = op /\ disp' = disp
      BY <1>6 DEF CreateReply, Age, Upsert, Invalidate, IngestionCrash, TakeOver,
                  CloseByOperator, RejectAndEnd, CancelRows
    <2> QED BY <1>2, <1>3, <2>1
  <1>7. CASE UNCHANGED vars BY <1>2, <1>3, <1>7 DEF vars
  <1> QED BY <1>2, <1>3, <1>4, <1>5, <1>6, <1>7 DEF Next

LEMMA ProofStep ==
  ASSUME EvidenceInv, [Next]_vars
  PROVE  ProofInv'
  <1>1. AuthInv BY DEF EvidenceInv, SlotInv
  <1>2. ASSUME NEW a \in Action, row[a].kind # "none", Posted(a)
        PROVE  row'[a].kind # "none" /\ Posted(a)'
    BY <1>2, PostedPersists DEF EvidenceInv
  <1>3. ASSUME NEW a \in Action, NEW n \in AttemptNo,
               attempt'[a][n].status = "readback_ok"
        PROVE  row'[a].kind # "none" /\ Posted(a)'
    <2>1. row[a].kind # "none" /\ Posted(a)
      BY <1>3, NextGrades DEF Graded, EvidenceInv, ProofInv
    <2> QED BY <1>2, <2>1
  <1>4. ASSUME NEW d \in Dispatcher, NEW s \in disp'[d].stale, s.proven
        PROVE  row'[s.act].kind # "none" /\ Posted(s.act)'
    <2>1. row[s.act].kind # "none" /\ Posted(s.act)
      BY <1>4, NewProofs DEF NewStale, EvidenceInv, ProofInv
    <2>2. PICK a \in Action : a = s.act
      <3>1. disp'[d] \in Disp BY <1>1, AuthStep
      <3> QED BY <3>1 DEF Disp, Stale
    <2> QED BY <1>2, <2>1, <2>2
  <1>5. ASSUME NEW o \in Operator, op'[o].cmd = "mark_sent"
        PROVE  Posted(op[o].act)'
    <2>1. PICK a \in Action : a = op'[o].act /\ row[a].kind # "none" /\ Posted(a)
      BY <1>5, NewProofs DEF NewMark
    <2>2. Posted(a)' BY <1>2, <2>1
    <2> QED BY <2>1, <2>2 DEF Posted, IsReply, Content
  <1> QED BY <1>3, <1>4, <1>5 DEF ProofInv

LEMMA InitEvidence == Init => EvidenceInv
  <1> SUFFICES ASSUME Init PROVE EvidenceInv OBVIOUS
  <1>1. \A d \in Dispatcher : disp[d].pc \notin Working /\ disp[d].stale = {}
    BY DEF Init, IdleDisp, Working
  <1>2. delivered = {} BY DEF Init
  <1>3. \A a \in Action : \A n \in AttemptNo : attempt[a][n].status = "none"
    BY DEF Init, NoAttempt
  <1>4. \A a \in Action : row[a].status = "none" BY DEF Init, EmptyRow
  <1>5. \A o \in Operator : op[o].cmd = "none" BY DEF Init, IdleOp
  <1>6. SlotInv BY InitSlot
  <1>7. CalledInv /\ KindInv /\ HeldInv BY <1>1, <1>2 DEF CalledInv, KindInv, HeldInv
  <1>8. ProofInv BY <1>1, <1>3, <1>5 DEF ProofInv
  <1>9. FailedAttemptNotPosted /\ SentMeansPosted
    BY <1>3, <1>4 DEF FailedAttemptNotPosted, SentMeansPosted
  <1> QED BY <1>6, <1>7, <1>8, <1>9 DEF EvidenceInv

LEMMA EvidenceStep == EvidenceInv /\ [Next]_vars => EvidenceInv'
  <1> SUFFICES ASSUME EvidenceInv, [Next]_vars PROVE EvidenceInv' OBVIOUS
  <1>1. SlotInv' BY SlotStep DEF EvidenceInv
  <1>2. CalledInv' BY CalledStep DEF EvidenceInv, SlotInv
  <1>3. KindInv' BY KindStep DEF EvidenceInv
  <1> QED BY <1>1, <1>2, <1>3, HeldStep, ProofStep, FailedStep, SentStep
      DEF EvidenceInv

\* A failed attempt is proof that this attempt posted nothing, whatever stale
\* recovery, the revision guard and an operator write to it meanwhile.
THEOREM FailedIsProof == Spec => []FailedAttemptNotPosted
  <1>1. EvidenceInv => FailedAttemptNotPosted BY DEF EvidenceInv
  <1> QED BY <1>1, InitEvidence, EvidenceStep, PTL DEF Spec

\* A row is marked sent only when a message with its content is in the chat:
\* by its own dispatcher, by a recovery that found a read-back attempt, or on
\* an operator's evidence.
THEOREM SentIsPosted == Spec => []SentMeansPosted
  <1>1. EvidenceInv => SentMeansPosted BY DEF EvidenceInv
  <1> QED BY <1>1, InitEvidence, EvidenceStep, PTL DEF Spec
=============================================================================
