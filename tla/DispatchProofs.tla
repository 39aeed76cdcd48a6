--------------------------- MODULE DispatchProofs ---------------------------
(***************************************************************************)
(* Proofs about Dispatch for every value of its constants.  The inductive  *)
(* invariant is a conjunction of layers; each layer is preserved by every  *)
(* step that starts in the layers below it.                                *)
(***************************************************************************)
EXTENDS Dispatch, TLAPS

-----------------------------------------------------------------------------
(* Layer 1: types, and that references in flight are real ones. *)

Working == {"claimed", "guard", "send", "report", "readback", "finish", "write"}

Shape ==
  /\ \A d \in Dispatcher : disp[d].pc \in Working
       => disp[d].act \in Action /\ disp[d].try \in AttemptNo
  /\ \A o \in Operator : op[o].cmd # "none" => op[o].act \in Action
  /\ \A a \in Action : row[a].status = "sending" => tries[a] \in AttemptNo

TypeInv == TypeOK /\ Shape

\* Updates of one record keep its type.
LEMMA RowStatus ==
  ASSUME NEW r \in Row, NEW s \in Status
  PROVE  [r EXCEPT !.status = s] \in Row
  BY DEF Row

LEMMA RowRevive ==
  ASSUME NEW r \in Row, NEW s \in Status, NEW v \in 0..MaxRevision
  PROVE  [r EXCEPT !.status = s, !.rev = v] \in Row
  BY DEF Row

LEMMA AttemptSet ==
  ASSUME NEW x \in Attempt, NEW s \in AttemptStatus,
         NEW f \in BOOLEAN, NEW g \in BOOLEAN
  PROVE  [x EXCEPT !.status = s, !.finished = @ \/ f,
                   !.sent_message_id = @ \/ g] \in Attempt
  <1>1. CASE f /\ g BY <1>1 DEF Attempt
  <1>2. CASE f /\ ~g BY <1>2 DEF Attempt
  <1>3. CASE ~f /\ g BY <1>3 DEF Attempt
  <1>4. CASE ~f /\ ~g BY <1>4 DEF Attempt
  <1> QED BY <1>1, <1>2, <1>3, <1>4

LEMMA AttemptClaim ==
  ASSUME NEW x \in Attempt, NEW g \in BOOLEAN
  PROVE  [x EXCEPT !.status = "started", !.stale = g] \in Attempt
  BY DEF Attempt, AttemptStatus

LEMMA AttemptCall ==
  ASSUME NEW x \in Attempt
  PROVE  [x EXCEPT !.calls = @ + 1] \in Attempt
  BY DEF Attempt

LEMMA DispPc ==
  ASSUME NEW x \in Disp, NEW p \in Pc
  PROVE  [x EXCEPT !.pc = p] \in Disp
  BY DEF Disp

LEMMA DispRecover ==
  ASSUME NEW x \in Disp, NEW p \in Pc, NEW S \in SUBSET Stale
  PROVE  [x EXCEPT !.pc = p, !.stale = S] \in Disp
  BY DEF Disp

LEMMA DispScan ==
  ASSUME NEW x \in Disp, NEW p \in Pc, NEW S \in SUBSET Stale,
         NEW T \in SUBSET NoticeKey
  PROVE  [x EXCEPT !.pc = p, !.stale = S, !.todo = T] \in Disp
  BY DEF Disp

LEMMA DispTodo ==
  ASSUME NEW x \in Disp, NEW k
  PROVE  [x EXCEPT !.todo = @ \ {k}] \in Disp
  BY DEF Disp

LEMMA DispConclude ==
  ASSUME NEW x \in Disp, NEW p \in Pc, NEW out \in Outcome
  PROVE  [x EXCEPT !.pc = p, !.outcome = out] \in Disp
  BY DEF Disp

LEMMA DispReport ==
  ASSUME NEW x \in Disp, NEW p \in Pc, NEW rep \in Report
  PROVE  [x EXCEPT !.pc = p, !.report = rep] \in Disp
  BY DEF Disp

LEMMA DispRecord ==
  ASSUME NEW x \in Disp, NEW p \in Pc, NEW out \in Outcome
  PROVE  [x EXCEPT !.pc = p, !.outcome = out, !.report = "none"] \in Disp
  BY DEF Disp, Report

LEMMA DispSeen ==
  ASSUME NEW x \in Disp, NEW p \in Pc, NEW st \in Status
  PROVE  [x EXCEPT !.pc = p, !.seen = st] \in Disp
  BY DEF Disp

LEMMA DispIdle ==
  /\ IdleDisp \in Disp
  /\ [IdleDisp EXCEPT !.pc = "scan"] \in Disp
  /\ \A T \in SUBSET NoticeKey : [IdleDisp EXCEPT !.pc = "scan", !.todo = T] \in Disp
  <1>0. 0 \in 0..MaxAttempt /\ 0 \in 0..MaxRevision BY DispatchAssumption
  <1>1. IdleDisp \in Disp
    BY <1>0 DEF Disp, IdleDisp, Pc, Report, Outcome, Status
  <1>2. "scan" \in Pc BY DEF Pc
  <1>3. ASSUME NEW x \in Disp, NEW T \in SUBSET NoticeKey
        PROVE  [x EXCEPT !.pc = "scan", !.todo = T] \in Disp
    BY <1>2 DEF Disp
  <1> QED BY <1>1, <1>2, <1>3, DispPc

LEMMA DispClaim ==
  ASSUME NEW a \in Action, NEW n \in AttemptNo, NEW r \in 0..MaxRevision
  PROVE  [IdleDisp EXCEPT !.pc = "claimed", !.act = a, !.try = n, !.rev = r]
           \in Disp
  <1>1. "claimed" \in Pc /\ n \in 0..MaxAttempt
    BY DispatchAssumption DEF Pc, AttemptNo
  <1>2. ASSUME NEW x \in Disp
        PROVE  [x EXCEPT !.pc = "claimed", !.act = a, !.try = n, !.rev = r] \in Disp
    BY <1>1 DEF Disp
  <1> QED BY <1>2, DispIdle

LEMMA SetStatusType ==
  ASSUME row \in [Action -> Row], NEW a \in Action, NEW s \in Status,
         SetStatus(a, s)
  PROVE  row' \in [Action -> Row]
  <1>1. [row[a] EXCEPT !.status = s] \in Row BY RowStatus
  <1> QED BY <1>1 DEF SetStatus

LEMMA SetStatusEffect ==
  ASSUME row \in [Action -> Row], NEW a \in Action, NEW s, SetStatus(a, s)
  PROVE  /\ row'[a].status = s
         /\ row'[a].kind = row[a].kind /\ row'[a].mode = row[a].mode
         /\ row'[a].rev = row[a].rev /\ row'[a].text = row[a].text
         /\ row'[a].key = row[a].key
         /\ \A c \in Action \ {a} : row'[c] = row[c]
  BY DEF SetStatus, Row

LEMMA SetAttemptType ==
  ASSUME attempt \in [Action -> [AttemptNo -> Attempt]],
         NEW a \in Action, NEW n \in AttemptNo, NEW s \in AttemptStatus,
         NEW f \in BOOLEAN, NEW g \in BOOLEAN, SetAttempt(a, n, s, f, g)
  PROVE  attempt' \in [Action -> [AttemptNo -> Attempt]]
  <1> DEFINE x == [attempt[a][n] EXCEPT !.status = s, !.finished = @ \/ f,
                                        !.sent_message_id = @ \/ g]
  <1>0. attempt[a][n] \in Attempt OBVIOUS
  <1>1. x \in Attempt BY <1>0, AttemptSet
  <1>2. attempt' = [attempt EXCEPT ![a][n] = x] BY DEF SetAttempt
  <1> HIDE DEF x
  <1> QED BY <1>1, <1>2

LEMMA StaleType ==
  ASSUME NEW a \in Action, NEW n \in AttemptNo, NEW p \in BOOLEAN, NEW q \in BOOLEAN
  PROVE  [act |-> a, try |-> n, proven |-> p, open |-> q] \in Stale
  BY DEF Stale

LEMMA InitType == Init => TypeInv
  <1> SUFFICES ASSUME Init PROVE TypeInv OBVIOUS
  <1> USE DispatchAssumption
      DEF Init, EmptyRow, NoAttempt, IdleDisp, IdleOp, AttemptNo, Status, Mode
  <1>1. row \in [Action -> Row] BY DEF Row
  <1>2. attempt \in [Action -> [AttemptNo -> Attempt]]
    BY DEF Attempt, AttemptStatus
  <1>3. source \in [revision : 1..MaxRevision, is_deleted : BOOLEAN] OBVIOUS
  <1>4. disp \in [Dispatcher -> Disp] BY DEF Disp, Pc, Report, Outcome
  <1>5. op \in [Operator -> Op] BY DEF Op
  <1>6. Shape BY DEF Shape, Working
  <1>7. tries \in [Action -> 0..MaxAttempt] OBVIOUS
  <1>8. grants \in [Action -> Nat] OBVIOUS
  <1>9. delivered \subseteq Action \X AttemptNo OBVIOUS
  <1>10. faults \in 0..MaxFault OBVIOUS
  <1>11. fence \in BOOLEAN /\ aged \subseteq Action OBVIOUS
  <1> HIDE DEF Init, AttemptNo, Status, Mode
  <1> QED BY <1>1, <1>2, <1>3, <1>4, <1>5, <1>6, <1>7, <1>8, <1>9, <1>10, <1>11
      DEF TypeInv, TypeOK

USE DEF TypeInv, TypeOK, Shape, tables

LEMMA ReviveType ==
  ASSUME TypeInv, NEW a \in Action, NEW r \in 0..MaxRevision, Revive(a, r)
  PROVE  row' \in [Action -> Row] /\ grants' \in [Action -> Nat]
  <1>1. [row[a] EXCEPT !.status = "pending", !.rev = r] \in Row
    BY RowRevive DEF Status
  <1>2. row' = [row EXCEPT ![a] = [row[a] EXCEPT !.status = "pending", !.rev = r]]
    BY DEF Revive
  <1> QED BY <1>1, <1>2 DEF Revive, Granted

LEMMA ReviveEffect ==
  ASSUME TypeInv, NEW a \in Action, NEW r, Revive(a, r)
  PROVE  /\ row'[a].status = "pending" /\ row'[a].rev = r
         /\ row'[a].kind = row[a].kind /\ row'[a].mode = row[a].mode
         /\ row'[a].text = row[a].text /\ row'[a].key = row[a].key
         /\ \A c \in Action \ {a} : row'[c] = row[c]
         /\ grants'[a] = grants[a] + 1
         /\ \A c \in Action \ {a} : grants'[c] = grants[c]
  BY DEF Revive, Granted, Row

LEMMA T_Create ==
  ASSUME TypeInv, NEW t \in Text, NEW m \in Mode, NEW r \in 1..MaxRevision,
         CreateReply(t, m, r)
  PROVE  TypeInv'
  <1>1. row' \in [Action -> Row] /\ grants' \in [Action -> Nat]
    <2>1. CASE \E a \in Action : Revive(a, r)
      BY <2>1, ReviveType, DispatchAssumption
    <2> DEFINE new == [kind |-> "send_reply", status |-> "pending", mode |-> m,
                       rev |-> r, text |-> t, key |-> <<"reply", t, r, m>>]
    <2>2. new \in Row BY DispatchAssumption DEF Row, ReplyKey, Status
    <2> HIDE DEF new
    <2>3. CASE \E a \in Action : Insert(a, new)
      BY <2>2, <2>3 DEF Insert, Granted
    <2> QED BY <2>1, <2>3 DEF CreateReply, new
  <1>2. \A c \in Action : row'[c].status = "sending" => row[c].status = "sending"
    <2>1. CASE \E a \in Action : Revive(a, r) BY <2>1, ReviveEffect
    <2>2. CASE \E a \in Action : row' = [row EXCEPT ![a] =
                 [kind |-> "send_reply", status |-> "pending", mode |-> m,
                  rev |-> r, text |-> t, key |-> <<"reply", t, r, m>>]]
      BY <2>2
    <2> QED BY <2>1, <2>2 DEF CreateReply, Insert
  <1>3. Shape' BY <1>2 DEF CreateReply
  <1> QED BY <1>1, <1>3 DEF CreateReply

LEMMA T_Begin ==
  ASSUME TypeInv, NEW d \in Dispatcher, BeginDispatch(d)
  PROVE  TypeInv'
  <1> DEFINE S == {[act |-> a, try |-> tries[a], proven |-> ProvesReadback(a),
                    open |-> ~attempt[a][tries[a]].finished] : a \in StaleSending}
  <1>1. S \subseteq Stale
    <2> SUFFICES ASSUME NEW a \in StaleSending
                 PROVE  [act |-> a, try |-> tries[a], proven |-> ProvesReadback(a),
                         open |-> ~attempt[a][tries[a]].finished] \in Stale
      BY DEF S
    <2>1. a \in Action /\ tries[a] \in AttemptNo BY DEF StaleSending
    <2>2. ProvesReadback(a) \in BOOLEAN BY <2>1 DEF ProvesReadback, Attempt
    <2>3. (~attempt[a][tries[a]].finished) \in BOOLEAN OBVIOUS
    <2> QED BY <2>1, <2>2, <2>3, StaleType
  <1> HIDE DEF S
  <1>2. [disp[d] EXCEPT !.pc = "recover", !.stale = S] \in Disp
    BY <1>1, DispRecover DEF Pc
  <1>3. [disp[d] EXCEPT !.pc = "scan"] \in Disp
    BY DispPc DEF Pc
  <1>4. disp' = [disp EXCEPT ![d] = [disp[d] EXCEPT !.pc = "recover", !.stale = S]]
        \/ disp' = [disp EXCEPT ![d] = [disp[d] EXCEPT !.pc = "scan"]]
    BY DEF BeginDispatch, S
  <1>5. disp' \in [Dispatcher -> Disp] BY <1>2, <1>3, <1>4
  <1>6. Shape' BY <1>4 DEF BeginDispatch, Working
  <1> QED BY <1>5, <1>6 DEF BeginDispatch

LEMMA T_Recover ==
  ASSUME TypeInv, NEW d \in Dispatcher, RecoverStale(d)
  PROVE  TypeInv'
  <1> DEFINE S == disp[d].stale
             Of(a) == CHOOSE s \in S : s.act = a
             acts == {s.act : s \in S}
             T == {<<"notice", s.act, 0>> :
                      s \in {r \in S : IsReply(r.act) /\ ~r.proven}}
  <1>1. S \subseteq Stale BY DEF Disp
  <1>2. row' \in [Action -> Row]
    <2>1. \A a \in Action : [row[a] EXCEPT !.status = Recovered(Of(a).proven)] \in Row
      BY RowStatus DEF Recovered, Status
    <2> QED BY <2>1 DEF RecoverStale
  <1>3. attempt' \in [Action -> [AttemptNo -> Attempt]]
    <2>1. \A a \in Action, n \in AttemptNo :
            [attempt[a][n] EXCEPT !.finished = TRUE,
               !.status = IF Of(a).proven THEN @ ELSE "uncertain"] \in Attempt
      <3> SUFFICES ASSUME NEW a \in Action, NEW n \in AttemptNo, NEW p
                   PROVE  [attempt[a][n] EXCEPT !.finished = TRUE,
                             !.status = IF p THEN @ ELSE "uncertain"] \in Attempt
        OBVIOUS
      <3>1. attempt[a][n] \in Attempt OBVIOUS
      <3>2. (IF p THEN attempt[a][n].status ELSE "uncertain") \in AttemptStatus
        BY <3>1 DEF Attempt, AttemptStatus
      <3> QED BY <3>1, <3>2 DEF Attempt
    <2> QED BY <2>1 DEF RecoverStale
  <1>4. disp' \in [Dispatcher -> Disp]
    <2>1. T \subseteq NoticeKey BY <1>1, DispatchAssumption DEF NoticeKey, Stale
    <2> HIDE DEF T
    <2>2. [disp[d] EXCEPT !.pc = "scan", !.stale = {}, !.todo = T] \in Disp
      BY <2>1, DispScan DEF Pc
    <2>3. disp' = [disp EXCEPT ![d] = [disp[d] EXCEPT !.pc = "scan", !.stale = {}, !.todo = T]]
      BY DEF RecoverStale, T
    <2> QED BY <2>2, <2>3
  <1>5. Shape'
    <2>1. \A a \in Action : row'[a].status = "sending" => row[a].status = "sending"
      BY DEF RecoverStale, Recovered, Row
    <2>2. \A e \in Dispatcher : disp'[e].pc \in Working => disp'[e] = disp[e]
      BY DEF RecoverStale, Working, Disp
    <2> QED BY <2>1, <2>2 DEF RecoverStale
  <1> QED BY <1>2, <1>3, <1>4, <1>5 DEF RecoverStale

LEMMA T_Notice ==
  ASSUME TypeInv, NEW d \in Dispatcher, NEW k \in disp[d].todo, QueueNotice(d, k)
  PROVE  TypeInv'
  <1> DEFINE a == k[2]
             new == [kind |-> "owner_notification", status |-> "pending",
                     mode |-> row[a].mode, rev |-> row[a].rev,
                     text |-> NoText, key |-> k]
  <1>1. k \in NoticeKey BY DEF Disp
  <1>2. a \in Action BY <1>1 DEF NoticeKey
  <1>3. row[a].rev \in 0..MaxRevision /\ row[a].mode \in Mode BY <1>2 DEF Row
  <1>4. new \in Row BY <1>1, <1>3 DEF Row, Status
  <1> HIDE DEF new
  <1>5. /\ row' \in [Action -> Row] /\ grants' \in [Action -> Nat]
        /\ \A c \in Action : row'[c].status = "sending" => row[c].status = "sending"
    <2>1. CASE \E b \in Action : Revive(b, row[a].rev)
      BY <1>3, <2>1, ReviveType, ReviveEffect
    <2>2. CASE UNCHANGED <<row, grants>> BY <2>2
    <2>3. CASE \E b \in Action : Insert(b, new)
      BY <1>4, <2>3 DEF Insert, Granted, new
    <2> QED BY <2>1, <2>2, <2>3 DEF QueueNotice, new
  <1>6. [disp[d] EXCEPT !.todo = @ \ {k}] \in Disp BY DispTodo
  <1>7. disp' = [disp EXCEPT ![d] = [disp[d] EXCEPT !.todo = @ \ {k}]]
    BY DEF QueueNotice
  <1>8. disp' \in [Dispatcher -> Disp] BY <1>6, <1>7
  <1>9. \A e \in Dispatcher : /\ disp'[e].pc = disp[e].pc
                              /\ disp'[e].act = disp[e].act
                              /\ disp'[e].try = disp[e].try
    BY DEF QueueNotice, Disp
  <1>10. Shape' BY <1>5, <1>9 DEF QueueNotice
  <1> QED BY <1>5, <1>8, <1>10 DEF QueueNotice

LEMMA T_NoticeFails ==
  ASSUME TypeInv, NEW d \in Dispatcher, NEW k \in disp[d].todo, QueueNoticeFails(d, k)
  PROVE  TypeInv'
  <1>1. [disp[d] EXCEPT !.todo = @ \ {k}] \in Disp BY DispTodo
  <1>2. disp' = [disp EXCEPT ![d] = [disp[d] EXCEPT !.todo = @ \ {k}]]
    BY DEF QueueNoticeFails
  <1>3. disp' \in [Dispatcher -> Disp] BY <1>1, <1>2
  <1>4. \A e \in Dispatcher : /\ disp'[e].pc = disp[e].pc
                              /\ disp'[e].act = disp[e].act
                              /\ disp'[e].try = disp[e].try
    BY DEF QueueNoticeFails, Disp
  <1>5. faults' \in 0..MaxFault BY DispatchAssumption DEF QueueNoticeFails
  <1>6. Shape' BY <1>4 DEF QueueNoticeFails
  <1> QED BY <1>3, <1>5, <1>6 DEF QueueNoticeFails

LEMMA T_Claim ==
  ASSUME TypeInv, NEW d \in Dispatcher, NEW a \in Action, Claim(d, a)
  PROVE  TypeInv'
  <1> DEFINE n == tries[a] + 1
  <1>1. n \in AttemptNo /\ n \in 0..MaxAttempt
    BY DispatchAssumption DEF Claim, AttemptNo
  <1>2. row' \in [Action -> Row] BY SetStatusType DEF Claim, Status
  <1>3. tries' = [tries EXCEPT ![a] = n] /\ tries' \in [Action -> 0..MaxAttempt]
    BY <1>1 DEF Claim
  <1>4. attempt' \in [Action -> [AttemptNo -> Attempt]]
    <2> DEFINE x == [attempt[a][n] EXCEPT !.status = "started",
                                          !.stale = ~Current(row[a].rev)]
    <2>1. attempt[a][n] \in Attempt /\ (~Current(row[a].rev)) \in BOOLEAN
      BY <1>1
    <2>2. x \in Attempt BY <2>1, AttemptClaim
    <2>3. attempt' = [attempt EXCEPT ![a][n] = x] BY DEF Claim
    <2> HIDE DEF x
    <2> QED BY <1>1, <2>2, <2>3
  <1>5. disp' \in [Dispatcher -> Disp]
    <2>1. row[a].rev \in 0..MaxRevision BY DEF Row
    <2>2. [IdleDisp EXCEPT !.pc = "claimed", !.act = a, !.try = n,
                           !.rev = row[a].rev] \in Disp
      BY <1>1, <2>1, DispClaim
    <2> QED BY <2>2 DEF Claim
  <1> HIDE DEF n
  <1>6. Shape'
    <2>1. \A c \in Action : c # a => row'[c] = row[c] /\ tries'[c] = tries[c]
      BY <1>3 DEF Claim, SetStatus
    <2>2. tries'[a] = n BY <1>3
    <2>3. disp'[d].act = a /\ disp'[d].try = n BY DEF Claim, IdleDisp, n
    <2>4. \A e \in Dispatcher : e # d => disp'[e] = disp[e] BY DEF Claim
    <2> QED BY <1>1, <2>1, <2>2, <2>3, <2>4 DEF Claim
  <1> QED BY <1>2, <1>3, <1>4, <1>5, <1>6 DEF Claim

\* The steps of a working dispatcher keep its attempt.
LEMMA T_End ==
  ASSUME TypeInv, NEW d \in Dispatcher, EndDispatch(d)
  PROVE  TypeInv'
  <1>1. [disp[d] EXCEPT !.pc = "idle"] \in Disp BY DispPc DEF Pc
  <1>2. disp' = [disp EXCEPT ![d] = [disp[d] EXCEPT !.pc = "idle"]]
    BY DEF EndDispatch, Goto
  <1>3. disp' \in [Dispatcher -> Disp] BY <1>1, <1>2
  <1>4. Shape' BY DEF EndDispatch, Goto, Working, Disp
  <1> QED BY <1>3, <1>4 DEF EndDispatch

LEMMA GotoType ==
  ASSUME TypeInv, NEW d \in Dispatcher, NEW p \in Pc, Goto(d, p)
  PROVE  /\ disp' \in [Dispatcher -> Disp]
         /\ disp'[d].act = disp[d].act /\ disp'[d].try = disp[d].try
         /\ \A e \in Dispatcher \ {d} : disp'[e] = disp[e]
  <1>1. [disp[d] EXCEPT !.pc = p] \in Disp BY DispPc
  <1>2. disp' = [disp EXCEPT ![d] = [disp[d] EXCEPT !.pc = p]] BY DEF Goto
  <1>3. disp' \in [Dispatcher -> Disp] BY <1>1, <1>2
  <1> QED BY <1>3 DEF Goto, Disp

LEMMA ConcludeType ==
  ASSUME TypeInv, NEW d \in Dispatcher, NEW out \in Outcome, Conclude(d, out)
  PROVE  /\ disp' \in [Dispatcher -> Disp]
         /\ disp'[d].act = disp[d].act /\ disp'[d].try = disp[d].try
         /\ \A e \in Dispatcher \ {d} : disp'[e] = disp[e]
  <1>1. [disp[d] EXCEPT !.pc = "finish", !.outcome = out] \in Disp
    BY DispConclude DEF Pc
  <1>2. disp' = [disp EXCEPT ![d] = [disp[d] EXCEPT !.pc = "finish", !.outcome = out]]
    BY DEF Conclude
  <1>3. disp' \in [Dispatcher -> Disp] BY <1>1, <1>2
  <1> QED BY <1>3 DEF Conclude, Disp

LEMMA T_DryRun ==
  ASSUME TypeInv, NEW d \in Dispatcher, DryRun(d)
  PROVE  TypeInv'
  <1> DEFINE a == disp[d].act
             n == disp[d].try
  <1>1. a \in Action /\ n \in AttemptNo BY DEF DryRun, Working
  <1>2. attempt' \in [Action -> [AttemptNo -> Attempt]]
    BY <1>1, SetAttemptType DEF DryRun, AttemptStatus
  <1>3. /\ disp' \in [Dispatcher -> Disp]
        /\ disp'[d].act = a /\ disp'[d].try = n
        /\ \A e \in Dispatcher \ {d} : disp'[e] = disp[e]
    BY GotoType, ConcludeType DEF DryRun, Pc, Outcome
  <1>4. Shape' BY <1>1, <1>3 DEF DryRun
  <1> QED BY <1>2, <1>3, <1>4 DEF DryRun

LEMMA T_Guard ==
  ASSUME TypeInv, NEW d \in Dispatcher, Guard(d)
  PROVE  TypeInv'
  <1> DEFINE a == disp[d].act
             n == disp[d].try
  <1>1. a \in Action /\ n \in AttemptNo BY DEF Guard, Working
  <1>2. attempt' \in [Action -> [AttemptNo -> Attempt]]
    BY <1>1, SetAttemptType DEF Guard, AttemptStatus
  <1>3. /\ disp' \in [Dispatcher -> Disp]
        /\ disp'[d].act = a /\ disp'[d].try = n
        /\ \A e \in Dispatcher \ {d} : disp'[e] = disp[e]
    BY GotoType, ConcludeType DEF Guard, Pc, Outcome
  <1>4. Shape' BY <1>1, <1>3 DEF Guard
  <1> QED BY <1>2, <1>3, <1>4 DEF Guard

LEMMA T_Send ==
  ASSUME TypeInv, NEW d \in Dispatcher, Send(d)
  PROVE  TypeInv'
  <1> DEFINE a == disp[d].act
             n == disp[d].try
  <1>1. a \in Action /\ n \in AttemptNo BY DEF Send, Working
  <1>2. attempt' \in [Action -> [AttemptNo -> Attempt]]
    <2>1. [attempt[a][n] EXCEPT !.calls = @ + 1] \in Attempt BY <1>1, AttemptCall
    <2>2. attempt' = [attempt EXCEPT ![a][n] = [attempt[a][n] EXCEPT !.calls = @ + 1]]
      BY DEF Send
    <2> QED BY <1>1, <2>1, <2>2
  <1>3. PICK rep \in Report :
          disp' = [disp EXCEPT ![d].pc = "report", ![d].report = rep]
    BY DEF Send, Report
  <1>4. disp' \in [Dispatcher -> Disp]
    <2>1. [disp[d] EXCEPT !.pc = "report", !.report = rep] \in Disp
      BY DispReport DEF Pc
    <2>2. disp' = [disp EXCEPT ![d] = [disp[d] EXCEPT !.pc = "report", !.report = rep]]
      BY <1>3
    <2> QED BY <2>1, <2>2
  <1>5. delivered' \subseteq Action \X AttemptNo BY <1>1 DEF Send
  <1>6. Shape' BY <1>1, <1>3 DEF Send, Disp
  <1> QED BY <1>2, <1>4, <1>5, <1>6 DEF Send

LEMMA T_Record ==
  ASSUME TypeInv, NEW d \in Dispatcher, Record(d)
  PROVE  TypeInv'
  <1> DEFINE a == disp[d].act
             n == disp[d].try
  <1>1. a \in Action /\ n \in AttemptNo BY DEF Record, Working
  <1>2. attempt' \in [Action -> [AttemptNo -> Attempt]]
    BY <1>1, SetAttemptType DEF Record, AttemptStatus
  <1>3. PICK p \in Pc, out \in Outcome :
          disp' = [disp EXCEPT ![d].pc = p, ![d].outcome = out, ![d].report = "none"]
    BY DEF Record, Pc, Outcome
  <1>4. disp' \in [Dispatcher -> Disp]
    <2>1. [disp[d] EXCEPT !.pc = p, !.outcome = out, !.report = "none"] \in Disp
      BY DispRecord
    <2>2. disp' = [disp EXCEPT ![d] =
                     [disp[d] EXCEPT !.pc = p, !.outcome = out, !.report = "none"]]
      BY <1>3
    <2> QED BY <2>1, <2>2
  <1>5. Shape' BY <1>1, <1>3 DEF Record, Disp
  <1> QED BY <1>2, <1>4, <1>5 DEF Record

LEMMA T_Readback ==
  ASSUME TypeInv, NEW d \in Dispatcher, Readback(d)
  PROVE  TypeInv'
  <1> DEFINE a == disp[d].act
             n == disp[d].try
  <1>1. a \in Action /\ n \in AttemptNo BY DEF Readback, Working
  <1>2. attempt' \in [Action -> [AttemptNo -> Attempt]]
    <2>1. PICK st \in {"readback_ok", "send_ok"} : SetAttempt(a, n, st, TRUE, TRUE)
      BY DEF Readback
    <2>2. st \in AttemptStatus BY DEF AttemptStatus
    <2> QED BY <1>1, <2>1, <2>2, SetAttemptType
  <1>3. /\ disp' \in [Dispatcher -> Disp]
        /\ disp'[d].act = a /\ disp'[d].try = n
        /\ \A e \in Dispatcher \ {d} : disp'[e] = disp[e]
    BY ConcludeType DEF Readback, Outcome
  <1>4. Shape' BY <1>1, <1>3 DEF Readback
  <1> QED BY <1>2, <1>3, <1>4 DEF Readback

LEMMA T_FinishRead ==
  ASSUME TypeInv, NEW d \in Dispatcher, FinishRead(d)
  PROVE  TypeInv'
  <1> DEFINE a == disp[d].act
             x == [disp[d] EXCEPT !.pc = "write", !.seen = row[a].status]
             y == [IdleDisp EXCEPT !.pc = "scan"]
  <1>1. a \in Action BY DEF FinishRead, Working
  <1>2. x \in Disp BY <1>1, DispSeen DEF Pc, Row
  <1>3. y \in Disp BY DispIdle
  <1>4. disp' = [disp EXCEPT ![d] = x] \/ disp' = [disp EXCEPT ![d] = y]
    BY DEF FinishRead
  <1>5. y.pc = "scan" /\ x.act = disp[d].act /\ x.try = disp[d].try
    BY DEF Disp, IdleDisp
  <1> HIDE DEF x, y
  <1>6. disp' \in [Dispatcher -> Disp] BY <1>2, <1>3, <1>4
  <1>7. Shape' BY <1>4, <1>5 DEF FinishRead, Working
  <1> QED BY <1>6, <1>7 DEF FinishRead

LEMMA T_FinishWrite ==
  ASSUME TypeInv, NEW d \in Dispatcher, FinishWrite(d)
  PROVE  TypeInv'
  <1> DEFINE a == disp[d].act
             n == disp[d].try
  <1>1. a \in Action /\ n \in AttemptNo BY DEF FinishWrite, Working
  <1>2. row' \in [Action -> Row]
    <2>1. disp[d].outcome \in Status BY DEF Disp, Outcome, Status
    <2> QED BY <1>1, <2>1, SetStatusType DEF FinishWrite
  <1>3. PICK T \in SUBSET NoticeKey :
          disp' = [disp EXCEPT ![d] = [IdleDisp EXCEPT !.pc = "scan", !.todo = T]]
    <2>1. {<<"notice", a, n>>} \in SUBSET NoticeKey /\ {} \in SUBSET NoticeKey
      BY <1>1, DispatchAssumption DEF NoticeKey, AttemptNo
    <2> QED BY <2>1 DEF FinishWrite
  <1>4. disp' \in [Dispatcher -> Disp] BY <1>3, DispIdle
  <1>5. disp[d].outcome # "sending" BY DEF Disp, Outcome
  <1>6. \A c \in Action : row'[c].status = "sending" => row[c].status = "sending"
    <2>1. CASE SetStatus(a, disp[d].outcome)
      <3>1. /\ row'[a].status = disp[d].outcome
            /\ \A c \in Action \ {a} : row'[c] = row[c]
        BY <1>1, <2>1, SetStatusEffect
      <3> QED BY <1>5, <3>1
    <2>2. CASE UNCHANGED row BY <2>2
    <2> QED BY <2>1, <2>2 DEF FinishWrite
  <1>7. Shape' BY <1>3, <1>6 DEF FinishWrite, IdleDisp, Working
  <1> QED BY <1>2, <1>4, <1>7 DEF FinishWrite

LEMMA T_Crash ==
  ASSUME TypeInv, NEW d \in Dispatcher, Crash(d)
  PROVE  TypeInv'
  <1>1. disp' \in [Dispatcher -> Disp] BY DispIdle DEF Crash
  <1>2. faults' \in 0..MaxFault BY DispatchAssumption DEF Crash
  <1>3. Shape' BY DEF Crash, IdleDisp, Working
  <1> QED BY <1>1, <1>2, <1>3 DEF Crash

LEMMA T_Age ==
  ASSUME TypeInv, NEW a \in Action, Age(a)
  PROVE  TypeInv'
  BY DEF Age

LEMMA T_Operator ==
  ASSUME TypeInv, NEW o \in Operator, OperatorStep(o)
  PROVE  TypeInv'
  <1>1. ASSUME NEW a \in Action, BeginRetry(o, a) PROVE TypeInv'
    BY <1>1 DEF BeginRetry, Op
  <1>2. ASSUME NEW a \in Action, BeginCancel(o, a) PROVE TypeInv'
    BY <1>2 DEF BeginCancel, Op
  <1>3. ASSUME NEW a \in Action, BeginMarkSent(o, a) PROVE TypeInv'
    BY <1>3 DEF BeginMarkSent, Op
  <1>4. CASE EndRetry(o)
    <2> DEFINE a == op[o].act
    <2>1. a \in Action BY <1>4 DEF EndRetry
    <2>2. row' \in [Action -> Row]
      BY <1>4, <2>1, SetStatusType DEF EndRetry, Status
    <2>3. grants' \in [Action -> Nat] BY <1>4, <2>1 DEF EndRetry, Granted
    <2>4. op' \in [Operator -> Op] BY <1>4 DEF EndRetry, IdleOp, Op
    <2>5. \A c \in Action : row'[c].status = "sending" => row[c].status = "sending"
      <3>1. CASE SetStatus(a, "pending") BY <2>1, <3>1, SetStatusEffect
      <3>2. CASE UNCHANGED row BY <3>2
      <3> QED BY <1>4, <3>1, <3>2 DEF EndRetry
    <2>6. Shape' BY <1>4, <2>5 DEF EndRetry, IdleOp
    <2> QED BY <1>4, <2>2, <2>3, <2>4, <2>6 DEF EndRetry
  <1>5. CASE EndCancel(o)
    <2> DEFINE a == op[o].act
    <2>1. a \in Action BY <1>5 DEF EndCancel
    <2>2. row' \in [Action -> Row]
      BY <1>5, <2>1, SetStatusType DEF EndCancel, Status
    <2>3. op' \in [Operator -> Op] BY <1>5 DEF EndCancel, IdleOp, Op
    <2>4. \A c \in Action : row'[c].status = "sending" => row[c].status = "sending"
      BY <1>5, <2>1 DEF EndCancel, SetStatus
    <2>5. Shape' BY <1>5, <2>4 DEF EndCancel, IdleOp
    <2> QED BY <1>5, <2>2, <2>3, <2>5 DEF EndCancel
  <1>6. CASE EndMarkSent(o)
    <2> DEFINE a == op[o].act
               n == IF tries[a] = 0 THEN 1 ELSE tries[a]
    <2>1. a \in Action BY <1>6 DEF EndMarkSent
    <2>2. n \in AttemptNo /\ n \in 0..MaxAttempt
      BY <2>1, DispatchAssumption DEF AttemptNo
    <2>3. row' \in [Action -> Row]
      BY <1>6, <2>1, SetStatusType DEF EndMarkSent, Status
    <2>4. attempt' \in [Action -> [AttemptNo -> Attempt]]
      BY <1>6, <2>1, <2>2, SetAttemptType DEF EndMarkSent, AttemptStatus
    <2>5. tries' = [tries EXCEPT ![a] = n] BY <1>6 DEF EndMarkSent
    <2> HIDE DEF n
    <2>6. tries' \in [Action -> 0..MaxAttempt] BY <2>2, <2>5
    <2>7. op' \in [Operator -> Op] BY <1>6 DEF EndMarkSent, IdleOp, Op
    <2>8. \A c \in Action : row'[c].status = "sending" => row[c].status = "sending"
      BY <1>6, <2>1 DEF EndMarkSent, SetStatus
    <2>9. Shape' BY <1>6, <2>2, <2>5, <2>8 DEF EndMarkSent, IdleOp
    <2> QED BY <1>6, <2>3, <2>4, <2>6, <2>7, <2>9 DEF EndMarkSent
  <1> QED BY <1>1, <1>2, <1>3, <1>4, <1>5, <1>6 DEF OperatorStep

LEMMA T_Environment ==
  ASSUME TypeInv,
         \/ \E deleted \in BOOLEAN : Upsert(deleted)
         \/ Invalidate \/ IngestionCrash \/ TakeOver \/ CloseByOperator \/ RejectAndEnd
  PROVE  TypeInv'
  <1>1. ASSUME NEW deleted \in BOOLEAN, Upsert(deleted) PROVE TypeInv'
    <2>1. source' \in [revision : 1..MaxRevision, is_deleted : BOOLEAN]
      BY <1>1, DispatchAssumption DEF Upsert
    <2> QED BY <1>1, <2>1 DEF Upsert
  <1>2. CASE Invalidate
    <2>1. \A a \in Action : Fenced(row[a].status) \in Status
                           /\ Fenced(row[a].status) \in {row[a].status, "cancelled",
                                                          "failed_needs_review"}
      BY DEF Fenced, Status, Row
    <2>2. \A a \in Action : [row[a] EXCEPT !.status = Fenced(row[a].status)] \in Row
      BY <2>1, RowStatus
    <2>3. row' \in [Action -> Row] BY <1>2, <2>2 DEF Invalidate
    <2>4. \A c \in Action : row'[c].status = "sending" => row[c].status = "sending"
      BY <1>2, <2>1 DEF Invalidate, Row
    <2>5. Shape' BY <1>2, <2>4 DEF Invalidate
    <2> QED BY <1>2, <2>3, <2>5 DEF Invalidate
  <1>3. CASE IngestionCrash
    <2>1. faults' \in 0..MaxFault BY <1>3, DispatchAssumption DEF IngestionCrash
    <2> QED BY <1>3, <2>1 DEF IngestionCrash
  <1>4. ASSUME NEW S, CancelRows(S) PROVE TypeInv'
    <2>1. \A a \in Action : [row[a] EXCEPT !.status = "cancelled"] \in Row
      BY RowStatus DEF Status
    <2>2. row' \in [Action -> Row] BY <1>4, <2>1 DEF CancelRows
    <2>3. \A c \in Action : row'[c].status = "sending" => row[c].status = "sending"
      BY <1>4 DEF CancelRows, Row
    <2>4. Shape' BY <1>4, <2>3 DEF CancelRows
    <2> QED BY <1>4, <2>2, <2>4 DEF CancelRows
  <1> QED BY <1>1, <1>2, <1>3, <1>4 DEF TakeOver, CloseByOperator, RejectAndEnd

LEMMA TypeStep == TypeInv /\ [Next]_vars => TypeInv'
  <1> SUFFICES ASSUME TypeInv, [Next]_vars PROVE TypeInv' OBVIOUS
  <1>1. CASE UNCHANGED vars BY <1>1 DEF vars
  <1>2. ASSUME NEW d \in Dispatcher, DispatcherStep(d) PROVE TypeInv'
    BY <1>2, T_Begin, T_Recover, T_End, T_Notice, T_NoticeFails, T_Claim, T_DryRun,
       T_Guard, T_Send, T_Record, T_Readback, T_FinishRead, T_FinishWrite
    DEF DispatcherStep
  <1> QED BY <1>1, <1>2, T_Create, T_Crash, T_Age, T_Operator, T_Environment DEF Next

\* Every reachable state is well-typed, and a dispatcher at work holds a row and
\* an attempt that exist.
THEOREM TypeCorrect == Spec => []TypeOK
  <1>1. TypeInv => TypeOK OBVIOUS
  <1> QED BY <1>1, InitType, TypeStep, PTL DEF Spec

-----------------------------------------------------------------------------
(***************************************************************************)
(* Layer 2: sends are authorised.  SendsAreAuthorised is not inductive:    *)
(* that an attempt is called once needs that the dispatcher about to call  *)
(* it has not called it yet and that no other dispatcher holds it.         *)
(***************************************************************************)
BeforeSend == {"claimed", "guard", "send"}

RealInv ==
  /\ \A a \in Action : IF row[a].kind = "none" THEN row[a].status = "none"
                       ELSE grants[a] >= 1
  /\ \A o \in Operator : op[o].cmd # "none" => row[op[o].act].kind # "none"

HoldInv ==
  /\ \A d \in Dispatcher : disp[d].pc \in Working
       => /\ disp[d].try <= tries[disp[d].act]
          /\ disp[d].pc \in BeforeSend
             => attempt[disp[d].act][disp[d].try].calls = 0
  /\ \A d, e \in Dispatcher :
       d # e /\ disp[d].pc \in Working /\ disp[e].pc \in Working
       => disp[d].act # disp[e].act \/ disp[d].try # disp[e].try

AuthInv == TypeInv /\ RealInv /\ HoldInv /\ SendsAreAuthorised

\* A step that opens no attempt and calls no provider; a row that becomes
\* pending, or comes to exist, is granted by the step.
Quiet ==
  /\ tries' = tries
  /\ \A a \in Action : \A n \in AttemptNo : attempt'[a][n].calls = attempt[a][n].calls
  /\ \A a \in Action :
       /\ grants'[a] >= grants[a]
       /\ row'[a].status = "pending"
          => row[a].status = "pending" \/ grants'[a] = grants[a] + 1
       /\ row[a].kind # "none" => row'[a].kind # "none"
       /\ row'[a].kind # "none" => row[a].kind # "none" \/ grants'[a] = grants[a] + 1
       /\ row'[a].kind = "none" => row'[a].status = row[a].status
  /\ \A o \in Operator : op'[o].cmd # "none"
       => \/ op'[o] = op[o]
          \/ op'[o].act \in Action /\ row[op'[o].act].kind # "none"
  /\ \A d \in Dispatcher : disp'[d].pc \in Working
       => /\ disp[d].pc \in Working
          /\ disp'[d].act = disp[d].act /\ disp'[d].try = disp[d].try
          /\ disp'[d].pc \in BeforeSend => disp[d].pc \in BeforeSend

LEMMA QuietKeeps ==
  ASSUME AuthInv, TypeInv', Quiet
  PROVE  AuthInv'
  <1> USE DEF AuthInv
  <1>1. RealInv'
    <2>1. \A a \in Action : IF row'[a].kind = "none" THEN row'[a].status = "none"
                           ELSE grants'[a] >= 1
      <3> SUFFICES ASSUME NEW a \in Action
                   PROVE  IF row'[a].kind = "none" THEN row'[a].status = "none"
                          ELSE grants'[a] >= 1
        OBVIOUS
      <3>1. grants[a] \in Nat /\ grants'[a] \in Nat OBVIOUS
      <3>2. CASE row'[a].kind = "none" BY <3>2 DEF Quiet, RealInv
      <3>3. CASE row'[a].kind # "none" /\ row[a].kind # "none"
        BY <3>1, <3>3 DEF Quiet, RealInv
      <3>4. CASE row'[a].kind # "none" /\ row[a].kind = "none"
        BY <3>1, <3>4 DEF Quiet
      <3> QED BY <3>2, <3>3, <3>4
    <2>2. \A o \in Operator : op'[o].cmd # "none" => row'[op'[o].act].kind # "none"
      <3> SUFFICES ASSUME NEW o \in Operator, op'[o].cmd # "none"
                   PROVE  row'[op'[o].act].kind # "none"
        OBVIOUS
      <3>1. op'[o].act \in Action /\ row[op'[o].act].kind # "none"
        <4>1. CASE op'[o] = op[o]
          <5>1. op[o].cmd # "none" BY <4>1
          <5>2. op[o].act \in Action /\ row[op[o].act].kind # "none"
            BY <5>1 DEF RealInv
          <5> QED BY <4>1, <5>2
        <4> QED BY <4>1 DEF Quiet
      <3> QED BY <3>1 DEF Quiet
    <2> QED BY <2>1, <2>2 DEF RealInv
  <1>2. HoldInv'
    <2>1. \A d \in Dispatcher : disp'[d].pc \in Working
            => /\ disp'[d].try <= tries'[disp'[d].act]
               /\ disp'[d].pc \in BeforeSend
                  => attempt'[disp'[d].act][disp'[d].try].calls = 0
      <3> SUFFICES ASSUME NEW d \in Dispatcher, disp'[d].pc \in Working
                   PROVE  /\ disp'[d].try <= tries'[disp'[d].act]
                          /\ disp'[d].pc \in BeforeSend
                             => attempt'[disp'[d].act][disp'[d].try].calls = 0
        OBVIOUS
      <3>1. /\ disp[d].pc \in Working
            /\ disp'[d].act = disp[d].act /\ disp'[d].try = disp[d].try
            /\ disp'[d].pc \in BeforeSend => disp[d].pc \in BeforeSend
        BY DEF Quiet
      <3>2. disp[d].act \in Action /\ disp[d].try \in AttemptNo BY <3>1
      <3>3. attempt'[disp[d].act][disp[d].try].calls = attempt[disp[d].act][disp[d].try].calls
        BY <3>2 DEF Quiet
      <3> QED BY <3>1, <3>2, <3>3 DEF Quiet, HoldInv
    <2>2. \A d, e \in Dispatcher :
            d # e /\ disp'[d].pc \in Working /\ disp'[e].pc \in Working
            => disp'[d].act # disp'[e].act \/ disp'[d].try # disp'[e].try
      BY DEF Quiet, HoldInv
    <2> QED BY <2>1, <2>2 DEF HoldInv
  <1>3. SendsAreAuthorised' BY DEF SendsAreAuthorised, Quiet
  <1> QED BY <1>1, <1>2, <1>3

LEMMA InitAuth == Init => AuthInv
  <1> SUFFICES ASSUME Init PROVE AuthInv OBVIOUS
  <1>1. RealInv BY DEF Init, RealInv, EmptyRow, IdleOp
  <1>2. HoldInv BY DEF Init, HoldInv, IdleDisp, Working
  <1>3. SendsAreAuthorised
    BY DEF Init, SendsAreAuthorised, EmptyRow, NoAttempt, AttemptNo
  <1> QED BY <1>1, <1>2, <1>3, InitType DEF AuthInv

\* What the shared parts of the actions do to the fields the layer reads.
LEMMA SetAttemptCalls ==
  ASSUME attempt \in [Action -> [AttemptNo -> Attempt]],
         NEW b \in Action, NEW m \in AttemptNo, NEW s, NEW f, NEW g,
         SetAttempt(b, m, s, f, g)
  PROVE  \A a \in Action : \A n \in AttemptNo :
           /\ attempt'[a][n].calls = attempt[a][n].calls
           /\ attempt'[a][n].stale = attempt[a][n].stale
  BY DEF SetAttempt, Attempt

LEMMA RecoverAttempts ==
  ASSUME TypeInv, NEW d \in Dispatcher, RecoverStale(d)
  PROVE  \A a \in Action : \A n \in AttemptNo :
           /\ attempt'[a][n].calls = attempt[a][n].calls
           /\ attempt'[a][n].stale = attempt[a][n].stale
           /\ attempt'[a][n].sent_message_id = attempt[a][n].sent_message_id
           /\ attempt'[a][n].status \in {attempt[a][n].status, "uncertain"}
  <1> SUFFICES ASSUME NEW a \in Action, NEW n \in AttemptNo
               PROVE  /\ attempt'[a][n].calls = attempt[a][n].calls
                      /\ attempt'[a][n].stale = attempt[a][n].stale
                      /\ attempt'[a][n].sent_message_id = attempt[a][n].sent_message_id
                      /\ attempt'[a][n].status \in {attempt[a][n].status, "uncertain"}
    OBVIOUS
  <1>1. attempt[a][n] \in Attempt OBVIOUS
  <1>2. PICK st \in {attempt[a][n].status, "uncertain"} :
          attempt'[a][n] \in {attempt[a][n], [attempt[a][n] EXCEPT !.finished = TRUE,
                                                                   !.status = st]}
    BY DEF RecoverStale
  <1> QED BY <1>1, <1>2 DEF Attempt

\* A dispatcher that stays at work on its attempt, or stops working.
Keeps(d) ==
  /\ disp'[d].pc \in Working => /\ disp[d].pc \in Working
                                /\ disp'[d].act = disp[d].act
                                /\ disp'[d].try = disp[d].try
                                /\ disp'[d].pc \in BeforeSend => disp[d].pc \in BeforeSend
  /\ \A e \in Dispatcher \ {d} : disp'[e] = disp[e]

LEMMA KeepsAttempt ==
  ASSUME TypeInv, NEW d \in Dispatcher,
         \/ BeginDispatch(d) \/ RecoverStale(d) \/ EndDispatch(d)
         \/ \E k \in disp[d].todo : QueueNotice(d, k) \/ QueueNoticeFails(d, k)
         \/ DryRun(d) \/ Guard(d) \/ Record(d) \/ Readback(d)
         \/ FinishRead(d) \/ FinishWrite(d) \/ Crash(d)
  PROVE  Keeps(d)
  <1> USE DEF Keeps, Working, BeforeSend, Disp
  <1>1. CASE BeginDispatch(d) BY <1>1 DEF BeginDispatch
  <1>2. CASE RecoverStale(d) BY <1>2 DEF RecoverStale
  <1>3. CASE EndDispatch(d) BY <1>3 DEF EndDispatch, Goto
  <1>4. CASE \E k \in disp[d].todo : QueueNotice(d, k) BY <1>4 DEF QueueNotice
  <1>5. CASE \E k \in disp[d].todo : QueueNoticeFails(d, k)
    BY <1>5 DEF QueueNoticeFails
  <1>6. CASE DryRun(d)
    <2>1. disp[d].pc = "claimed" BY <1>6 DEF DryRun
    <2>2. (\E out \in Outcome : Conclude(d, out)) \/ Goto(d, "guard")
      BY <1>6 DEF DryRun, Outcome
    <2> QED BY <2>1, <2>2 DEF Goto, Conclude
  <1>7. CASE Guard(d)
    <2>1. disp[d].pc = "guard" BY <1>7 DEF Guard
    <2>2. Conclude(d, "cancelled") \/ Goto(d, "send") BY <1>7 DEF Guard
    <2> QED BY <2>1, <2>2 DEF Goto, Conclude
  <1>8. CASE Record(d)
    <2>1. disp[d].pc = "report" BY <1>8 DEF Record
    <2>2. PICK p \in {"readback", "finish"}, out \in Outcome :
            disp' = [disp EXCEPT ![d].pc = p, ![d].outcome = out, ![d].report = "none"]
      BY <1>8 DEF Record, Outcome
    <2> QED BY <2>1, <2>2
  <1>9. CASE Readback(d) BY <1>9 DEF Readback, Conclude
  <1>10. CASE FinishRead(d) BY <1>10 DEF FinishRead, IdleDisp
  <1>11. CASE FinishWrite(d) BY <1>11 DEF FinishWrite, IdleDisp
  <1>12. CASE Crash(d) BY <1>12 DEF Crash, IdleDisp
  <1> QED BY <1>1, <1>2, <1>3, <1>4, <1>5, <1>6, <1>7, <1>8, <1>9, <1>10, <1>11, <1>12

\* A row update that grants nothing: no row becomes pending or comes to exist.
SameRows ==
  \A a \in Action : /\ row'[a].kind = row[a].kind
                    /\ row'[a].status = "pending" => row[a].status = "pending"
                    /\ row[a].kind = "none" => row'[a].status = row[a].status

LEMMA InsertEffect ==
  ASSUME TypeInv, NEW a \in Action, NEW new, Insert(a, new)
  PROVE  /\ row[a].kind = "none" /\ row'[a] = new
         /\ \A c \in Action \ {a} : row'[c] = row[c]
         /\ grants'[a] = grants[a] + 1
         /\ \A c \in Action \ {a} : grants'[c] = grants[c]
  BY DEF Insert, Granted

\* The conjuncts of Quiet about rows and grants.
QuietRows ==
  \A a \in Action :
    /\ grants'[a] >= grants[a]
    /\ row'[a].status = "pending"
       => row[a].status = "pending" \/ grants'[a] = grants[a] + 1
    /\ row[a].kind # "none" => row'[a].kind # "none"
    /\ row'[a].kind # "none" => row[a].kind # "none" \/ grants'[a] = grants[a] + 1
    /\ row'[a].kind = "none" => row'[a].status = row[a].status

LEMMA SameQuiet ==
  ASSUME TypeInv, SameRows, UNCHANGED grants
  PROVE  QuietRows
  BY DEF SameRows, QuietRows

LEMMA ReviveQuiet ==
  ASSUME TypeInv, NEW b \in Action, NEW r, row[b].status # "none", RealInv, Revive(b, r)
  PROVE  QuietRows
  <1>1. row[b].kind # "none" BY DEF RealInv
  <1>2. /\ row'[b].status = "pending" /\ row'[b].kind = row[b].kind
        /\ grants'[b] = grants[b] + 1
        /\ \A c \in Action \ {b} : row'[c] = row[c] /\ grants'[c] = grants[c]
    BY ReviveEffect
  <1>3. \A c \in Action : grants[c] \in Nat OBVIOUS
  <1> QED BY <1>1, <1>2, <1>3 DEF QuietRows

LEMMA InsertQuiet ==
  ASSUME TypeInv, NEW b \in Action, NEW new, new.kind # "none", Insert(b, new)
  PROVE  QuietRows
  <1>1. /\ row[b].kind = "none" /\ row'[b] = new
        /\ grants'[b] = grants[b] + 1
        /\ \A c \in Action \ {b} : row'[c] = row[c] /\ grants'[c] = grants[c]
    BY InsertEffect
  <1>2. \A c \in Action : grants[c] \in Nat OBVIOUS
  <1> QED BY <1>1, <1>2 DEF QuietRows

\* Steps of a dispatcher other than Claim and Send.
LEMMA DispatcherQuiet ==
  ASSUME AuthInv, NEW d \in Dispatcher,
         \/ BeginDispatch(d) \/ RecoverStale(d) \/ EndDispatch(d)
         \/ \E k \in disp[d].todo : QueueNotice(d, k) \/ QueueNoticeFails(d, k)
         \/ DryRun(d) \/ Guard(d) \/ Record(d) \/ Readback(d)
         \/ FinishRead(d) \/ FinishWrite(d) \/ Crash(d)
  PROVE  Quiet
  <1> USE DEF AuthInv
  <1>1. Keeps(d) BY KeepsAttempt
  <1>2. UNCHANGED <<tries, op>>
    BY DEF BeginDispatch, RecoverStale, EndDispatch, QueueNotice, QueueNoticeFails,
           DryRun, Guard, Record, Readback, FinishRead, FinishWrite, Crash
  <1>3. \A a \in Action : \A n \in AttemptNo : attempt'[a][n].calls = attempt[a][n].calls
    <2>1. CASE UNCHANGED attempt BY <2>1
    <2>2. CASE RecoverStale(d) BY <2>2, RecoverAttempts
    <2>3. CASE /\ disp[d].pc \in Working
               /\ \E s \in AttemptStatus, f \in BOOLEAN, g \in BOOLEAN :
                    SetAttempt(disp[d].act, disp[d].try, s, f, g)
      BY <2>3, SetAttemptCalls
    <2>4. CASE DryRun(d) BY <2>3, <2>4 DEF DryRun, Working, AttemptStatus
    <2>5. CASE Guard(d) BY <2>1, <2>3, <2>5 DEF Guard, Working, AttemptStatus
    <2>6. CASE Record(d) BY <2>3, <2>6 DEF Record, Working, AttemptStatus
    <2>7. CASE Readback(d) BY <2>3, <2>7 DEF Readback, Working, AttemptStatus
    <2> QED BY <2>1, <2>2, <2>4, <2>5, <2>6, <2>7
        DEF BeginDispatch, EndDispatch, QueueNotice, QueueNoticeFails, FinishRead,
            FinishWrite, Crash
  <1>4. QuietRows
    <2>1. CASE UNCHANGED <<row, grants>> BY <2>1, SameQuiet DEF SameRows
    <2>2. CASE RecoverStale(d)
      <3>1. SameRows BY <2>2 DEF RecoverStale, Recovered, SameRows, Row, RealInv
      <3> QED BY <2>2, <3>1, SameQuiet DEF RecoverStale
    <2>3. ASSUME NEW k \in disp[d].todo, QueueNotice(d, k)
          PROVE  QuietRows
      <3>1. ASSUME NEW b \in Action, row[b].status = "failed", Revive(b, row[k[2]].rev)
            PROVE  QuietRows
        BY <3>1, ReviveQuiet
      <3>2. ASSUME NEW b \in Action,
                   Insert(b, [kind |-> "owner_notification", status |-> "pending",
                        mode |-> row[k[2]].mode, rev |-> row[k[2]].rev,
                        text |-> NoText, key |-> k])
            PROVE  QuietRows
        BY <3>2, InsertQuiet
      <3> QED BY <2>1, <2>3, <3>1, <3>2 DEF QueueNotice
    <2>4. CASE FinishWrite(d)
      <3> DEFINE a == disp[d].act
      <3>1. a \in Action BY <2>4 DEF FinishWrite, Working
      <3>2. disp[d].outcome # "pending" BY DEF Disp, Outcome
      <3>3. CASE SetStatus(a, disp[d].outcome) /\ row[a].status # "none"
        <4>1. /\ row'[a].status = disp[d].outcome /\ row'[a].kind = row[a].kind
              /\ \A c \in Action \ {a} : row'[c] = row[c]
          BY <3>1, <3>3, SetStatusEffect
        <4>2. row[a].kind # "none" BY <3>1, <3>3 DEF RealInv
        <4>3. SameRows BY <3>2, <4>1, <4>2 DEF SameRows
        <4> QED BY <2>4, <4>3, SameQuiet DEF FinishWrite
      <3> QED BY <2>1, <2>4, <3>3 DEF FinishWrite, Reconciles
    <2> QED BY <2>1, <2>2, <2>3, <2>4
        DEF BeginDispatch, EndDispatch, QueueNoticeFails, DryRun, Guard, Record,
            Readback, FinishRead, Crash
  <1> QED BY <1>1, <1>2, <1>3, <1>4 DEF Quiet, QuietRows, Keeps

LEMMA CreateQuiet ==
  ASSUME AuthInv, NEW t \in Text, NEW m \in Mode, NEW r \in 1..MaxRevision,
         CreateReply(t, m, r)
  PROVE  Quiet
  <1> USE DEF AuthInv
  <1>1. QuietRows
    <2>1. ASSUME NEW a \in Action, IsReply(a), Revive(a, r) PROVE QuietRows
      <3>1. row[a].kind # "none" BY <2>1 DEF IsReply
      <3>2. /\ row'[a].status = "pending" /\ row'[a].kind = row[a].kind
            /\ grants'[a] = grants[a] + 1
            /\ \A c \in Action \ {a} : row'[c] = row[c] /\ grants'[c] = grants[c]
        BY <2>1, ReviveEffect
      <3>3. \A c \in Action : grants[c] \in Nat OBVIOUS
      <3> QED BY <3>1, <3>2, <3>3 DEF QuietRows
    <2>2. ASSUME NEW a \in Action,
                 Insert(a, [kind |-> "send_reply", status |-> "pending", mode |-> m,
                            rev |-> r, text |-> t, key |-> <<"reply", t, r, m>>])
          PROVE  QuietRows
      BY <2>2, InsertQuiet
    <2> QED BY <2>1, <2>2 DEF CreateReply
  <1> QED BY <1>1 DEF CreateReply, Quiet, QuietRows

LEMMA AgeQuiet ==
  ASSUME AuthInv, NEW a \in Action, Age(a)
  PROVE  Quiet
  BY DEF AuthInv, Age, Quiet

OpKept(p) == op'[p] = op[p] \/ (op'[p].act \in Action /\ row[op'[p].act].kind # "none")

\* Operator commands other than the one that marks a row sent.
LEMMA OperatorQuiet ==
  ASSUME AuthInv, NEW o \in Operator,
         \/ \E a \in Action : BeginRetry(o, a) \/ BeginCancel(o, a) \/ BeginMarkSent(o, a)
         \/ EndRetry(o) \/ EndCancel(o)
  PROVE  Quiet
  <1> USE DEF AuthInv
  <1>1. UNCHANGED <<tries, attempt, disp>>
    BY DEF BeginRetry, BeginCancel, BeginMarkSent, EndRetry, EndCancel
  <1>2. \A p \in Operator : op'[p].cmd # "none"
          => OpKept(p)
    <2>1. ASSUME NEW a \in Action, NEW c, row[a].status # "none",
                 op' = [op EXCEPT ![o] = [cmd |-> c, act |-> a]]
          PROVE  \A p \in Operator : op'[p].cmd # "none"
                   => OpKept(p)
      BY <2>1 DEF RealInv, OpKept
    <2>2. CASE op' = [op EXCEPT ![o] = IdleOp]
      <3>1. op'[o] = IdleOp /\ \A p \in Operator \ {o} : op'[p] = op[p] BY <2>2
      <3>2. op'[o].cmd = "none" BY <3>1 DEF IdleOp
      <3>3. \A p \in Operator : op'[p].cmd # "none" => op'[p] = op[p]
        BY <3>1, <3>2
      <3> QED BY <3>3 DEF OpKept
    <2>3. ASSUME NEW a \in Action, BeginRetry(o, a)
          PROVE  row[a].status # "none" /\ op' = [op EXCEPT ![o] = [cmd |-> "retry", act |-> a]]
      BY <2>3 DEF BeginRetry
    <2>4. ASSUME NEW a \in Action, BeginCancel(o, a)
          PROVE  row[a].status # "none" /\ op' = [op EXCEPT ![o] = [cmd |-> "cancel", act |-> a]]
      BY <2>4 DEF BeginCancel
    <2>5. ASSUME NEW a \in Action, BeginMarkSent(o, a)
          PROVE  row[a].status # "none" /\ op' = [op EXCEPT ![o] = [cmd |-> "mark_sent", act |-> a]]
      BY <2>5 DEF BeginMarkSent
    <2> QED BY <2>1, <2>2, <2>3, <2>4, <2>5 DEF EndRetry, EndCancel
  <1>3. QuietRows
    <2> DEFINE a == op[o].act
    <2>1. CASE UNCHANGED <<row, grants>> BY <2>1, SameQuiet DEF SameRows
    <2>2. CASE EndRetry(o)
      <3>1. a \in Action /\ row[a].kind # "none" BY <2>2 DEF EndRetry, RealInv
      <3>2. CASE SetStatus(a, "pending") /\ Granted(a)
        <4>1. /\ row'[a].status = "pending" /\ row'[a].kind = row[a].kind
              /\ \A c \in Action \ {a} : row'[c] = row[c]
          BY <3>1, <3>2, SetStatusEffect
        <4>2. /\ grants'[a] = grants[a] + 1
              /\ \A c \in Action \ {a} : grants'[c] = grants[c]
          BY <3>1, <3>2 DEF Granted
        <4>3. \A c \in Action : grants[c] \in Nat OBVIOUS
        <4> QED BY <3>1, <4>1, <4>2, <4>3 DEF QuietRows
      <3> QED BY <2>1, <2>2, <3>2 DEF EndRetry
    <2>3. CASE EndCancel(o)
      <3>1. a \in Action /\ row[a].kind # "none" BY <2>3 DEF EndCancel, RealInv
      <3>2. /\ row'[a].status = "cancelled" /\ row'[a].kind = row[a].kind
            /\ \A c \in Action \ {a} : row'[c] = row[c]
        BY <2>3, <3>1, SetStatusEffect DEF EndCancel
      <3>3. SameRows BY <3>1, <3>2 DEF SameRows
      <3> QED BY <2>3, <3>3, SameQuiet DEF EndCancel
    <2> QED BY <2>1, <2>2, <2>3 DEF BeginRetry, BeginCancel, BeginMarkSent
  <1> QED BY <1>1, <1>2, <1>3 DEF Quiet, QuietRows, OpKept

LEMMA EnvironmentQuiet ==
  ASSUME AuthInv,
         \/ \E deleted \in BOOLEAN : Upsert(deleted)
         \/ Invalidate \/ IngestionCrash \/ TakeOver \/ CloseByOperator \/ RejectAndEnd
  PROVE  Quiet
  <1> USE DEF AuthInv
  <1>1. UNCHANGED <<tries, attempt, disp, op, grants>>
    BY DEF Upsert, Invalidate, IngestionCrash, TakeOver, CloseByOperator, RejectAndEnd,
           CancelRows
  <1>2. QuietRows
    <2>1. CASE UNCHANGED row BY <1>1, <2>1, SameQuiet DEF SameRows
    <2>2. CASE Invalidate
      <3>1. SameRows BY <2>2 DEF Invalidate, Fenced, SameRows, Row
      <3> QED BY <1>1, <3>1, SameQuiet
    <2>3. ASSUME NEW S, CancelRows(S), \A a \in S \cap Action : row[a].kind # "none"
          PROVE  QuietRows
      <3>1. SameRows BY <2>3 DEF CancelRows, SameRows, Row
      <3> QED BY <1>1, <3>1, SameQuiet
    <2>4. \A a \in Replies({"pending", "sending"}) : row[a].kind # "none"
      BY DEF Replies, IsReply
    <2>5. \A a \in Replies({"pending"}) : row[a].kind # "none" BY DEF Replies, IsReply
    <2>6. CASE TakeOver BY <2>3, <2>4, <2>6 DEF TakeOver
    <2>7. CASE CloseByOperator BY <2>3, <2>4, <2>7 DEF CloseByOperator
    <2>8. CASE RejectAndEnd BY <2>3, <2>5, <2>8 DEF RejectAndEnd
    <2> QED BY <2>1, <2>2, <2>6, <2>7, <2>8 DEF Upsert, IngestionCrash
  <1> QED BY <1>1, <1>2 DEF Quiet, QuietRows

LEMMA ClaimAuth ==
  ASSUME AuthInv, NEW d \in Dispatcher, NEW a \in Action, Claim(d, a)
  PROVE  AuthInv'
  <1> DEFINE n == tries[a] + 1
  <1> USE DEF AuthInv
  <1>1. TypeInv' BY T_Claim
  <1>2. n \in AttemptNo BY DispatchAssumption DEF Claim, AttemptNo
  <1>3. /\ row'[a].status = "sending" /\ row'[a].kind = row[a].kind
        /\ \A c \in Action \ {a} : row'[c] = row[c]
    BY SetStatusEffect DEF Claim
  <1>4. tries'[a] = n /\ \A c \in Action \ {a} : tries'[c] = tries[c] BY DEF Claim
  <1>5. \A c \in Action : \A m \in AttemptNo : attempt'[c][m].calls = attempt[c][m].calls
    BY DEF Claim, Attempt
  <1>6. UNCHANGED <<grants, op>> BY DEF Claim
  <1>7. /\ disp'[d].act = a /\ disp'[d].try = n
        /\ \A e \in Dispatcher \ {d} : disp'[e] = disp[e]
    BY DEF Claim, IdleDisp
  <1>8. row[a].status = "pending" BY DEF Claim, Claimable
  <1>9. \A c \in Action : tries[c] \in Nat /\ grants[c] \in Nat
    BY DispatchAssumption
  <1> HIDE DEF n
  <1>10. RealInv' BY <1>3, <1>6, <1>8 DEF RealInv
  <1>11. HoldInv'
    <2>1. attempt[a][n].calls = 0
      BY <1>2, <1>9 DEF SendsAreAuthorised, n, Attempt
    <2>2. ASSUME NEW e \in Dispatcher, e # d, disp[e].pc \in Working
          PROVE  /\ disp[e].try <= tries'[disp[e].act]
                 /\ disp[e].act # a \/ disp[e].try # n
      <3>1. disp[e].act \in Action /\ disp[e].try \in AttemptNo
            /\ disp[e].try <= tries[disp[e].act]
        BY <2>2 DEF HoldInv
      <3> QED BY <1>4, <1>9, <3>1, DispatchAssumption DEF n, AttemptNo
    <2>3. \A e \in Dispatcher : disp'[e].pc \in Working
            => /\ disp'[e].try <= tries'[disp'[e].act]
               /\ disp'[e].pc \in BeforeSend
                  => attempt'[disp'[e].act][disp'[e].try].calls = 0
      <3> SUFFICES ASSUME NEW e \in Dispatcher, disp'[e].pc \in Working
                   PROVE  /\ disp'[e].try <= tries'[disp'[e].act]
                          /\ disp'[e].pc \in BeforeSend
                             => attempt'[disp'[e].act][disp'[e].try].calls = 0
        OBVIOUS
      <3>1. CASE e = d
        <4>1. n <= n BY <1>2 DEF AttemptNo
        <4> QED BY <1>2, <1>4, <1>5, <1>7, <2>1, <3>1, <4>1
      <3>2. CASE e # d
        <4>1. disp'[e] = disp[e] BY <1>7, <3>2
        <4>2. disp[e].act \in Action /\ disp[e].try \in AttemptNo BY <4>1
        <4> QED BY <1>5, <2>2, <3>2, <4>1, <4>2 DEF HoldInv
      <3> QED BY <3>1, <3>2
    <2>4. \A e, g \in Dispatcher :
            e # g /\ disp'[e].pc \in Working /\ disp'[g].pc \in Working
            => disp'[e].act # disp'[g].act \/ disp'[e].try # disp'[g].try
      BY <1>7, <2>2 DEF HoldInv
    <2> QED BY <2>3, <2>4 DEF HoldInv
  <1>12. SendsAreAuthorised'
    <2>1. \A c \in Action : tries'[c] + (IF row'[c].status = "pending" THEN 1 ELSE 0) <= grants'[c]
      BY <1>3, <1>4, <1>6, <1>8, <1>9 DEF SendsAreAuthorised, n
    <2>2. \A c \in Action : \A m \in AttemptNo :
            attempt'[c][m].calls <= (IF m <= tries'[c] THEN 1 ELSE 0)
      <3> SUFFICES ASSUME NEW c \in Action, NEW m \in AttemptNo
                   PROVE attempt'[c][m].calls <= (IF m <= tries'[c] THEN 1 ELSE 0)
        OBVIOUS
      <3>1. attempt[c][m].calls <= (IF m <= tries[c] THEN 1 ELSE 0)
        BY DEF SendsAreAuthorised
      <3>2. tries[c] <= tries'[c] /\ tries'[c] \in Nat
        BY <1>4, <1>9 DEF n
      <3>3. attempt[c][m].calls \in Nat
        <4>1. attempt[c][m] \in Attempt OBVIOUS
        <4> QED BY <4>1 DEF Attempt
      <3> QED BY <1>5, <1>9, <3>1, <3>2, <3>3 DEF AttemptNo
    <2> QED BY <2>1, <2>2 DEF SendsAreAuthorised
  <1> QED BY <1>1, <1>10, <1>11, <1>12

LEMMA SendAuth ==
  ASSUME AuthInv, NEW d \in Dispatcher, Send(d)
  PROVE  AuthInv'
  <1> DEFINE a == disp[d].act
             n == disp[d].try
  <1> USE DEF AuthInv
  <1>1. TypeInv' BY T_Send
  <1>2. /\ a \in Action /\ n \in AttemptNo /\ n <= tries[a]
        /\ attempt[a][n].calls = 0
    BY DEF Send, Working, BeforeSend, HoldInv
  <1>3. UNCHANGED <<row, tries, op, grants>> BY DEF Send
  <1>4. /\ attempt'[a][n].calls = 1
        /\ \A c \in Action, m \in AttemptNo :
             c # a \/ m # n => attempt'[c][m] = attempt[c][m]
    BY <1>2 DEF Send, Attempt
  <1>5. /\ disp'[d].pc = "report" /\ disp'[d].act = a /\ disp'[d].try = n
        /\ \A e \in Dispatcher \ {d} : disp'[e] = disp[e]
    BY DEF Send, Disp
  <1>6. disp[d].pc \in Working BY DEF Send, Working
  <1> HIDE DEF a, n
  <1>7. RealInv' BY <1>3 DEF RealInv
  <1>8. HoldInv'
    <2>1. ASSUME NEW e \in Dispatcher, e # d, disp[e].pc \in Working
          PROVE  attempt'[disp[e].act][disp[e].try] = attempt[disp[e].act][disp[e].try]
      BY <1>4, <1>6, <2>1 DEF HoldInv, a, n
    <2>2. \A e \in Dispatcher : disp'[e].pc \in Working
            => /\ disp'[e].try <= tries'[disp'[e].act]
               /\ disp'[e].pc \in BeforeSend
                  => attempt'[disp'[e].act][disp'[e].try].calls = 0
      BY <1>2, <1>3, <1>5, <2>1 DEF HoldInv, BeforeSend
    <2>3. \A e, g \in Dispatcher :
            e # g /\ disp'[e].pc \in Working /\ disp'[g].pc \in Working
            => disp'[e].act # disp'[g].act \/ disp'[e].try # disp'[g].try
      BY <1>5, <1>6 DEF HoldInv, a, n
    <2> QED BY <2>2, <2>3 DEF HoldInv
  <1>9. SendsAreAuthorised'
    <2>1. \A c \in Action : \A m \in AttemptNo :
            attempt'[c][m].calls <= (IF m <= tries'[c] THEN 1 ELSE 0)
      <3> SUFFICES ASSUME NEW c \in Action, NEW m \in AttemptNo
                   PROVE attempt'[c][m].calls <= (IF m <= tries'[c] THEN 1 ELSE 0)
        OBVIOUS
      <3>1. CASE c = a /\ m = n BY <1>2, <1>3, <1>4, <3>1
      <3>2. CASE c # a \/ m # n BY <1>3, <1>4, <3>2 DEF SendsAreAuthorised
      <3> QED BY <3>1, <3>2
    <2> QED BY <1>3, <2>1 DEF SendsAreAuthorised
  <1> QED BY <1>1, <1>7, <1>8, <1>9

LEMMA MarkSentAuth ==
  ASSUME AuthInv, NEW o \in Operator, EndMarkSent(o)
  PROVE  AuthInv'
  <1> DEFINE a == op[o].act
             n == IF tries[a] = 0 THEN 1 ELSE tries[a]
  <1> USE DEF AuthInv
  <1>1. TypeInv' BY T_Operator DEF OperatorStep
  <1>2. a \in Action /\ row[a].kind # "none" BY DEF EndMarkSent, RealInv
  <1>3. \A c \in Action : tries[c] \in Nat /\ grants[c] \in Nat
    BY DispatchAssumption
  <1>4. /\ n \in AttemptNo /\ n <= grants[a] /\ tries[a] <= n
    <2>1. tries[a] <= grants[a] /\ grants[a] >= 1
      <3>1. tries[a] + (IF row[a].status = "pending" THEN 1 ELSE 0) <= grants[a]
        BY <1>2 DEF SendsAreAuthorised
      <3>2. grants[a] >= 1 BY <1>2 DEF RealInv
      <3>3. tries[a] \in Nat /\ grants[a] \in Nat BY <1>2, <1>3
      <3> QED BY <3>1, <3>2, <3>3
    <2>2. n \in AttemptNo BY <1>2, DispatchAssumption DEF AttemptNo
    <2> QED BY <1>2, <1>3, <2>1, <2>2
  <1>5. tries' = [tries EXCEPT ![a] = n] BY DEF EndMarkSent
  <1> HIDE DEF n
  <1>6. \A c \in Action : tries[c] <= tries'[c] /\ tries'[c] \in Nat
    BY <1>2, <1>3, <1>4, <1>5 DEF AttemptNo
  <1>7. \A c \in Action : \A m \in AttemptNo : attempt'[c][m].calls = attempt[c][m].calls
    <2>1. SetAttempt(a, n, "readback_ok", TRUE, TRUE) BY DEF EndMarkSent, n
    <2> QED BY <1>2, <1>4, <2>1, SetAttemptCalls
  <1>8. /\ row'[a].status = "sent" /\ row'[a].kind = row[a].kind
        /\ \A c \in Action \ {a} : row'[c] = row[c]
    BY <1>2, SetStatusEffect DEF EndMarkSent
  <1>9. UNCHANGED <<disp, grants>> BY DEF EndMarkSent
  <1>10. op'[o] = IdleOp /\ \A p \in Operator \ {o} : op'[p] = op[p]
    BY DEF EndMarkSent
  <1>11. RealInv'
    <2>1. \A c \in Action : row'[c].kind = row[c].kind BY <1>8
    <2>2. \A p \in Operator : op'[p].cmd # "none" => row'[op'[p].act].kind # "none"
      BY <1>10, <2>1 DEF RealInv, IdleOp
    <2> QED BY <1>2, <1>8, <1>9, <2>1, <2>2 DEF RealInv
  <1>12. HoldInv'
    <2>1. ASSUME NEW e \in Dispatcher, disp[e].pc \in Working
          PROVE  /\ disp[e].act \in Action /\ disp[e].try \in AttemptNo
                 /\ disp[e].try <= tries'[disp[e].act]
      <3>1. /\ disp[e].act \in Action /\ disp[e].try \in AttemptNo
            /\ disp[e].try <= tries[disp[e].act]
        BY <2>1 DEF HoldInv
      <3> QED BY <1>3, <1>6, <3>1 DEF AttemptNo
    <2> QED BY <1>7, <1>9, <2>1 DEF HoldInv
  <1>13. SendsAreAuthorised'
    <2>1. \A c \in Action : tries'[c] + (IF row'[c].status = "pending" THEN 1 ELSE 0) <= grants'[c]
      BY <1>2, <1>3, <1>4, <1>5, <1>8, <1>9 DEF SendsAreAuthorised, AttemptNo
    <2>2. \A c \in Action : \A m \in AttemptNo :
            attempt'[c][m].calls <= (IF m <= tries'[c] THEN 1 ELSE 0)
      <3> SUFFICES ASSUME NEW c \in Action, NEW m \in AttemptNo
                   PROVE attempt'[c][m].calls <= (IF m <= tries'[c] THEN 1 ELSE 0)
        OBVIOUS
      <3>1. attempt[c][m].calls <= (IF m <= tries[c] THEN 1 ELSE 0)
        BY DEF SendsAreAuthorised
      <3>2. attempt[c][m].calls \in Nat
        <4>1. attempt[c][m] \in Attempt OBVIOUS
        <4> QED BY <4>1 DEF Attempt
      <3> QED BY <1>3, <1>6, <1>7, <3>1, <3>2 DEF AttemptNo
    <2> QED BY <2>1, <2>2 DEF SendsAreAuthorised
  <1> QED BY <1>1, <1>11, <1>12, <1>13

LEMMA AuthStep == AuthInv /\ [Next]_vars => AuthInv'
  <1> SUFFICES ASSUME AuthInv, [Next]_vars PROVE AuthInv' OBVIOUS
  <1>1. TypeInv' BY TypeStep DEF AuthInv
  <1>2. CASE UNCHANGED vars
    <2>1. RealInv' BY <1>2 DEF AuthInv, vars, RealInv
    <2>2. HoldInv' BY <1>2 DEF AuthInv, vars, HoldInv
    <2>3. SendsAreAuthorised' BY <1>2 DEF AuthInv, vars, SendsAreAuthorised
    <2> QED BY <1>1, <2>1, <2>2, <2>3 DEF AuthInv
  <1>3. ASSUME NEW d \in Dispatcher, DispatcherStep(d) \/ Crash(d) PROVE AuthInv'
    BY <1>1, <1>3, DispatcherQuiet, QuietKeeps, ClaimAuth, SendAuth DEF DispatcherStep
  <1>4. ASSUME NEW o \in Operator, OperatorStep(o) PROVE AuthInv'
    BY <1>1, <1>4, OperatorQuiet, QuietKeeps, MarkSentAuth DEF OperatorStep
  <1> QED BY <1>1, <1>2, <1>3, <1>4, CreateQuiet, AgeQuiet, EnvironmentQuiet, QuietKeeps
      DEF Next

\* No automatic resend, for any number of rows, attempts, dispatchers, operators
\* and crashes: every attempt has its own decision, and calls the provider once.
THEOREM Authorised == Spec => []SendsAreAuthorised
  <1>1. AuthInv => SendsAreAuthorised BY DEF AuthInv
  <1> QED BY <1>1, InitAuth, AuthStep, PTL DEF Spec

-----------------------------------------------------------------------------
(* Dispatch implements SendLedger: each step grants once, opens one attempt, *)
(* makes one call, or leaves the ledger alone.                               *)

calledOf == [a \in Action |-> [n \in AttemptNo |-> attempt[a][n].calls]]

LEMMA SameCalled ==
  ASSUME \A a \in Action : \A n \in AttemptNo : attempt'[a][n].calls = attempt[a][n].calls
  PROVE  calledOf' = calledOf
  BY DEF calledOf

\* At most one row is granted a send in a step, and only by a step that leaves
\* the attempts alone.
LEMMA OneGrant ==
  ASSUME AuthInv, Next
  PROVE  UNCHANGED grants \/ \E a \in Action : Granted(a)
  <1>1. CASE \E t \in Text, m \in Mode, r \in 1..MaxRevision : CreateReply(t, m, r)
    BY <1>1 DEF CreateReply, Revive, Insert
  <1>2. ASSUME NEW d \in Dispatcher, DispatcherStep(d) \/ Crash(d)
        PROVE  UNCHANGED grants \/ \E a \in Action : Granted(a)
    <2>1. ASSUME NEW k \in disp[d].todo, QueueNotice(d, k)
          PROVE  UNCHANGED grants \/ \E a \in Action : Granted(a)
      BY <2>1 DEF QueueNotice, Revive, Insert
    <2>2. CASE UNCHANGED grants BY <2>2
    <2> QED BY <1>2, <2>1, <2>2
        DEF DispatcherStep, BeginDispatch, RecoverStale, EndDispatch, QueueNoticeFails,
            Claim, DryRun, Guard, Send, Record, Readback, FinishRead, FinishWrite, Crash
  <1>3. ASSUME NEW o \in Operator, OperatorStep(o)
        PROVE  UNCHANGED grants \/ \E a \in Action : Granted(a)
    <2>1. CASE EndRetry(o)
      <3>1. op[o].act \in Action BY <2>1 DEF EndRetry, AuthInv
      <3> QED BY <2>1, <3>1 DEF EndRetry
    <2> QED BY <1>3, <2>1
        DEF OperatorStep, BeginRetry, BeginCancel, BeginMarkSent, EndCancel, EndMarkSent
  <1>4. CASE \E a \in Action : Age(a) BY <1>4 DEF Age
  <1>5. CASE \/ \E deleted \in BOOLEAN : Upsert(deleted)
             \/ Invalidate \/ IngestionCrash \/ TakeOver \/ CloseByOperator \/ RejectAndEnd
    BY <1>5 DEF Upsert, Invalidate, IngestionCrash, TakeOver, CloseByOperator,
                RejectAndEnd, CancelRows
  <1> QED BY <1>1, <1>2, <1>3, <1>4, <1>5 DEF Next

LEMMA LedgerQuiet ==
  ASSUME AuthInv, Next, Quiet
  PROVE  [Ledger!Next]_(Ledger!ledgerVars)
  <1>1. calledOf' = calledOf BY SameCalled DEF Quiet
  <1>2. tries' = tries BY DEF Quiet
  <1>3. CASE UNCHANGED grants BY <1>1, <1>2, <1>3 DEF Ledger!ledgerVars, calledOf
  <1>4. ASSUME NEW a \in Action, Granted(a) PROVE Ledger!Next
    <2>1. Ledger!Authorise(a)
      BY <1>1, <1>2, <1>4 DEF Ledger!Authorise, Granted, calledOf
    <2> QED BY <2>1 DEF Ledger!Next
  <1> QED BY <1>3, <1>4, OneGrant

LEMMA LedgerClaim ==
  ASSUME AuthInv, NEW d \in Dispatcher, NEW a \in Action, Claim(d, a)
  PROVE  Ledger!Next
  <1>1. calledOf' = calledOf
    <2>1. \A c \in Action : \A m \in AttemptNo :
            attempt'[c][m].calls = attempt[c][m].calls
      BY DEF Claim, Attempt, AuthInv
    <2> QED BY <2>1, SameCalled
  <1>2. tries[a] < grants[a]
    <2>1. tries[a] + 1 <= grants[a]
      BY DEF AuthInv, SendsAreAuthorised, Claim, Claimable
    <2>2. tries[a] \in Nat /\ grants[a] \in Nat BY DispatchAssumption DEF AuthInv
    <2> QED BY <2>1, <2>2
  <1>3. Ledger!Begin(a) BY <1>1, <1>2 DEF Ledger!Begin, Claim, calledOf
  <1> QED BY <1>3 DEF Ledger!Next

LEMMA LedgerSend ==
  ASSUME AuthInv, NEW d \in Dispatcher, Send(d)
  PROVE  Ledger!Next
  <1>0. PICK a \in Action, n \in AttemptNo : a = disp[d].act /\ n = disp[d].try
    BY DEF Send, Working, AuthInv
  <1>1. n <= tries[a] /\ attempt[a][n].calls = 0
    BY <1>0 DEF Send, Working, BeforeSend, AuthInv, HoldInv
  <1>2. \A c \in Action : \A m \in AttemptNo : attempt'[c][m].calls
          = IF c = a /\ m = n THEN 1 ELSE attempt[c][m].calls
    BY <1>0, <1>1 DEF Send, Attempt, AuthInv
  <1>3. calledOf' = [calledOf EXCEPT ![a][n] = 1]
    <2>1. calledOf' = [c \in Action |-> [m \in AttemptNo |->
                         IF c = a /\ m = n THEN 1 ELSE calledOf[c][m]]]
      BY <1>2 DEF calledOf
    <2>2. calledOf \in [Action -> [AttemptNo -> Nat]]
      BY DEF calledOf, AuthInv, Attempt
    <2> HIDE DEF calledOf
    <2> QED BY <1>1, <2>1, <2>2
  <1>4. calledOf[a][n] = 0 BY <1>1 DEF calledOf
  <1>5. Ledger!Call(a, n)
    BY <1>1, <1>3, <1>4 DEF Ledger!Call, Send, calledOf
  <1> QED BY <1>5 DEF Ledger!Next

LEMMA LedgerMarkSent ==
  ASSUME AuthInv, NEW o \in Operator, EndMarkSent(o)
  PROVE  [Ledger!Next]_(Ledger!ledgerVars)
  <1> DEFINE a == op[o].act
             n == IF tries[a] = 0 THEN 1 ELSE tries[a]
  <1>1. a \in Action /\ grants[a] >= 1 BY DEF EndMarkSent, AuthInv, RealInv
  <1>2. n \in AttemptNo /\ tries[a] \in Nat /\ grants[a] \in Nat
    BY <1>1, DispatchAssumption DEF AuthInv, AttemptNo
  <1>3. calledOf' = calledOf
    <2>1. SetAttempt(a, n, "readback_ok", TRUE, TRUE) BY DEF EndMarkSent
    <2> HIDE DEF n
    <2>2. \A c \in Action : \A m \in AttemptNo :
            attempt'[c][m].calls = attempt[c][m].calls
      BY <1>1, <1>2, <2>1, SetAttemptCalls DEF AuthInv
    <2> QED BY <2>2, SameCalled
  <1>4. CASE tries[a] = 0
    <2>1. tries' = [tries EXCEPT ![a] = tries[a] + 1]
      BY <1>4 DEF EndMarkSent
    <2>2. Ledger!Begin(a)
      BY <1>1, <1>2, <1>3, <1>4, <2>1 DEF Ledger!Begin, EndMarkSent, calledOf
    <2> QED BY <1>1, <2>2 DEF Ledger!Next
  <1>5. CASE tries[a] # 0
    <2>1. tries' = tries BY <1>1, <1>5 DEF EndMarkSent, AuthInv
    <2> QED BY <1>3, <2>1 DEF Ledger!ledgerVars, EndMarkSent, calledOf
  <1> QED BY <1>4, <1>5

LEMMA LedgerInit == Init => Ledger!Init
  BY DEF Init, Ledger!Init, NoAttempt

LEMMA LedgerStep == AuthInv /\ [Next]_vars => [Ledger!Next]_(Ledger!ledgerVars)
  <1> SUFFICES ASSUME AuthInv, [Next]_vars PROVE [Ledger!Next]_(Ledger!ledgerVars)
    OBVIOUS
  <1>1. CASE UNCHANGED vars BY <1>1 DEF vars, Ledger!ledgerVars
  <1>2. ASSUME Next, NEW d \in Dispatcher, DispatcherStep(d) \/ Crash(d)
        PROVE  [Ledger!Next]_(Ledger!ledgerVars)
    BY <1>2, DispatcherQuiet, LedgerQuiet, LedgerClaim, LedgerSend DEF DispatcherStep
  <1>3. ASSUME Next, NEW o \in Operator, OperatorStep(o)
        PROVE  [Ledger!Next]_(Ledger!ledgerVars)
    BY <1>3, OperatorQuiet, LedgerQuiet, LedgerMarkSent DEF OperatorStep
  <1>4. ASSUME Quiet, Next PROVE [Ledger!Next]_(Ledger!ledgerVars)
    BY <1>4, LedgerQuiet
  <1> QED BY <1>1, <1>2, <1>3, <1>4, CreateQuiet, AgeQuiet, EnvironmentQuiet DEF Next

\* Dispatch refines the ledger: behind tables, crashes and races there is only
\* "authorise, open, call once".
THEOREM Refinement == Spec => KeepsLedger
  <1>1. AuthInv /\ [Next]_vars => [Ledger!Next]_(Ledger!ledgerVars) BY LedgerStep
  <1> QED BY <1>1, InitAuth, AuthStep, LedgerInit, LedgerStep, PTL
      DEF Spec, KeepsLedger, Ledger!Spec
=============================================================================
