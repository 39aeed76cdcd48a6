---------------------------- MODULE PipelineProofs ----------------------------
(***************************************************************************)
(* Proofs about the handling of one message: what the agents are shown,    *)
(* which wording the store keeps, which stage markers last, what the owner *)
(* is told and how often a revision is answered.  One handler runs at a    *)
(* time; the invariants say what it has read that is still true, what its  *)
(* queue of writes still holds, and what may still answer its revision.    *)
(***************************************************************************)
EXTENDS Pipeline, FiniteSetTheorems, SequenceTheorems, WellFoundedInduction, TLAPS

Routes == SessionRoutes \cup Placeholders
            \cup {"ignore", "human_taken_over", "ambiguous", "duplicate"}
SomeTask == Task \cup {NoTask}
DecisionRow == [route: Routes \cup {"none"}, task: SomeTask]
Status == {"none", "processed", "failed", "blocked"}
MarkRow == [status: Status, task: SomeTask]
StoredRow == [rev: 0..MaxRevision, hash: Snapshots \cup {NoKey}, seen: SUBSET Snapshots,
              gone: BOOLEAN]

(* The queued writes of a handler.                                         *)
Markings == [do: {"mark"}, what: Stage, status: Final, task: SomeTask]
Rulings == [do: {"audit", "route"}, what: Routes, status: {NoKey}, task: SomeTask]
Others == [do: {"tell", "attach", "task", "draft", "escalate", "fence", "hang"},
           what: Stage \cup {"question", "review", NoKey},
           status: {"watching", "closed", NoKey}, task: SomeTask]
WriteRow == Markings \cup Rulings \cup Others

Live == {"routing", "download", "process", "router", "session", "agent"}
WorkRow ==
  [at: Live \cup {"idle", "confirm", "restore", "accepted", "write", "claimed", "finish"},
   m: Message \cup {NoKey}, s: Snapshots \cup {NoKey}, src: Sources \cup {NoKey}, r: Nat,
   since: Nat, ins: BOOLEAN, chg: BOOLEAN, then: DecisionRow,
   allowed: SUBSET ({"attach_task", "reopen_task"} \X Task), attempt: Attempt \cup {NoKey},
   todo: Seq(WriteRow), next: {"idle", "routing", "download", "session", "finish"}]
AttemptRow == [state: {"free", "queued", "claimed", "succeeded", "failed", "cancelled"},
               m: Message \cup {NoKey}, r: Nat, stage: Stage \cup {NoKey}, task: SomeTask]

DraftRow == [m: Message, r: Revision, task: SomeTask]

IsDb(d) ==
  d = [row |-> d.row, tasks |-> d.tasks, dec |-> d.dec, asked |-> d.asked, mark |-> d.mark,
       res |-> d.res, told |-> d.told, drafts |-> d.drafts, sent |-> d.sent,
       made |-> d.made, posted |-> d.posted]
DbType(d) ==
  /\ IsDb(d) /\ d.row \in [Message -> StoredRow]
  /\ d.dec \in [Message -> [Revision -> DecisionRow]]
  /\ d.asked \in [Message -> [Revision -> Placeholders \cup {NoKey}]]
  /\ d.mark \in [Message -> [Revision -> [Stage -> MarkRow]]]
  /\ d.made \in [Message -> [Revision -> Nat]]
  /\ d.drafts \in SUBSET DraftRow /\ d.posted \in [Message -> SomeTask]

(* Where a handler is decides which message it has and what it has queued. *)
WorkInv(w) ==
  /\ w.at # "idle" => w.m \in Message
  /\ w.at \notin {"idle", "confirm", "restore"} => w.r \in Revision
  /\ w.at \in Live \cup {"confirm", "restore", "accepted"} => w.s \in Snapshots
  /\ w.next \in Live => w.s \in Snapshots
  /\ w.at = "write" <=> w.todo # <<>>
  /\ w.at # "write" => w.next = "idle"
  /\ w.at \in {"confirm", "restore", "accepted", "routing"} \/ w.next = "routing" =>
       w.attempt = NoKey
  /\ w.at \in {"claimed", "finish"} \/ w.next = "finish" => w.attempt # NoKey

RetryInv ==
  \A a \in Attempt : retry[a].state \in {"queued", "claimed"} =>
    /\ retry[a].m \in Message /\ retry[a].r \in Revision /\ retry[a].stage \in Stage
    /\ retry[a].r <= db.row[retry[a].m].rev

PipeType ==
  /\ cast \in Casts /\ shown \in [Message -> Nat]
  /\ \A m \in Message : shown[m] <= Len(Script[m])
  /\ DbType(db) /\ retry \in [Attempt -> AttemptRow] /\ work \in WorkRow
  /\ faults \in Nat /\ ends \in Nat
  /\ WorkInv(work) /\ RetryInv

(* A handler past the fence works on the wording and the revision that the *)
(* store holds, until it rests.                                            *)
Holds == /\ db.row[work.m].hash = work.s /\ db.row[work.m].rev = work.r
         /\ ~db.row[work.m].gone
Pending == {work.todo[i] : i \in DOMAIN work.todo}
SeesInv ==
  /\ work.at \in Live \/ work.next \in Live => Holds
  /\ work.at = "accepted" => db.row[work.m].rev = work.r /\ (Gone \/ Holds)
  /\ work.at \notin {"idle", "confirm", "restore"} => work.r <= db.row[work.m].rev
  /\ \A o \in Pending : o.do = "fence" => db.row[work.m].rev = work.r

(* A snapshot that was read back is one shown since the poll.              *)
ShownInv ==
  /\ \A m \in Message : /\ db.row[m].rev = 0 => db.row[m].seen = {}
                        /\ db.row[m].rev > 0 => db.row[m].hash \in Snapshots
  /\ work.at \in {"confirm", "restore"} => work.since <= shown[work.m] /\ shown[work.m] > 0
  /\ work.at = "restore" =>
       \E i \in work.since..shown[work.m] : work.s = Script[work.m][i]

(* What a revision has not reached is not decided, asked or marked.        *)
Blank(m, r) ==
  /\ db.asked[m][r] = NoKey /\ db.made[m][r] = 0
  /\ \A g \in Stage : MarkOf(m, r, g) = "none"
BlankInv ==
  \A m \in Message, r \in Revision :
    /\ r > db.row[m].rev => db.dec[m][r] = Undecided
    /\ db.dec[m][r] = Undecided => Blank(m, r)
    /\ db.dec[m][r].route \in Placeholders =>
         \A g \in Stage \ {"task_router"} : MarkOf(m, r, g) = "none"

(* A handler knows whether its revision is decided, and for which stage it *)
(* was; a decision is queued at most once, and before the stage it is for. *)
Handled == db.dec[work.m][work.r]
Starting == work.at \in {"download", "process"} \/ work.next = "download"
Decides(o) == o.do \in {"audit", "route"}
Marks(o) == o.do = "mark"
DecisionInv ==
  /\ (work.at \in {"accepted", "routing"} \/ work.next = "routing") =>
       (work.ins \/ work.chg => Handled = Undecided)
  /\ work.next = "routing" => work.todo = <<Fence>>
  /\ work.next = "download" => Handled = Undecided /\ work.todo = <<Routed(work.then)>>
  /\ work.at \in {"download", "process"} /\ work.then.route \in SessionRoutes =>
       Handled.route \in SessionRoutes
  /\ work.at = "router" \/ (work.at \in {"download", "process"} /\ work.then.route \in Placeholders) =>
       Handled # Undecided
  /\ work.at \in {"session", "agent"} => Handled.route \in SessionRoutes
  /\ \A o \in Pending : Marks(o) \/ o.do = "draft" => Handled # Undecided
  /\ work.next = "session" => Handled.route \in SessionRoutes \/ \E o \in Pending : Decides(o)
  /\ \A o \in Pending : Decides(o) =>
       /\ o.what \in Placeholders => Handled = Undecided /\ Len(work.todo) = 1
       /\ work.next = "session" => o.what \in SessionRoutes
  /\ \A o \in Pending : Marks(o) /\ o.what # "task_router" =>
       /\ Handled.route \in SessionRoutes /\ \A p \in Pending : ~Decides(p)
       /\ work.next \notin {"session", "routing", "download"}

(* Without an operator's retry a handler only owes markers that are open,  *)
(* and it has queued one of them at most.                                  *)
Owes(g) ==
  \/ Starting /\ work.then.route \in Placeholders
  \/ work.at = "router"
  \/ g = "task_session" /\ Starting /\ work.then.route \in SessionRoutes
  \/ g = "task_session" /\ (work.at \in {"session", "agent"} \/ work.next = "session")
  \/ \E o \in Pending : Marks(o) /\ o.what = g
OneMark(todo) == \A i, j \in DOMAIN todo : Marks(todo[i]) /\ Marks(todo[j]) => i = j
MarkInv ==
  /\ OneMark(work.todo)
  /\ work.attempt = NoKey => \A g \in {"task_router", "task_session"} :
       Owes(g) => MarkOf(work.m, work.r, g) \notin Final

(* A failure is announced, or the announcement is queued behind it.        *)
Announced(todo) ==
  \A i \in DOMAIN todo : Marks(todo[i]) /\ todo[i].status # "processed" =>
    \E j \in DOMAIN todo : j > i /\ todo[j] = Tell(todo[i].what)
ToldInv ==
  /\ Announced(work.todo)
  /\ faults = 0 => \A m \in Message, g \in Stage :
       LET r == db.row[m].rev IN
       r > 0 /\ ~db.row[m].gone /\ MarkOf(m, r, g) \in {"failed", "blocked"} =>
         \/ <<m, r, g>> \in db.told
         \/ work.m = m /\ work.r = r /\ Tell(g) \in Pending

PipeInv == PipeType /\ SeesInv /\ ShownInv /\ BlankInv /\ DecisionInv /\ MarkInv /\ ToldInv

-------------------------------------------------------------------------------
(* What the routing operators return.                                      *)

LEMMA TheOnlyIs == ASSUME NEW ts \in SUBSET Task PROVE TheOnly(ts) \in SomeTask
<1>1. IsFiniteSet(ts)
  BY ScriptAssumption, FS_Subset
<1>2. Cardinality(ts) = 1 => ts # {}
  BY FS_EmptySet
<1> QED
  BY <1>2 DEF TheOnly, SomeTask

LEMMA CandidatesAre ==
  ASSUME NEW tasks, NEW m, NEW s
  PROVE  Candidates(tasks, m, s) \in SUBSET Task
BY DEF Candidates, ReplyMatches, ThreadMatches, Watching, MentionMatches

LEMMA TargetsAre ==
  ASSUME NEW tasks, NEW m, NEW s
  PROVE  /\ Home(tasks, m) \in SomeTask /\ DeterministicMatch(tasks, m, s) \in SomeTask
         /\ TakenOver(tasks, m, s) \in SomeTask
         /\ TheOnly(BurstMatches(tasks, m, s)) \in SomeTask
<1>1. Home(tasks, m) \in SomeTask
  BY TheOnlyIs DEF Home
<1>2. TheOnly(ReplyMatches(tasks, m, s)) \in SomeTask /\ TheOnly(ThreadMatches(tasks, m, s)) \in SomeTask
  BY TheOnlyIs DEF ReplyMatches, ThreadMatches, Watching
<1>3. DeterministicMatch(tasks, m, s) \in SomeTask
  BY <1>2 DEF DeterministicMatch
<1>4. TakenOver(tasks, m, s) \in SomeTask
  <2> DEFINE ts == {t \in Task : /\ s.reply # NoKey /\ s.reply \in tasks[t].holds
                                        /\ tasks[t].chat = Chat[m] /\ Active(tasks[t])}
             us == Watching(tasks, m, <<"thread", s.thread>>)
  <2>1. ts \in SUBSET Task /\ us \in SUBSET Task
    BY DEF Watching
  <2>2. TheOnly(ts) \in SomeTask /\ TheOnly(us) \in SomeTask
    <3> HIDE DEF ts, us
    <3> QED
      BY <2>1, TheOnlyIs
  <2>3. TakenOver(tasks, m, s) \in {TheOnly(ts), TheOnly(us), NoTask}
    BY DEF TakenOver
  <2> QED
    BY <2>2, <2>3 DEF SomeTask
<1>5. TheOnly(BurstMatches(tasks, m, s)) \in SomeTask
  <2>1. BurstMatches(tasks, m, s) \in SUBSET Task
    <3> HIDE DEF Candidates
    <3> QED
      BY CandidatesAre DEF BurstMatches
  <2> QED
    BY <2>1, TheOnlyIs
<1> QED
  BY <1>1, <1>3, <1>4, <1>5

LEMMA NatLeast ==
  ASSUME NEW S \in SUBSET Nat, S # {}
  PROVE  \E n \in S : \A k \in S : n <= k
<1>1. PICK n \in S : \A k \in S : <<k, n>> \notin OpToRel(<, Nat)
  BY NatLessThanWellFounded, WFMin
<1>2. \A k \in S : ~(k < n)
  BY <1>1 DEF OpToRel
<1> QED
  BY <1>2

(* The rules end in one that always applies: some rule is the first.       *)
LEMMA RouteIs ==
  ASSUME NEW tasks, NEW m, NEW s, NEW src, NEW changed, NEW readback \in SomeTask
  PROVE  Route(tasks, m, s, src, changed, readback) \in [route: Routes, task: SomeTask]
<1> DEFINE D == [route: Routes, task: SomeTask]
<1>1. PICK rules : rules = Rules(tasks, m, s, src, changed, readback)
  OBVIOUS
<1>2. \A route \in Routes, t \in SomeTask : Decision(route, t) \in D
  BY DEF Decision
<1>3. {"attach_task", "ignore", "human_taken_over", "recall_placeholder", "new_task",
       "router_placeholder"} \subseteq Routes /\ NoTask \in SomeTask
  BY DEF Routes, SessionRoutes, Placeholders, SomeTask
<1>4. DOMAIN rules = 1..13 /\ rules[13].when /\ \A i \in 1..13 : rules[i].then \in D
  <2>1. PICK a, b, c, d :
          /\ a = Home(tasks, m) /\ b = TakenOver(tasks, m, s)
          /\ c = DeterministicMatch(tasks, m, s) /\ d = TheOnly(BurstMatches(tasks, m, s))
    OBVIOUS
  <2>2. {a, b, c, d} \subseteq SomeTask
    BY <2>1, TargetsAre
  <2> QED
    BY <1>1, <1>2, <1>3, <2>1, <2>2 DEF Rules, Rule
<1>5. \E i \in 1..13 : rules[i].when /\ \A j \in 1..(i - 1) : ~rules[j].when
  <2> DEFINE S == {i \in 1..13 : rules[i].when}
  <2>1. S \in SUBSET Nat /\ S # {}
    BY <1>4
  <2>2. PICK n \in S : \A k \in S : n <= k
    <3> HIDE DEF S
    <3> QED
      BY <2>1, NatLeast
  <2> QED
    BY <2>2
<1>6. Route(tasks, m, s, src, changed, readback) =
        rules[CHOOSE i \in DOMAIN rules :
                rules[i].when /\ \A j \in 1..(i - 1) : ~rules[j].when].then
  BY <1>1 DEF Route
<1> QED
  BY <1>4, <1>5, <1>6

-------------------------------------------------------------------------------
(* What one queued write does to the store.                                *)

DecidesAs(d, w, o, e) ==
  \A m \in Message, r \in Revision :
    /\ e.dec[m][r] = IF m = w.m /\ r = w.r THEN Decision(o.what, o.task) ELSE d.dec[m][r]
    /\ e.asked[m][r] = IF m = w.m /\ r = w.r /\ o.what \in Placeholders THEN o.what
                       ELSE d.asked[m][r]

LEMMA DecidedIs ==
  ASSUME NEW d, DbType(d), NEW w, w.m \in Message, w.r \in Revision,
         NEW o, o.what \in Routes, o.task \in SomeTask,
         NEW e, e = Decided(d, w.m, w.r, o.what, o.task)
  PROVE  /\ DbType(e) /\ DecidesAs(d, w, o, e)
         /\ e.row = d.row /\ e.mark = d.mark /\ e.told = d.told /\ e.made = d.made
<1> DEFINE new == Decision(o.what, o.task)
           kept == d.asked[w.m][w.r]
           ask == IF o.what \in Placeholders THEN o.what ELSE kept
<1>1. new \in DecisionRow
  BY DEF Decision, DecisionRow
<1>2. ask \in Placeholders \cup {NoKey}
  BY DEF DbType
<1>3. e = [d EXCEPT !.dec[w.m][w.r] = new, !.asked[w.m][w.r] = ask]
  BY DEF Decided
<1> HIDE DEF new, ask
<1>4. /\ IsDb(e) /\ e.row = d.row /\ e.mark = d.mark /\ e.told = d.told /\ e.made = d.made
      /\ e.drafts = d.drafts /\ e.posted = d.posted
  BY <1>3 DEF DbType, IsDb
<1>5. /\ e.dec = [d.dec EXCEPT ![w.m][w.r] = new] /\ e.asked = [d.asked EXCEPT ![w.m][w.r] = ask]
  BY <1>3 DEF DbType, IsDb
<1>6. /\ e.dec \in [Message -> [Revision -> DecisionRow]]
      /\ e.asked \in [Message -> [Revision -> Placeholders \cup {NoKey}]]
  BY <1>1, <1>2, <1>5 DEF DbType
<1>7. \A m \in Message, r \in Revision :
        /\ e.dec[m][r] = IF m = w.m /\ r = w.r THEN new ELSE d.dec[m][r]
        /\ e.asked[m][r] = IF m = w.m /\ r = w.r THEN ask ELSE d.asked[m][r]
  BY <1>5 DEF DbType
<1>8. DecidesAs(d, w, o, e)
  BY <1>7 DEF DecidesAs, new, ask
<1> QED
  BY <1>4, <1>6, <1>8 DEF DbType

(* A write that touches neither rows, decisions, markers nor drafts made.  *)
SameCore(d, e) ==
  /\ e.row = d.row /\ e.dec = d.dec /\ e.asked = d.asked /\ e.mark = d.mark
  /\ e.made = d.made /\ e.posted = d.posted /\ e.drafts \subseteq d.drafts
SameDb(d, e) == SameCore(d, e) /\ e.told = d.told

LEMMA SameDbType == ASSUME NEW d, DbType(d), NEW e, IsDb(e), SameCore(d, e) PROVE DbType(e)
BY DEF DbType, SameCore

LEMMA EndedIs ==
  ASSUME NEW d, IsDb(d), NEW t, NEW status, NEW e, e = Ended(d, t, status)
  PROVE  IsDb(e) /\ SameDb(d, e)
BY DEF Ended, IsDb, SameDb, SameCore

LEMMA RouteWrittenIs ==
  ASSUME NEW d, DbType(d), NEW w, w.m \in Message, w.r \in Revision,
         NEW o, o.what \in Routes, o.task \in SomeTask, NEW e, e = RouteWritten(d, w, o)
  PROVE  /\ DbType(e) /\ DecidesAs(d, w, o, e)
         /\ e.row = d.row /\ e.mark = d.mark /\ e.told = d.told /\ e.made = d.made
<1>1. PICK a : a = Decided(d, w.m, w.r, o.what, o.task)
  OBVIOUS
<1>2. /\ DbType(a) /\ DecidesAs(d, w, o, a)
      /\ a.row = d.row /\ a.mark = d.mark /\ a.told = d.told /\ a.made = d.made
  BY <1>1, DecidedIs
<1>3. IsDb(e) /\ SameDb(a, e)
  <2>1. IsDb(a)
    BY <1>2 DEF DbType
  <2>2. CASE o.what = "new_task"
    <3>1. PICK v : e = [a EXCEPT !.tasks[o.task] = v]
      BY <1>1, <2>2 DEF RouteWritten
    <3> QED
      BY <2>1, <3>1 DEF IsDb, SameDb, SameCore
  <2>3. CASE o.what = "attach_task"
    <3>1. PICK v : e = [a EXCEPT !.tasks[o.task] = v]
      BY <1>1, <2>3 DEF RouteWritten
    <3> QED
      BY <2>1, <3>1 DEF IsDb, SameDb, SameCore
  <2>4. CASE o.what = "human_taken_over"
    <3>1. e = Ended(a, o.task, "human_taken_over")
      BY <1>1, <2>4 DEF RouteWritten
    <3> QED
      BY <2>1, <3>1, EndedIs
  <2>5. CASE o.what = "ignore" /\ o.task # NoTask
    <3>1. PICK v : e = [a EXCEPT !.tasks[o.task] = v]
      BY <1>1, <2>5 DEF RouteWritten
    <3> QED
      BY <2>1, <3>1 DEF IsDb, SameDb, SameCore
  <2>6. CASE o.what \notin {"new_task", "attach_task", "human_taken_over", "ignore"}
              \/ (o.what = "ignore" /\ o.task = NoTask)
    <3>1. e = a
      BY <1>1, <2>6 DEF RouteWritten
    <3> QED
      BY <2>1, <3>1 DEF SameDb, SameCore
  <2> QED
    BY <2>2, <2>3, <2>4, <2>5, <2>6
<1>4. DbType(e)
  BY <1>2, <1>3, SameDbType DEF SameDb
<1> QED
  BY <1>2, <1>3, <1>4 DEF SameDb, SameCore, DecidesAs

(* A marker is overwritten, a notice added or the superseded ones dropped. *)
Marked(d, w, o, e) ==
  \A m \in Message, r \in Revision, g \in Stage :
    e.mark[m][r][g].status = IF m = w.m /\ r = w.r /\ g = o.what THEN o.status
                             ELSE d.mark[m][r][g].status

LEMMA AfterMark ==
  ASSUME NEW d, DbType(d), NEW w, w.m \in Message, w.r \in Revision,
         NEW o \in WriteRow, o.do = "mark", NEW e, e = After(d, w, o)
  PROVE  /\ DbType(e) /\ Marked(d, w, o, e) /\ o.what \in Stage /\ o.status \in Final
         /\ e.row = d.row /\ e.dec = d.dec /\ e.asked = d.asked /\ e.told = d.told
         /\ e.made = d.made
<1>1. o.what \in Stage /\ o.status \in Final /\ o.task \in SomeTask
  BY DEF WriteRow, Markings, Rulings, Others
<1>2. PICK old : old = d.mark[w.m][w.r][o.what].task
  OBVIOUS
<1>3. PICK new : new = [status |-> o.status, task |-> IF o.task = NoTask THEN old ELSE o.task]
  OBVIOUS
<1>4. new \in MarkRow /\ new.status = o.status
  <2>1. old \in SomeTask
    BY <1>1, <1>2 DEF DbType, MarkRow
  <2> QED
    BY <1>1, <1>3, <2>1 DEF MarkRow, Status, Final
<1>5. e = [d EXCEPT !.mark[w.m][w.r][o.what] = new]
  BY <1>2, <1>3 DEF After
<1>6. /\ IsDb(e) /\ e.row = d.row /\ e.dec = d.dec /\ e.asked = d.asked /\ e.told = d.told
      /\ e.made = d.made /\ e.mark = [d.mark EXCEPT ![w.m][w.r][o.what] = new]
      /\ e.drafts = d.drafts /\ e.posted = d.posted
  BY <1>5 DEF DbType, IsDb
<1>7. /\ e.mark \in [Message -> [Revision -> [Stage -> MarkRow]]]
      /\ \A m \in Message, r \in Revision, g \in Stage :
           e.mark[m][r][g] = IF m = w.m /\ r = w.r /\ g = o.what THEN new
                             ELSE d.mark[m][r][g]
  <2>1. PICK marks, n, q, h : marks = d.mark /\ n = w.m /\ q = w.r /\ h = o.what
    OBVIOUS
  <2>2. /\ marks \in [Message -> [Revision -> [Stage -> MarkRow]]]
        /\ n \in Message /\ q \in Revision /\ h \in Stage
    BY <1>1, <2>1 DEF DbType
  <2>3. e.mark = [marks EXCEPT ![n][q][h] = new]
    BY <1>6, <2>1
  <2>4. e.mark \in [Message -> [Revision -> [Stage -> MarkRow]]]
    BY ONLY <1>4, <2>2, <2>3
  <2>5. \A m \in Message, r \in Revision, g \in Stage :
          e.mark[m][r][g] = IF m = n /\ r = q /\ g = h THEN new ELSE marks[m][r][g]
    BY ONLY <2>2, <2>3
  <2> QED
    BY <2>1, <2>4, <2>5
<1>8. DbType(e)
  BY <1>6, <1>7 DEF DbType
<1>9. Marked(d, w, o, e)
  BY <1>4, <1>7 DEF Marked
<1> QED
  BY <1>1, <1>6, <1>8, <1>9

LEMMA AfterRuling ==
  ASSUME NEW d, DbType(d), NEW w, w.m \in Message, w.r \in Revision,
         NEW o \in WriteRow, Decides(o), NEW e, e = After(d, w, o)
  PROVE  /\ DbType(e) /\ DecidesAs(d, w, o, e) /\ o.what \in Routes
         /\ e.row = d.row /\ e.mark = d.mark /\ e.told = d.told /\ e.made = d.made
<1>1. o.what \in Routes /\ o.task \in SomeTask
  BY DEF WriteRow, Markings, Rulings, Others, Decides
<1>2. CASE o.do = "audit"
  <2>1. e = Decided(d, w.m, w.r, o.what, o.task)
    BY <1>2 DEF After
  <2> QED
    BY <1>1, <2>1, DecidedIs
<1>3. CASE o.do = "route"
  <2>1. e = RouteWritten(d, w, o)
    BY <1>3 DEF After
  <2> QED
    BY <1>1, <2>1, RouteWrittenIs
<1> QED
  BY <1>2, <1>3 DEF Decides

LEMMA AfterFence ==
  ASSUME NEW d, DbType(d), NEW w, NEW o, o.do = "fence", NEW e, e = After(d, w, o)
  PROVE  /\ DbType(e) /\ SameCore(d, e)
         /\ e.told = {n \in d.told : n[1] # w.m \/ n[2] = w.r}
<1>1. e = [d EXCEPT !.drafts = {p \in d.drafts : p.m # w.m \/ p.r = w.r},
                    !.told = {n \in d.told : n[1] # w.m \/ n[2] = w.r}]
  BY DEF After
<1>2. IsDb(e) /\ SameCore(d, e) /\ e.told = {n \in d.told : n[1] # w.m \/ n[2] = w.r}
  BY <1>1 DEF DbType, IsDb, SameCore
<1> QED
  BY <1>2, SameDbType

LEMMA AfterTell ==
  ASSUME NEW d, DbType(d), NEW w, NEW o, o.do = "tell", NEW e, e = After(d, w, o)
  PROVE  /\ DbType(e) /\ SameCore(d, e) /\ e.told = d.told \cup {<<w.m, w.r, o.what>>}
<1>1. e = [d EXCEPT !.told = d.told \cup {<<w.m, w.r, o.what>>}]
  BY DEF After
<1>2. IsDb(e) /\ SameCore(d, e) /\ e.told = d.told \cup {<<w.m, w.r, o.what>>}
  BY <1>1 DEF DbType, IsDb, SameCore
<1> QED
  BY <1>2, SameDbType

(* A draft is counted for its revision.                                    *)
LEMMA AfterDraft ==
  ASSUME NEW d, DbType(d), NEW w, w.m \in Message, w.r \in Revision,
         NEW o, o.do = "draft", o.task \in SomeTask, NEW e, e = After(d, w, o)
  PROVE  /\ DbType(e) /\ e.row = d.row /\ e.dec = d.dec /\ e.asked = d.asked
         /\ e.mark = d.mark /\ e.told = d.told
         /\ \A m \in Message, r \in Revision :
              e.made[m][r] \in d.made[m][r]..(d.made[m][r] + IF m = w.m /\ r = w.r THEN 1 ELSE 0)
<1>1. PICK n, ds :
        /\ n = IF d.made[w.m][w.r] < 3 THEN d.made[w.m][w.r] + 1 ELSE d.made[w.m][w.r]
        /\ ds = d.drafts \cup {[m |-> w.m, r |-> w.r, task |-> o.task]}
  OBVIOUS
<1>2. e = [d EXCEPT !.drafts = ds, !.made[w.m][w.r] = n]
  BY <1>1 DEF After
<1>3. /\ IsDb(e) /\ e.row = d.row /\ e.dec = d.dec /\ e.asked = d.asked
      /\ e.mark = d.mark /\ e.told = d.told /\ e.made = [d.made EXCEPT ![w.m][w.r] = n]
      /\ e.drafts = ds /\ e.posted = d.posted
  BY <1>2 DEF DbType, IsDb
<1>7. ds \in SUBSET DraftRow
  BY <1>1 DEF DbType, DraftRow
<1>4. d.made[w.m][w.r] \in Nat /\ n \in Nat /\ n \in d.made[w.m][w.r]..(d.made[w.m][w.r] + 1)
  BY <1>1 DEF DbType
<1>5. /\ e.made \in [Message -> [Revision -> Nat]]
      /\ \A m \in Message, r \in Revision :
           e.made[m][r] = IF m = w.m /\ r = w.r THEN n ELSE d.made[m][r]
  BY <1>3, <1>4 DEF DbType
<1>6. \A m \in Message, r \in Revision : d.made[m][r] \in Nat
  BY DEF DbType
<1> QED
  BY <1>3, <1>4, <1>5, <1>6, <1>7 DEF DbType

LEMMA AfterOther ==
  ASSUME NEW d, DbType(d), NEW w, NEW o,
         o.do \in {"attach", "task", "escalate", "hang"}, NEW e, e = After(d, w, o)
  PROVE  DbType(e) /\ SameCore(d, e) /\ d.told \subseteq e.told
<1> USE DEF DbType
<1>1. CASE o.do = "attach"
  <2>1. PICK v : e = [d EXCEPT !.tasks[o.task] = v]
    BY <1>1 DEF After
  <2>2. IsDb(e) /\ SameCore(d, e) /\ e.told = d.told
    BY <2>1 DEF IsDb, SameCore
  <2> QED
    BY <2>2, SameDbType
<1>2. CASE o.do = "task"
  <2>1. PICK v, u : e = [d EXCEPT !.tasks[o.task].status = v, !.tasks[o.task].lapsed = u]
    BY <1>2 DEF After
  <2>2. IsDb(e) /\ SameCore(d, e) /\ e.told = d.told
    BY <2>1 DEF IsDb, SameCore
  <2> QED
    BY <2>2, SameDbType
<1>3. CASE o.do = "escalate"
  <2>1. CASE d.tasks[o.task].status # "watching"
    BY <1>3, <2>1 DEF After, SameCore
  <2>2. CASE d.tasks[o.task].status = "watching"
    <3>1. PICK c : c = Ended(d, o.task, "closed")
      OBVIOUS
    <3>2. e = [c EXCEPT !.told = c.told \cup {<<w.m, w.r, "escalated">>}]
      BY <1>3, <2>2, <3>1 DEF After
    <3>3. IsDb(c) /\ SameDb(d, c)
      BY <3>1, EndedIs
    <3>4. IsDb(e) /\ SameCore(d, e) /\ d.told \subseteq e.told
      BY <3>2, <3>3 DEF IsDb, SameDb, SameCore
    <3> QED
      BY <3>4, SameDbType
  <2> QED
    BY <2>1, <2>2
<1>4. CASE o.do = "hang"
  <2>1. e = d \/ e = [d EXCEPT !.told = d.told \cup {<<w.m, w.r, "hanging">>}]
    BY <1>4 DEF After
  <2>2. IsDb(e) /\ SameCore(d, e) /\ d.told \subseteq e.told
    BY <2>1 DEF IsDb, SameCore
  <2> QED
    BY <2>2, SameDbType
<1> QED
  BY <1>1, <1>2, <1>3, <1>4

-------------------------------------------------------------------------------
(* Queues of writes.                                                       *)

LEMMA Items ==
  /\ \A g \in Stage, v \in Final, t \in SomeTask :
       Mark(g, v, t) \in WriteRow /\ Mark(g, v, t).do = "mark" /\ Mark(g, v, t).what = g
         /\ Mark(g, v, t).status = v
  /\ \A x \in Routes, t \in SomeTask :
       Audit(x, t) \in WriteRow /\ Audit(x, t).do = "audit" /\ Audit(x, t).what = x
  /\ \A x \in DecisionRow : x.route \in Routes =>
       Routed(x) \in WriteRow /\ Routed(x).do = "route" /\ Routed(x).what = x.route
  /\ \A x \in Stage \cup {"question", "review"} :
       Tell(x) \in WriteRow /\ Tell(x).do = "tell" /\ Tell(x).what = x
  /\ \A t \in SomeTask :
       /\ Attach(t) \in WriteRow /\ Attach(t).do = "attach"
       /\ Open(t) \in WriteRow /\ Open(t).do = "route" /\ Open(t).what = "new_task"
       /\ Draft(t) \in WriteRow /\ Draft(t).do = "draft"
       /\ Escalate(t) \in WriteRow /\ Escalate(t).do = "escalate"
       /\ \A v \in {"watching", "closed"} : SetTask(t, v) \in WriteRow /\ SetTask(t, v).do = "task"
  /\ Fence \in WriteRow /\ Fence.do = "fence" /\ Hang \in WriteRow /\ Hang.do = "hang"
<1>1. \A g \in Stage, v \in Final, t \in SomeTask :
       Mark(g, v, t) \in WriteRow /\ Mark(g, v, t).do = "mark" /\ Mark(g, v, t).what = g
         /\ Mark(g, v, t).status = v
  BY DEF Mark, Write, WriteRow, Markings
<1>2. \A x \in Routes, t \in SomeTask :
       Audit(x, t) \in WriteRow /\ Audit(x, t).do = "audit" /\ Audit(x, t).what = x
  BY DEF Audit, Write, WriteRow, Rulings
<1>3. \A x \in DecisionRow : x.route \in Routes =>
       Routed(x) \in WriteRow /\ Routed(x).do = "route" /\ Routed(x).what = x.route
  BY DEF Routed, Write, WriteRow, Rulings, DecisionRow
<1>4. \A x \in Stage \cup {"question", "review"} :
       Tell(x) \in WriteRow /\ Tell(x).do = "tell" /\ Tell(x).what = x
  BY DEF Tell, Write, WriteRow, Others, SomeTask
<1>5. \A t \in SomeTask :
       /\ Attach(t) \in WriteRow /\ Attach(t).do = "attach"
       /\ Draft(t) \in WriteRow /\ Draft(t).do = "draft"
       /\ Escalate(t) \in WriteRow /\ Escalate(t).do = "escalate"
       /\ \A v \in {"watching", "closed"} : SetTask(t, v) \in WriteRow /\ SetTask(t, v).do = "task"
  BY DEF Attach, Draft, Escalate, SetTask, Write, WriteRow, Others
<1>6. \A t \in SomeTask :
        Open(t) \in WriteRow /\ Open(t).do = "route" /\ Open(t).what = "new_task"
  BY DEF Open, Write, WriteRow, Rulings, Routes, SessionRoutes
<1>7. Fence \in WriteRow /\ Fence.do = "fence" /\ Hang \in WriteRow /\ Hang.do = "hang"
  BY DEF Fence, Hang, Write, WriteRow, Others, SomeTask
<1> QED
  BY <1>1, <1>2, <1>3, <1>4, <1>5, <1>6, <1>7

ItemsOf(todo) == {todo[i] : i \in DOMAIN todo}
Queue(todo) ==
  /\ todo \in Seq(WriteRow) /\ todo # <<>> /\ OneMark(todo) /\ Announced(todo)
Succeeds(o) == Marks(o) => o.status = "processed"

LEMMA One == ASSUME NEW a \in WriteRow, Succeeds(a) PROVE Queue(<<a>>) /\ ItemsOf(<<a>>) = {a}
<1>1. <<a>> \in Seq(WriteRow) /\ DOMAIN <<a>> = {1} /\ <<a>>[1] = a /\ <<a>> # <<>>
  OBVIOUS
<1> HIDE DEF Tell
<1> QED
  BY <1>1 DEF Queue, OneMark, Announced, ItemsOf, Succeeds

LEMMA Two ==
  ASSUME NEW a \in WriteRow, NEW b \in WriteRow, ~(Marks(a) /\ Marks(b)), Succeeds(b),
         Succeeds(a) \/ b = Tell(a.what)
  PROVE  Queue(<<a, b>>) /\ ItemsOf(<<a, b>>) = {a, b}
<1>1. PICK q : q = <<a, b>>
  OBVIOUS
<1>2. q \in Seq(WriteRow) /\ DOMAIN q = {1, 2} /\ q[1] = a /\ q[2] = b /\ q # <<>>
  BY <1>1
<1>3. OneMark(q)
  BY <1>2 DEF OneMark
<1>4. Announced(q)
  BY <1>2 DEF Announced, Succeeds
<1> QED
  BY <1>1, <1>2, <1>3, <1>4 DEF Queue, ItemsOf

LEMMA Three ==
  ASSUME NEW a \in WriteRow, NEW b \in WriteRow, NEW c \in WriteRow,
         ~(Marks(a) /\ Marks(b)), ~(Marks(a) /\ Marks(c)), ~(Marks(b) /\ Marks(c)),
         Succeeds(b), Succeeds(c), Succeeds(a) \/ c = Tell(a.what)
  PROVE  Queue(<<a, b, c>>) /\ ItemsOf(<<a, b, c>>) = {a, b, c}
<1>1. PICK q : q = <<a, b, c>>
  OBVIOUS
<1>2. /\ q \in Seq(WriteRow) /\ DOMAIN q = {1, 2, 3} /\ q[1] = a /\ q[2] = b /\ q[3] = c
      /\ q # <<>>
  BY <1>1
<1>3. OneMark(q)
  BY <1>2 DEF OneMark
<1>4. Announced(q)
  BY <1>2 DEF Announced, Succeeds
<1> QED
  BY <1>1, <1>2, <1>3, <1>4 DEF Queue, ItemsOf

LEMMA Four ==
  ASSUME NEW a \in WriteRow, NEW b \in WriteRow, NEW c \in WriteRow, NEW d \in WriteRow,
         ~Marks(a), ~Marks(b), ~Marks(c), Succeeds(d)
  PROVE  Queue(<<a, b, c, d>>) /\ ItemsOf(<<a, b, c, d>>) = {a, b, c, d}
<1>1. PICK q : q = <<a, b, c, d>>
  OBVIOUS
<1>2. /\ q \in Seq(WriteRow) /\ DOMAIN q = {1, 2, 3, 4} /\ q # <<>>
      /\ q[1] = a /\ q[2] = b /\ q[3] = c /\ q[4] = d
  BY <1>1
<1>3. OneMark(q)
  BY <1>2 DEF OneMark
<1>4. Announced(q)
  BY <1>2 DEF Announced, Succeeds
<1> QED
  BY <1>1, <1>2, <1>3, <1>4 DEF Queue, ItemsOf

(* What is left of a queue when its first write is committed.              *)
LEMMA TailOf ==
  ASSUME NEW q, Queue(q)
  PROVE  /\ Head(q) \in WriteRow /\ Tail(q) \in Seq(WriteRow)
         /\ OneMark(Tail(q)) /\ Announced(Tail(q))
         /\ ItemsOf(q) = {Head(q)} \cup ItemsOf(Tail(q))
         /\ Marks(Head(q)) => \A o \in ItemsOf(Tail(q)) : ~Marks(o)
         /\ Marks(Head(q)) /\ Head(q).status # "processed" =>
              Tell(Head(q).what) \in ItemsOf(Tail(q))
         /\ (Len(q) > 1 <=> Tail(q) # <<>>)
<1>1. /\ q \in Seq(WriteRow) /\ Len(q) \in Nat \ {0} /\ DOMAIN q = 1..Len(q) /\ Head(q) = q[1]
      /\ \A i \in 1..Len(q) : q[i] \in WriteRow
  BY DEF Queue
<1>2. PICK u : u = Tail(q)
  OBVIOUS
<1>3. /\ u \in Seq(WriteRow) /\ Len(u) = Len(q) - 1 /\ DOMAIN u = 1..Len(u)
      /\ \A i \in 1..Len(u) : u[i] = q[i + 1]
  BY <1>1, <1>2
<1>4. OneMark(u)
  <2> SUFFICES ASSUME NEW i \in DOMAIN u, NEW j \in DOMAIN u, Marks(u[i]), Marks(u[j])
               PROVE  i = j
    BY DEF OneMark
  <2>1. /\ i \in Nat /\ j \in Nat /\ i + 1 \in DOMAIN q /\ j + 1 \in DOMAIN q
        /\ u[i] = q[i + 1] /\ u[j] = q[j + 1]
    BY <1>1, <1>3
  <2>2. i + 1 = j + 1
    BY <2>1 DEF Queue, OneMark
  <2> QED
    BY <2>1, <2>2
<1>5. Announced(u)
  <2> SUFFICES ASSUME NEW i \in DOMAIN u, Marks(u[i]), u[i].status # "processed"
               PROVE  \E j \in DOMAIN u : j > i /\ u[j] = Tell(u[i].what)
    BY DEF Announced
  <2>1. i + 1 \in DOMAIN q /\ q[i + 1] = u[i] /\ i \in Nat
    BY <1>1, <1>3
  <2>2. PICK k \in DOMAIN q : k > i + 1 /\ q[k] = Tell(u[i].what)
    BY <2>1 DEF Queue, Announced
  <2>3. k - 1 \in DOMAIN u /\ k - 1 > i /\ u[k - 1] = q[k]
    BY <1>1, <1>3, <2>1, <2>2
  <2> QED
    BY <2>2, <2>3
<1>6. ItemsOf(q) = {q[1]} \cup ItemsOf(u)
  <2>1. \A i \in DOMAIN q : i = 1 \/ (i - 1 \in DOMAIN u /\ q[i] = u[i - 1])
    BY <1>1, <1>3
  <2>2. 1 \in DOMAIN q /\ \A i \in DOMAIN u : i + 1 \in DOMAIN q /\ u[i] = q[i + 1]
    BY <1>1, <1>3
  <2> QED
    BY <2>1, <2>2 DEF ItemsOf
<1>7. \A i \in DOMAIN u : i + 1 \in DOMAIN q /\ i + 1 # 1 /\ u[i] = q[i + 1] /\ 1 \in DOMAIN q
  BY <1>1, <1>3
<1>8. Marks(q[1]) => \A o \in ItemsOf(u) : ~Marks(o)
  BY <1>7 DEF Queue, OneMark, ItemsOf
<1>9. Marks(q[1]) /\ q[1].status # "processed" => Tell(q[1].what) \in ItemsOf(u)
  <2> SUFFICES ASSUME Marks(q[1]), q[1].status # "processed"
               PROVE  Tell(q[1].what) \in ItemsOf(u)
    OBVIOUS
  <2>1. PICK k \in DOMAIN q : k > 1 /\ q[k] = Tell(q[1].what)
    BY <1>1 DEF Queue, Announced
  <2>2. k - 1 \in DOMAIN u /\ u[k - 1] = q[k]
    BY <1>1, <1>3, <2>1
  <2> QED
    BY <2>1, <2>2 DEF ItemsOf
<1>10. Len(q) > 1 <=> u # <<>>
  BY <1>1, <1>3
<1> QED
  BY <1>1, <1>2, <1>3, <1>4, <1>5, <1>6, <1>8, <1>9, <1>10

-------------------------------------------------------------------------------
(* A handler that goes on with the message it has.                         *)

Carries == /\ work'.m = work.m /\ work'.s = work.s /\ work'.r = work.r
           /\ work'.attempt = work.attempt
Stays == UNCHANGED <<cast, shown, retry, faults, ends>>
Turns ==
  /\ Stays /\ DbType(db') /\ SameDb(db, db') /\ Carries
  /\ work' \in WorkRow /\ WorkInv(work') /\ work'.at \in Live \cup {"write"}

LEMMA TurnStep ==
  ASSUME PipeInv, Turns, work.at # "write",
         \/ work.at \in Live
         \/ work.at = "accepted" /\ (Gone => work'.at = "write" /\ work'.next = "idle"),
         (\E o \in Pending' : o.do = "fence") => work.at = "accepted"
  PROVE  /\ PipeType' /\ SeesInv' /\ ShownInv' /\ BlankInv'
         /\ Announced(work'.todo) => ToldInv'
<1> USE DEF Turns
<1>1. PipeType'
  BY DEF PipeInv, PipeType, RetryInv, Stays, WorkInv, SameDb, SameCore
<1>2. work.todo = <<>> /\ work.next = "idle" /\ Pending = {}
  BY DEF PipeInv, PipeType, WorkInv, Pending
<1>3. SeesInv'
  <2>1. Holds' <=> Holds
    BY DEF Holds, Carries, SameDb, SameCore
  <2>2. work'.at # "accepted" /\ (work'.at # "write" => work'.next = "idle")
    BY DEF WorkInv, Live
  <2>3. CASE work.at \in Live
    BY <1>2, <2>1, <2>2, <2>3
       DEF PipeInv, SeesInv, Holds, Carries, Live
  <2>4. CASE work.at = "accepted"
    BY <1>2, <2>1, <2>2, <2>4
       DEF PipeInv, SeesInv, Holds, Carries, SameDb, SameCore, Gone, Live
  <2> QED
    BY <2>3, <2>4
<1>4. ShownInv'
  BY DEF PipeInv, ShownInv, SameDb, SameCore, Stays, Live
<1>5. BlankInv'
  BY DEF PipeInv, BlankInv, Blank, MarkOf, SameDb, SameCore
<1>6. ASSUME Announced(work'.todo) PROVE ToldInv'
  BY <1>2, <1>6 DEF PipeInv, ToldInv, MarkOf, SameDb, SameCore, Stays
<1> QED
  BY <1>1, <1>3, <1>4, <1>5, <1>6

LEMMA RoutesDecide ==
  \A x : x.route \in SessionRoutes \cup Placeholders => x # Undecided
BY DEF Undecided, Decision, SessionRoutes, Placeholders

(* A handler that queues its writes for the revision it has.               *)
LEMMA QueueStep ==
  ASSUME PipeInv, Stays, DbType(db'), SameDb(db, db'), Carries, work' \in WorkRow,
         work.at # "idle",
         work.at \notin {"write", "confirm", "restore"},
         work'.at = "write", Queue(work'.todo), work'.next \in {"idle", "finish"} \cup Live,
         work'.next \in Live => work.s \in Snapshots,
         work'.next = "routing" => work.attempt = NoKey,
         work'.next = "finish" => work.attempt # NoKey
  PROVE  Turns /\ Pending' = ItemsOf(work'.todo)
<1>2. work.m \in Message /\ work.r \in Revision
  BY DEF PipeInv, PipeType, WorkInv
<1>3. WorkInv(work')
  BY <1>2 DEF WorkInv, Carries, Queue, Live
<1>4. Pending' = ItemsOf(work'.todo)
  BY DEF Pending, ItemsOf
<1> QED
  BY <1>3, <1>4 DEF Turns

LEMMA ReadsOnly == ASSUME PipeInv, ReadOnly PROVE Stays /\ DbType(db') /\ SameDb(db, db')
BY DEF PipeInv, PipeType, ReadOnly, Stays, SameDb, SameCore

(* The last queue of a message: its stages' markers, decision and notices. *)
LEMMA LastQueue ==
  ASSUME PipeInv, Stays, DbType(db'), SameDb(db, db'),
         work.at \in {"router", "session", "agent"},
         NEW todo, Queue(todo), work' = [work EXCEPT !.at = "write", !.todo = todo, !.next = Rests],
         \A o \in ItemsOf(todo) :
           /\ o.do # "fence" /\ (Decides(o) => o.what \notin Placeholders)
           /\ work.at = "router" /\ Marks(o) => o.what = "task_router"
           /\ work.at # "router" => /\ ~Decides(o)
                                    /\ Marks(o) => o.what # "task_router"
  PROVE  PipeInv'
<1>1. todo \in Seq(WriteRow) /\ work \in WorkRow /\ Rests \in {"idle", "finish"}
  BY DEF Queue, PipeInv, PipeType, Rests
<1>2. /\ work' \in WorkRow /\ Carries /\ work'.at = "write" /\ work'.todo = todo
      /\ work'.next = Rests
  <2>1. PICK rest : rest = Rests
    OBVIOUS
  <2>2. work' = [work EXCEPT !.at = "write", !.todo = todo, !.next = rest]
    BY <2>1
  <2>3. work' \in WorkRow
    BY <1>1, <2>1, <2>2 DEF WorkRow
  <2> QED
    BY <1>1, <2>1, <2>2, <2>3 DEF WorkRow, Carries
<1>3. Turns /\ Pending' = ItemsOf(todo)
  BY <1>1, <1>2, QueueStep DEF Live, Rests
<1>4. /\ PipeType' /\ SeesInv' /\ ShownInv' /\ BlankInv' /\ ToldInv'
  BY <1>2, <1>3, TurnStep DEF Queue, Live
<1>5. Handled' = Handled
  BY <1>2 DEF Handled, Carries, SameDb, SameCore
<1>6. DecisionInv'
  <2>1. work'.next \notin {"routing", "download", "session"}
    BY <1>1, <1>2
  <2>2. \A o \in Pending' : Marks(o) /\ o.what # "task_router" =>
          Handled.route \in SessionRoutes /\ \A p \in Pending' : ~Decides(p)
    BY <1>3 DEF PipeInv, DecisionInv
  <2>3. Handled # Undecided
    BY RoutesDecide DEF PipeInv, DecisionInv
  <2> QED
    BY <1>2, <1>3, <1>5, <2>1, <2>2, <2>3 DEF DecisionInv
<1>7. MarkInv'
  <2>1. OneMark(work'.todo)
    BY <1>2 DEF Queue
  <2> SUFFICES ASSUME work.attempt = NoKey, NEW g \in {"task_router", "task_session"}, Owes(g)'
               PROVE  MarkOf(work.m, work.r, g) \notin Final
    BY <1>2, <2>1 DEF MarkInv, Carries, MarkOf, SameDb, SameCore
  <2>2. \E o \in Pending' : Marks(o) /\ o.what = g
    BY <1>1, <1>2 DEF Owes, Starting
  <2>3. Owes(g)
    BY <1>3, <2>2 DEF Owes
  <2> QED
    BY <2>3 DEF PipeInv, MarkInv
<1> QED
  BY <1>4, <1>6, <1>7 DEF PipeInv

LEMMA RouterFailsSafe == ASSUME PipeInv, RouterFails PROVE PipeInv'
<1>1. PICK a, b, c :
        a = Mark("task_router", "failed", NoTask) /\ b = Audit("ambiguous", NoTask)
          /\ c = Tell("task_router")
  OBVIOUS
<1>2. /\ {a, b, c} \subseteq WriteRow /\ a.do = "mark" /\ a.what = "task_router"
      /\ b.do = "audit" /\ b.what = "ambiguous" /\ c.do = "tell"
  <2>1. a \in WriteRow /\ a.do = "mark" /\ a.what = "task_router"
    BY <1>1, Items DEF Stage, Final, SomeTask
  <2>2. b \in WriteRow /\ b.do = "audit" /\ b.what = "ambiguous"
    BY <1>1, Items DEF SomeTask, Routes
  <2>3. c \in WriteRow /\ c.do = "tell"
    BY <1>1, Items DEF Stage
  <2> QED
    BY <2>1, <2>2, <2>3
<1>3. PICK todo : todo = <<a, b, c>>
  OBVIOUS
<1>4. Queue(todo) /\ ItemsOf(todo) = {a, b, c}
  BY <1>1, <1>2, <1>3, Three DEF Marks, Succeeds
<1>5. /\ ReadOnly /\ work.at = "router"
      /\ work' = [work EXCEPT !.at = "write", !.todo = todo, !.next = Rests]
  BY <1>1, <1>3 DEF RouterFails, Writes
<1> QED
  BY <1>2, <1>4, <1>5, ReadsOnly, LastQueue DEF Marks, Decides, Placeholders

LEMMA RouterUnsureSafe == ASSUME PipeInv, RouterUnsure PROVE PipeInv'
<1>1. PICK a, b, c :
        a = Audit("ambiguous", NoTask) /\ b = Tell("question") /\ c = RouterDone(NoTask)
  OBVIOUS
<1>2. /\ {a, b, c} \subseteq WriteRow /\ a.do = "audit" /\ a.what = "ambiguous"
      /\ b.do = "tell" /\ c.do = "mark" /\ c.what = "task_router" /\ c.status = "processed"
  BY <1>1, Items DEF RouterDone, Stage, Final, SomeTask, Routes
<1>3. PICK todo : /\ todo = <<a, b, c>> \/ todo = <<b, a, c>>
                  /\ work' = [work EXCEPT !.at = "write", !.todo = todo, !.next = Rests]
  BY <1>1 DEF RouterUnsure, Writes
<1>4. Queue(todo) /\ ItemsOf(todo) = {a, b, c}
  BY <1>2, <1>3, Three DEF Marks, Succeeds
<1>5. ReadOnly /\ work.at = "router"
  BY DEF RouterUnsure
<1> QED
  BY <1>2, <1>3, <1>4, <1>5, ReadsOnly, LastQueue DEF Marks, Decides, Placeholders

LEMMA RouterIgnoresSafe == ASSUME PipeInv, RouterIgnores PROVE PipeInv'
<1>1. PICK a, b : a = Audit("ignore", NoTask) /\ b = RouterDone(NoTask)
  OBVIOUS
<1>2. /\ {a, b} \subseteq WriteRow /\ a.do = "audit" /\ a.what = "ignore"
      /\ b.do = "mark" /\ b.what = "task_router" /\ b.status = "processed"
  <2>1. /\ NoTask \in SomeTask /\ "ignore" \in Routes
        /\ "task_router" \in Stage /\ "processed" \in Final
    BY DEF SomeTask, Routes, Stage, Final
  <2>2. a \in WriteRow /\ a.do = "audit" /\ a.what = "ignore"
    BY <1>1, <2>1, Items
  <2>3. /\ b \in WriteRow /\ b.do = "mark" /\ b.what = "task_router"
        /\ b.status = "processed"
    BY <1>1, <2>1, Items DEF RouterDone
  <2> QED
    BY <2>2, <2>3
<1>3. PICK todo : todo = <<a, b>>
  OBVIOUS
<1>4. Queue(todo) /\ ItemsOf(todo) = {a, b}
  BY <1>2, <1>3, Two DEF Marks, Succeeds
<1>5. /\ ReadOnly /\ work.at = "router"
      /\ work' = [work EXCEPT !.at = "write", !.todo = todo, !.next = Rests]
  BY <1>1, <1>3 DEF RouterIgnores, Writes
<1> QED
  BY <1>2, <1>4, <1>5, ReadsOnly, LastQueue DEF Marks, Decides, Placeholders

LEMMA ThenTask == PipeInv => work.then.task \in SomeTask
BY DEF PipeInv, PipeType, WorkRow, DecisionRow

(* A stage that fails or is blocked: its marker and its notice.            *)
LEMMA StageStops ==
  ASSUME PipeInv, Stays, DbType(db'), SameDb(db, db'), work.at \in {"session", "agent"},
         NEW g \in {"task_session", "resource_download"}, NEW v \in {"failed", "blocked"},
         Writes(<<Mark(g, v, work.then.task), Tell(g)>>, Rests)
  PROVE  PipeInv'
<1>1. PICK a, b : a = Mark(g, v, work.then.task) /\ b = Tell(g)
  OBVIOUS
<1>2. /\ {a, b} \subseteq WriteRow /\ a.do = "mark" /\ a.what = g /\ b.do = "tell"
  BY <1>1, Items, ThenTask DEF Stage, Final
<1>3. PICK todo : todo = <<a, b>>
  OBVIOUS
<1>4. Queue(todo) /\ ItemsOf(todo) = {a, b}
  BY <1>1, <1>2, <1>3, Two DEF Marks, Succeeds
<1>5. work' = [work EXCEPT !.at = "write", !.todo = todo, !.next = Rests]
  BY <1>1, <1>3 DEF Writes
<1> QED
  BY <1>2, <1>4, <1>5, LastQueue DEF Marks, Decides

LEMMA SessionBlockedSafe == ASSUME PipeInv, SessionBlocked PROVE PipeInv'
BY ReadsOnly, StageStops DEF SessionBlocked

LEMMA AgentFailsSafe == ASSUME PipeInv, AgentFails PROVE PipeInv'
BY ReadsOnly, StageStops DEF AgentFails

LEMMA Done ==
  ASSUME PipeInv, NEW c, c = SessionDone(work.then.task)
  PROVE  c \in WriteRow /\ c.do = "mark" /\ c.what = "task_session" /\ c.status = "processed"
BY Items, ThenTask DEF SessionDone, Stage, Final

(* Two or three writes of which the last marks the session.                *)
LEMMA SessionEnds ==
  ASSUME PipeInv, ReadOnly, work.at = "agent",
         NEW a \in WriteRow, NEW b \in WriteRow, NEW c, c = SessionDone(work.then.task),
         {a.do, b.do} \subseteq {"task", "draft", "escalate", "tell"},
         Writes(<<a, c>>, Rests) \/ Writes(<<a, b, c>>, Rests)
  PROVE  PipeInv'
<1>1. PICK todo : /\ todo = <<a, c>> \/ todo = <<a, b, c>>
                  /\ work' = [work EXCEPT !.at = "write", !.todo = todo, !.next = Rests]
  BY DEF Writes
<1>2. c \in WriteRow /\ c.do = "mark" /\ c.what = "task_session" /\ c.status = "processed"
  BY Done
<1>3. Queue(todo) /\ ItemsOf(todo) \subseteq {a, b, c}
  BY <1>1, <1>2, Two, Three DEF Marks, Succeeds
<1> QED
  BY <1>1, <1>2, <1>3, ReadsOnly, LastQueue DEF Marks, Decides

LEMMA AgentEscalatesSafe == ASSUME PipeInv, AgentEscalates PROVE PipeInv'
<1>1. PICK a, c : a = Escalate(work.then.task) /\ c = SessionDone(work.then.task)
  OBVIOUS
<1>2. a \in WriteRow /\ a.do = "escalate"
  BY <1>1, Items, ThenTask
<1> QED
  BY <1>1, <1>2, SessionEnds DEF AgentEscalates

LEMMA AgentQuietSafe ==
  ASSUME PipeInv, NEW status \in {"watching", "closed"}, AgentQuiet(status) PROVE PipeInv'
<1>1. PICK a, c : a = SetTask(work.then.task, status) /\ c = SessionDone(work.then.task)
  OBVIOUS
<1>2. a \in WriteRow /\ a.do = "task"
  BY <1>1, Items, ThenTask
<1> QED
  BY <1>1, <1>2, SessionEnds DEF AgentQuiet

LEMMA AgentAnswersSafe ==
  ASSUME PipeInv, NEW status \in {"watching", "closed"}, AgentAnswers(status) PROVE PipeInv'
<1>1. PICK a, b, c : /\ a = SetTask(work.then.task, status) /\ b = Draft(work.then.task)
                     /\ c = SessionDone(work.then.task)
  OBVIOUS
<1>2. a \in WriteRow /\ a.do = "task" /\ b \in WriteRow /\ b.do = "draft"
  BY <1>1, Items, ThenTask
<1> QED
  BY <1>1, <1>2, SessionEnds DEF AgentAnswers

LEMMA AgentCorrectsSafe == ASSUME PipeInv, AgentCorrects PROVE PipeInv'
<1>1. PICK a, b, c, d : /\ a = SetTask(work.then.task, "watching") /\ b = Draft(work.then.task)
                        /\ c = SessionDone(work.then.task) /\ d = Tell("review")
  OBVIOUS
<1>2. /\ a \in WriteRow /\ a.do = "task" /\ b \in WriteRow /\ b.do = "draft"
      /\ d \in WriteRow /\ d.do = "tell"
  BY <1>1, Items, ThenTask
<1>3. Writes(<<b, a, c>>, Rests) \/ Writes(<<a, d, c>>, Rests)
  BY <1>1 DEF AgentCorrects
<1>4. ReadOnly /\ work.at = "agent"
  BY DEF AgentCorrects
<1> QED
  BY <1>1, <1>2, <1>3, <1>4, SessionEnds

-------------------------------------------------------------------------------
(* From the fence to the session.                                          *)

LEMMA GoStep ==
  ASSUME PipeInv, Stays, DbType(db'), SameDb(db, db'), Carries, work' \in WorkRow,
         work.at \in Live \cup {"accepted"}, work.at = "accepted" => ~Gone,
         work'.at \in Live, work'.at = "routing" => work.at = "accepted",
         work'.todo = work.todo, work'.next = work.next
  PROVE  /\ PipeType' /\ SeesInv' /\ ShownInv' /\ BlankInv' /\ ToldInv'
         /\ Handled' = Handled /\ Pending' = {} /\ OneMark(work'.todo) /\ work'.next = "idle"
<1>1. work.m \in Message /\ work.r \in Revision /\ work.s \in Snapshots
  BY DEF PipeInv, PipeType, WorkInv, Live
<1>2. work.todo = <<>> /\ work.next = "idle"
  BY DEF PipeInv, PipeType, WorkInv, Live
<1>3. work.at = "accepted" => work.attempt = NoKey
  BY DEF PipeInv, PipeType, WorkInv
<1>4. WorkInv(work') /\ work.at # "write"
  BY <1>1, <1>2, <1>3 DEF WorkInv, Carries, Live
<1>5. Turns
  BY <1>4 DEF Turns
<1>6. Pending' = {} /\ Announced(work'.todo) /\ OneMark(work'.todo)
  BY <1>2 DEF Pending, Announced, OneMark
<1>7. /\ PipeType' /\ SeesInv' /\ ShownInv' /\ BlankInv' /\ ToldInv'
  BY <1>4, <1>5, <1>6, TurnStep
<1>8. Handled' = Handled
  BY DEF Handled, Carries, SameDb, SameCore
<1> QED
  BY <1>2, <1>6, <1>7, <1>8

LEMMA StepTo ==
  ASSUME PipeInv, NEW next \in Live, Step(next)
  PROVE  /\ work' \in WorkRow /\ Carries /\ work'.at = next /\ work'.todo = work.todo
         /\ work'.next = work.next /\ work'.then = work.then
         /\ work'.ins = work.ins /\ work'.chg = work.chg
<1>1. work \in WorkRow /\ work' = [work EXCEPT !.at = next]
  BY DEF PipeInv, PipeType, Step
<1> QED
  BY <1>1 DEF WorkRow, Carries, Live

LEMMA ResChanges ==
  ASSUME DbType(db), NEW m, NEW v, db' = [db EXCEPT !.res[m] = v]
  PROVE  DbType(db') /\ SameDb(db, db')
<1>1. IsDb(db') /\ SameDb(db, db')
  BY DEF DbType, IsDb, SameDb, SameCore
<1> QED
  BY <1>1, SameDbType DEF SameDb

LEMMA DownloadSafe == ASSUME PipeInv, Download PROVE PipeInv'
<1>1. DbType(db') /\ SameDb(db, db')
  <2>1. DbType(db)
    BY DEF PipeInv, PipeType
  <2>2. CASE Downloads
    BY <2>1, <2>2, ResChanges DEF Download
  <2>3. CASE ~Downloads
    BY <2>1, <2>3 DEF Download, SameDb, SameCore
  <2> QED
    BY <2>2, <2>3
<1>2. Stays /\ work.at = "download" /\ Step("process")
  BY DEF Download, Stays
<1>3. /\ work' \in WorkRow /\ Carries /\ work'.at = "process" /\ work'.todo = work.todo
      /\ work'.next = work.next /\ work'.then = work.then
  BY <1>2, StepTo DEF Live
<1>4. /\ PipeType' /\ SeesInv' /\ ShownInv' /\ BlankInv' /\ ToldInv'
      /\ Handled' = Handled /\ Pending' = {} /\ OneMark(work'.todo) /\ work'.next = "idle"
  BY <1>1, <1>2, <1>3, GoStep DEF Live
<1>5. DecisionInv'
  BY <1>2, <1>3, <1>4 DEF PipeInv, DecisionInv
<1>6. MarkInv'
  BY <1>1, <1>2, <1>3, <1>4
     DEF PipeInv, MarkInv, Owes, Starting, Carries, MarkOf, SameDb, SameCore
<1> QED
  BY <1>4, <1>5, <1>6 DEF PipeInv

LEMMA PreflightSafe == ASSUME PipeInv, Preflight PROVE PipeInv'
<1>1. PICK out, v :
        /\ db' = [db EXCEPT !.res[work.m] = v]
        /\ \/ Step("agent")
           \/ Writes(<<Mark("resource_download", "processed", work.then.task)>>, Rests)
           \/ \E u \in {"failed", "blocked"} :
                Writes(<<Mark("resource_download", u, work.then.task),
                         Tell("resource_download")>>, Rests)
  BY DEF Preflight
<1>2. /\ DbType(db') /\ SameDb(db, db') /\ Stays /\ work.at = "session"
  <2>1. DbType(db)
    BY DEF PipeInv, PipeType
  <2> QED
    BY <1>1, <2>1, ResChanges DEF Preflight, Stays
<1>3. CASE Step("agent")
  <2>1. /\ work' \in WorkRow /\ Carries /\ work'.at = "agent" /\ work'.todo = work.todo
        /\ work'.next = work.next
    BY <1>3, StepTo DEF Live
  <2>2. /\ PipeType' /\ SeesInv' /\ ShownInv' /\ BlankInv' /\ ToldInv'
        /\ Handled' = Handled /\ Pending' = {} /\ OneMark(work'.todo) /\ work'.next = "idle"
    BY <1>2, <2>1, GoStep DEF Live
  <2>3. DecisionInv'
    BY <1>2, <2>1, <2>2 DEF PipeInv, DecisionInv
  <2>4. MarkInv'
    BY <1>2, <2>1, <2>2
       DEF PipeInv, MarkInv, Owes, Starting, Carries, MarkOf, SameDb, SameCore
  <2> QED
    BY <2>2, <2>3, <2>4 DEF PipeInv
<1>4. CASE Writes(<<Mark("resource_download", "processed", work.then.task)>>, Rests)
  <2>1. PICK a : a = Mark("resource_download", "processed", work.then.task)
    OBVIOUS
  <2>2. /\ a \in WriteRow /\ a.do = "mark" /\ a.what = "resource_download"
        /\ a.status = "processed"
    BY <2>1, Items, ThenTask DEF Stage, Final
  <2>3. PICK todo : todo = <<a>>
    OBVIOUS
  <2>4. Queue(todo) /\ ItemsOf(todo) = {a}
    BY <2>2, <2>3, One DEF Succeeds
  <2>5. work' = [work EXCEPT !.at = "write", !.todo = todo, !.next = Rests]
    BY <1>4, <2>1, <2>3 DEF Writes
  <2> QED
    BY <1>2, <2>2, <2>4, <2>5, LastQueue DEF Marks, Decides
<1>5. CASE \E u \in {"failed", "blocked"} :
                Writes(<<Mark("resource_download", u, work.then.task),
                         Tell("resource_download")>>, Rests)
  BY <1>2, <1>5, StageStops
<1> QED
  BY <1>1, <1>3, <1>4, <1>5

(* A handler that has no more to do for its message, or lost it.           *)
LEMMA RestStep ==
  ASSUME PipeInv, UNCHANGED <<cast, shown>>, DbType(db'), SameCore(db, db'),
         \A n \in db.told \ db'.told : MarkOf(n[1], n[2], n[3]) = "processed",
         retry' \in [Attempt -> AttemptRow], RetryInv', faults' \in Nat, faults' >= faults,
         ends' \in Nat, Pending = {} \/ faults' > 0,
         \/ work' = NoWork
         \/ /\ work' = [work EXCEPT !.at = "finish"] /\ work.at \in Live /\ work.attempt # NoKey
  PROVE  PipeInv'
<1>1. /\ NoWork \in WorkRow /\ WorkInv(NoWork) /\ NoWork.at = "idle" /\ NoWork.todo = <<>>
      /\ NoWork.next = "idle"
  BY DEF NoWork, WorkRow, WorkInv, Live, Undecided, Decision, DecisionRow, SomeTask
<1>2. /\ work' \in WorkRow /\ WorkInv(work') /\ work'.at \in {"idle", "finish"}
      /\ work'.todo = <<>> /\ work'.next = "idle"
      /\ work'.at = "finish" => /\ work'.attempt # NoKey /\ work.at \in Live
                                 /\ work'.m = work.m /\ work'.r = work.r
  <2>1. CASE work' = NoWork
    BY <1>1, <2>1
  <2>2. CASE /\ work' = [work EXCEPT !.at = "finish"] /\ work.at \in Live
             /\ work.attempt # NoKey
    <3>1. work \in WorkRow /\ WorkInv(work)
      BY DEF PipeInv, PipeType
    <3>2. /\ work' \in WorkRow /\ work'.at = "finish" /\ work'.m = work.m
          /\ work'.r = work.r /\ work'.s = work.s /\ work'.attempt = work.attempt
          /\ work'.todo = work.todo /\ work'.next = work.next
      BY <2>2, <3>1 DEF WorkRow
    <3>3. work.todo = <<>> /\ work.next = "idle" /\ work.m \in Message /\ work.r \in Revision
      BY <2>2, <3>1 DEF WorkInv, Live
    <3>4. WorkInv(work')
      BY <2>2, <3>2, <3>3 DEF WorkInv, Live
    <3> QED
      BY <2>2, <3>2, <3>3, <3>4
  <2> QED
    BY <2>1, <2>2
<1>3. Pending' = {}
  BY <1>2 DEF Pending
<1>4. PipeType'
  BY <1>2 DEF PipeInv, PipeType, WorkInv
<1>5. SeesInv'
  BY <1>2, <1>3 DEF PipeInv, SeesInv, Live, SameCore
<1>6. ShownInv' /\ BlankInv'
  <2>1. ShownInv'
    BY <1>2 DEF PipeInv, ShownInv, SameCore
  <2>2. BlankInv'
    BY <1>2 DEF PipeInv, BlankInv, Blank, MarkOf, SameCore
  <2> QED
    BY <2>1, <2>2
<1>7. DecisionInv'
  BY <1>2, <1>3 DEF DecisionInv
<1>8. MarkInv'
  <2>1. OneMark(work'.todo)
    BY <1>2 DEF OneMark
  <2>2. \A g \in {"task_router", "task_session"} : ~Owes(g)'
    BY <1>2, <1>3 DEF Owes, Starting
  <2> QED
    BY <2>1, <2>2 DEF MarkInv
<1>9. ToldInv'
  <2>1. Announced(work'.todo)
    BY <1>2 DEF Announced
  <2> SUFFICES ASSUME faults' = 0, NEW m \in Message, NEW g \in Stage,
                      db.row[m].rev > 0, ~db.row[m].gone,
                      MarkOf(m, db.row[m].rev, g) \in {"failed", "blocked"}
               PROVE  <<m, db.row[m].rev, g>> \in db'.told
    BY <2>1 DEF ToldInv, MarkOf, SameCore
  <2>2. faults = 0 /\ Pending = {}
    BY DEF PipeInv, PipeType
  <2>3. PICK n : n = <<m, db.row[m].rev, g>>
    OBVIOUS
  <2>4. n \in db.told
    BY <2>2, <2>3 DEF PipeInv, ToldInv
  <2>5. n \notin db'.told => MarkOf(n[1], n[2], n[3]) = "processed"
    BY <2>4
  <2>6. n[1] = m /\ n[2] = db.row[m].rev /\ n[3] = g
    BY <2>3
  <2> QED
    BY <2>3, <2>5, <2>6
<1> QED
  BY <1>4, <1>5, <1>6, <1>7, <1>8, <1>9 DEF PipeInv

LEMMA OverStep ==
  ASSUME PipeInv, ReadOnly, work.at \in Live \cup {"accepted"}, Over \/ work' = NoWork
  PROVE  PipeInv'
<1>1. /\ UNCHANGED <<cast, shown>> /\ DbType(db') /\ SameDb(db, db')
      /\ retry' \in [Attempt -> AttemptRow] /\ RetryInv' /\ faults' \in Nat
      /\ faults' >= faults /\ ends' \in Nat
  BY ReadsOnly DEF PipeInv, PipeType, RetryInv, ReadOnly
<1>2. Pending = {}
  BY DEF PipeInv, PipeType, WorkInv, Pending, Live
<1>3. work.at = "accepted" => work.attempt = NoKey
  BY DEF PipeInv, PipeType, WorkInv
<1>4. \/ work' = NoWork
      \/ /\ work' = [work EXCEPT !.at = "finish"] /\ work.at \in Live /\ work.attempt # NoKey
  BY <1>3 DEF Over, Step
<1> QED
  BY <1>1, <1>2, <1>4, RestStep DEF SameDb

(* A handler that queues writes and goes on, or ends, behind them.         *)
LEMMA QueueType ==
  ASSUME work \in WorkRow, NEW todo, Queue(todo), NEW next \in {"idle", "routing", "download", "session", "finish"},
         Writes(todo, next)
  PROVE  /\ work' \in WorkRow /\ Carries /\ work'.at = "write" /\ work'.todo = todo
         /\ work'.next = next /\ work'.then = work.then
         /\ work'.ins = work.ins /\ work'.chg = work.chg
<1>1. todo \in Seq(WriteRow) /\ work' = [work EXCEPT !.at = "write", !.todo = todo, !.next = next]
  BY DEF Queue, Writes
<1> QED
  BY <1>1 DEF WorkRow, Carries

LEMMA AcceptSafe == ASSUME PipeInv, Accept PROVE PipeInv'
<1>1. /\ work.at = "accepted" /\ ReadOnly /\ Stays /\ DbType(db') /\ SameDb(db, db')
      /\ work \in WorkRow /\ work.attempt = NoKey
  BY ReadsOnly DEF Accept, PipeInv, PipeType, WorkInv
<1>2. CASE Gone /\ work.chg /\ Writes(<<Fence, Audit("ignore", NoTask), Hang>>, "idle")
  <2>1. PICK a, b, c : a = Fence /\ b = Audit("ignore", NoTask) /\ c = Hang
    OBVIOUS
  <2>2. /\ {a, b, c} \subseteq WriteRow /\ a.do = "fence" /\ b.do = "audit"
        /\ b.what = "ignore" /\ c.do = "hang"
    BY <2>1, Items DEF Routes, SomeTask
  <2>3. PICK todo : todo = <<a, b, c>>
    OBVIOUS
  <2>4. Queue(todo) /\ ItemsOf(todo) = {a, b, c}
    BY <2>2, <2>3, Three DEF Marks, Succeeds
  <2>5. /\ work' \in WorkRow /\ Carries /\ work'.at = "write" /\ work'.todo = todo
        /\ work'.next = "idle"
    BY <1>1, <1>2, <2>1, <2>3, <2>4, QueueType
  <2>6. Turns /\ Pending' = {a, b, c}
    BY <1>1, <2>4, <2>5, QueueStep DEF Live
  <2>7. PipeType' /\ SeesInv' /\ ShownInv' /\ BlankInv' /\ ToldInv'
    BY <1>1, <2>4, <2>5, <2>6, TurnStep DEF Queue
  <2>8. DecisionInv'
    BY <2>2, <2>5, <2>6 DEF DecisionInv, Decides, Marks, Placeholders
  <2>9. MarkInv'
    BY <2>2, <2>4, <2>5, <2>6 DEF MarkInv, Owes, Starting, Marks, Queue
  <2> QED
    BY <2>7, <2>8, <2>9 DEF PipeInv
<1>3. CASE Gone /\ ~work.chg /\ work' = NoWork
  BY <1>1, <1>3, OverStep
<1>4. CASE ~Gone /\ Writes(<<Fence>>, "routing")
  <2>1. PICK a : a = Fence
    OBVIOUS
  <2>2. a \in WriteRow /\ a.do = "fence"
    BY <2>1, Items
  <2>3. PICK todo : todo = <<a>>
    OBVIOUS
  <2>4. Queue(todo) /\ ItemsOf(todo) = {a}
    BY <2>2, <2>3, One DEF Marks, Succeeds
  <2>5. /\ work' \in WorkRow /\ Carries /\ work'.at = "write" /\ work'.todo = todo
        /\ work'.next = "routing" /\ work'.ins = work.ins /\ work'.chg = work.chg
    BY <1>1, <1>4, <2>1, <2>3, <2>4, QueueType
  <2>6. Turns /\ Pending' = {a}
    <3>1. work.s \in Snapshots
      BY <1>1 DEF PipeInv, PipeType, WorkInv
    <3> QED
      BY <1>1, <2>4, <2>5, <3>1, QueueStep DEF Live
  <2>7. PipeType' /\ SeesInv' /\ ShownInv' /\ BlankInv' /\ ToldInv'
    BY <1>1, <1>4, <2>4, <2>5, <2>6, TurnStep DEF Queue
  <2>8. Handled' = Handled
    BY <1>1, <2>5 DEF Handled, Carries, SameDb, SameCore
  <2>9. DecisionInv'
    BY <1>1, <2>1, <2>2, <2>3, <2>5, <2>6, <2>8
       DEF PipeInv, DecisionInv, Decides, Marks
  <2>10. MarkInv'
    BY <2>2, <2>4, <2>5, <2>6 DEF MarkInv, Owes, Starting, Marks, Queue
  <2> QED
    BY <2>7, <2>9, <2>10 DEF PipeInv
<1>5. CASE ~Gone /\ Step("routing")
  <2>1. /\ work' \in WorkRow /\ Carries /\ work'.at = "routing" /\ work'.todo = work.todo
        /\ work'.next = work.next /\ work'.ins = work.ins /\ work'.chg = work.chg
    BY <1>5, StepTo DEF Live
  <2>2. /\ PipeType' /\ SeesInv' /\ ShownInv' /\ BlankInv' /\ ToldInv'
        /\ Handled' = Handled /\ Pending' = {} /\ OneMark(work'.todo) /\ work'.next = "idle"
    BY <1>1, <1>5, <2>1, GoStep DEF Live
  <2>3. DecisionInv'
    BY <1>1, <2>1, <2>2 DEF PipeInv, DecisionInv
  <2>4. MarkInv'
    BY <2>1, <2>2 DEF MarkInv, Owes, Starting
  <2> QED
    BY <2>2, <2>3, <2>4 DEF PipeInv
<1> QED
  BY <1>2, <1>3, <1>4, <1>5 DEF Accept

LEMMA RouteIneligibleSafe == ASSUME PipeInv, RouteIneligible PROVE PipeInv'
<1>1. /\ work.at = "routing" /\ ReadOnly /\ Stays /\ DbType(db') /\ SameDb(db, db')
      /\ work \in WorkRow
  BY ReadsOnly DEF RouteIneligible, PipeInv, PipeType
<1>2. PICK a : a = Audit("ignore", NoTask)
  OBVIOUS
<1>3. a \in WriteRow /\ a.do = "audit" /\ a.what = "ignore"
  BY <1>2, Items DEF Routes, SomeTask
<1>4. PICK todo : todo = <<a>>
  OBVIOUS
<1>5. Queue(todo) /\ ItemsOf(todo) = {a}
  BY <1>3, <1>4, One DEF Marks, Succeeds
<1>6. /\ work' \in WorkRow /\ Carries /\ work'.at = "write" /\ work'.todo = todo
      /\ work'.next = "idle"
  BY <1>1, <1>2, <1>4, <1>5, QueueType DEF RouteIneligible
<1>7. Turns /\ Pending' = {a}
  BY <1>1, <1>5, <1>6, QueueStep DEF Live
<1>8. PipeType' /\ SeesInv' /\ ShownInv' /\ BlankInv' /\ ToldInv'
  BY <1>1, <1>3, <1>5, <1>6, <1>7, TurnStep DEF Queue, Live
<1>9. DecisionInv'
  BY <1>3, <1>6, <1>7 DEF DecisionInv, Decides, Marks, Placeholders
<1>10. MarkInv'
  BY <1>3, <1>5, <1>6, <1>7 DEF MarkInv, Owes, Starting, Marks, Queue
<1> QED
  BY <1>8, <1>9, <1>10 DEF PipeInv

(* What is at stake for the stages of a revision, decided or not.          *)
LEMMA StagesOpen ==
  ASSUME PipeInv, NEW m \in Message, NEW r \in Revision
  PROVE  /\ db.dec[m][r] \in DecisionRow
         /\ db.dec[m][r] = Undecided => \A g \in Stage : MarkOf(m, r, g) \notin Final
         /\ db.dec[m][r].route \in Placeholders => MarkOf(m, r, "task_session") \notin Final
<1>1. db.dec[m][r] \in DecisionRow
  BY DEF PipeInv, PipeType, DbType
<1> QED
  BY <1>1 DEF PipeInv, BlankInv, Blank, Final, Stage

LEMMA RouteDuplicateSafe == ASSUME PipeInv, RouteDuplicate PROVE PipeInv'
<1>1. /\ work.at = "routing" /\ ReadOnly /\ Stays /\ DbType(db') /\ SameDb(db, db')
      /\ work \in WorkRow /\ work.m \in Message /\ work.r \in Revision
  BY ReadsOnly DEF RouteDuplicate, PipeInv, PipeType, WorkInv
<1>2. CASE work' = NoWork
  BY <1>1, <1>2, OverStep DEF Live
<1>3. CASE work' # NoWork
  <2>1. PICK then : then = IF Resumes(work.m, work.r) THEN Handled
                           ELSE Decision("duplicate", NoTask)
    OBVIOUS
  <2>2. work' = [Forgetful EXCEPT !.at = "download", !.then = then]
    BY <1>3, <2>1 DEF RouteDuplicate, Handled
  <2>3. then \in DecisionRow /\ Handled \in DecisionRow
    BY <1>1, <2>1, StagesOpen DEF Handled, Decision, DecisionRow, Routes, SomeTask
  <2>4. PICK f : f = Forgetful
    OBVIOUS
  <2>5. /\ f \in WorkRow /\ f.m = work.m /\ f.s = work.s /\ f.r = work.r
        /\ f.attempt = work.attempt /\ f.todo = work.todo /\ f.next = work.next
    BY <1>1, <2>4 DEF Forgetful, WorkRow
  <2>6. /\ work' \in WorkRow /\ Carries /\ work'.at = "download" /\ work'.todo = work.todo
        /\ work'.next = work.next /\ work'.then = then
    <3>1. f \in WorkRow /\ work' = [f EXCEPT !.at = "download", !.then = then]
      BY <2>2, <2>4, <2>5
    <3>2. work' \in WorkRow
      BY ONLY <2>3, <3>1 DEF WorkRow, Live
    <3>3. /\ work'.at = "download" /\ work'.todo = f.todo /\ work'.next = f.next
          /\ work'.then = then /\ work'.m = f.m /\ work'.s = f.s /\ work'.r = f.r
          /\ work'.attempt = f.attempt
      BY ONLY <3>1 DEF WorkRow
    <3> QED
      BY <2>5, <3>2, <3>3 DEF Carries
  <2>7. /\ PipeType' /\ SeesInv' /\ ShownInv' /\ BlankInv' /\ ToldInv'
        /\ Handled' = Handled /\ Pending' = {} /\ OneMark(work'.todo) /\ work'.next = "idle"
    BY <1>1, <2>6, GoStep DEF Live
  <2>8. then = Handled \/ then.route = "duplicate"
    BY <2>1 DEF Decision
  <2>9. DecisionInv'
    BY <2>6, <2>7, <2>8, RoutesDecide DEF DecisionInv, SessionRoutes, Placeholders
  <2>10. MarkInv'
    <3> SUFFICES ASSUME NEW g \in {"task_router", "task_session"}, Owes(g)'
                 PROVE  MarkOf(work.m, work.r, g) \notin Final
      BY <1>1, <2>6, <2>7 DEF MarkInv, Carries, MarkOf, SameDb, SameCore
    <3>1. \/ then.route \in Placeholders
          \/ g = "task_session" /\ then.route \in SessionRoutes
      BY <2>6, <2>7 DEF Owes, Starting
    <3>2. then = Handled /\ Resumes(work.m, work.r)
      BY <2>1, <3>1 DEF Decision, Placeholders, SessionRoutes
    <3>3. MarkOf(work.m, work.r, StageOf(then)) \notin Final
      BY <3>2 DEF Resumes, Handled
    <3>4. CASE then.route \in Placeholders
      <4>1. StageOf(then) = "task_router"
        BY <3>4 DEF StageOf, Placeholders, SessionRoutes
      <4> QED
        BY <1>1, <3>2, <3>3, <3>4, <4>1, StagesOpen DEF Handled
    <3>5. CASE g = "task_session" /\ then.route \in SessionRoutes
      BY <3>3, <3>5 DEF StageOf
    <3> QED
      BY <3>1, <3>4, <3>5
  <2> QED
    BY <2>7, <2>9, <2>10 DEF PipeInv
<1> QED
  BY <1>2, <1>3

LEMMA FreshIs ==
  ASSUME NEW m, NEW s, db.posted[m] \in SomeTask
  PROVE  Fresh(m, s) \in DecisionRow /\ Fresh(m, s).route \in Routes
<1>1. PICK then : then = Route(db.tasks, m, s, work.src, work.chg, db.posted[m])
  OBVIOUS
<1>2. then \in [route: Routes, task: SomeTask]
  BY <1>1, RouteIs
<1>3. FreeTask \in SomeTask
  BY DEF FreeTask, SomeTask
<1>4. Fresh(m, s) = IF then.route = "new_task" THEN Decision("new_task", FreeTask) ELSE then
  BY <1>1 DEF Fresh
<1> QED
  BY <1>2, <1>3, <1>4 DEF Decision, DecisionRow, Routes, SessionRoutes

LEMMA RouteMessageSafe == ASSUME PipeInv, RouteMessage PROVE PipeInv'
<1>1. /\ work.at = "routing" /\ ReadOnly /\ Stays /\ DbType(db') /\ SameDb(db, db')
      /\ work \in WorkRow /\ work.m \in Message /\ work.r \in Revision /\ work.s \in Snapshots
  BY ReadsOnly DEF RouteMessage, PipeInv, PipeType, WorkInv, Live
<1>2. PICK then, next : /\ then = Fresh(work.m, work.s)
                        /\ next = IF Readback(work.m) THEN "idle" ELSE "download"
  OBVIOUS
<1>3. then \in DecisionRow /\ then.route \in Routes
  BY <1>1, <1>2, FreshIs DEF PipeInv, PipeType, DbType
<1>4. PICK a : a = Routed(then)
  OBVIOUS
<1>5. a \in WriteRow /\ a.do = "route" /\ a.what = then.route
  BY <1>3, <1>4, Items
<1>6. PICK todo : todo = <<a>>
  OBVIOUS
<1>7. Queue(todo) /\ ItemsOf(todo) = {a} /\ todo \in Seq(WriteRow)
  BY <1>5, <1>6, One DEF Marks, Succeeds, Queue
<1>8. PICK f : f = Forgetful
  OBVIOUS
<1>9. /\ f \in WorkRow /\ f.m = work.m /\ f.s = work.s /\ f.r = work.r
      /\ f.attempt = work.attempt
  BY <1>1, <1>8 DEF Forgetful, WorkRow
<1>10. work' = [f EXCEPT !.at = "write", !.todo = todo, !.then = then, !.next = next]
  BY <1>2, <1>4, <1>6, <1>8 DEF RouteMessage
<1>11. /\ work' \in WorkRow /\ Carries /\ work'.at = "write" /\ work'.todo = todo
       /\ work'.next = next /\ work'.then = then
  <2>1. next \in {"idle", "download"}
    BY <1>2
  <2>2. work' \in WorkRow
    BY ONLY <1>3, <1>7, <1>9, <1>10, <2>1 DEF WorkRow
  <2> QED
    BY <1>9, <1>10, <2>2 DEF WorkRow, Carries
<1>12. Turns /\ Pending' = {a}
  BY <1>1, <1>2, <1>7, <1>11, QueueStep DEF Live
<1>13. PipeType' /\ SeesInv' /\ ShownInv' /\ BlankInv' /\ ToldInv'
  BY <1>1, <1>5, <1>7, <1>11, <1>12, TurnStep DEF Queue, Live
<1>14. Handled' = Handled /\ Handled = Undecided
  <2>1. Handled' = Handled
    BY <1>1, <1>11 DEF Handled, Carries, SameDb, SameCore
  <2>2. work.ins \/ work.chg \/ Handled = Undecided
    BY DEF RouteMessage, Duplicate, Handled
  <2> QED
    BY <1>1, <2>1, <2>2 DEF PipeInv, DecisionInv
<1>15. DecisionInv'
  BY <1>2, <1>4, <1>5, <1>6, <1>11, <1>12, <1>14 DEF DecisionInv, Decides, Marks
<1>16. MarkInv'
  <2>1. OneMark(work'.todo)
    BY <1>7, <1>11 DEF Queue
  <2>2. \A g \in Stage : MarkOf(work.m, work.r, g) \notin Final
    BY <1>1, <1>14, StagesOpen DEF Handled
  <2> QED
    BY <1>1, <1>11, <2>1, <2>2 DEF MarkInv, Carries, MarkOf, SameDb, SameCore, Stage
<1> QED
  BY <1>13, <1>15, <1>16 DEF PipeInv

LEMMA ProcessSafe == ASSUME PipeInv, Process PROVE PipeInv'
<1>1. /\ work.at = "process" /\ ReadOnly /\ Stays /\ DbType(db') /\ SameDb(db, db')
      /\ work \in WorkRow
  BY ReadsOnly DEF Process, PipeInv, PipeType
<1>2. CASE work.then.route \in Placeholders
  <2>1. PICK ts : ts = RouterTargets(work.m, work.s, work.then)
    OBVIOUS
  <2>2. ts \in SUBSET ({"attach_task", "reopen_task"} \X Task)
    <3>1. PICK cs, rs : /\ cs = Candidates(db.tasks, work.m, work.s)
                        /\ rs = RelatedClosed(db.tasks, work.m, work.s)
      OBVIOUS
    <3>2. cs \subseteq Task /\ rs \subseteq Task
      BY <3>1, CandidatesAre DEF RelatedClosed
    <3>3. ts \subseteq {<<"attach_task", t>> : t \in cs} \cup {<<"reopen_task", t>> : t \in rs}
      BY <2>1, <3>1 DEF RouterTargets
    <3> QED
      BY <3>2, <3>3
  <2>3. work' = [work EXCEPT !.at = "router", !.allowed = ts]
    BY <1>2, <2>1 DEF Process, SessionRoutes, Placeholders
  <2>4. /\ work' \in WorkRow /\ Carries /\ work'.at = "router" /\ work'.todo = work.todo
        /\ work'.next = work.next
    BY <1>1, <2>2, <2>3 DEF WorkRow, Carries, Live
  <2>5. /\ PipeType' /\ SeesInv' /\ ShownInv' /\ BlankInv' /\ ToldInv'
        /\ Handled' = Handled /\ Pending' = {} /\ OneMark(work'.todo) /\ work'.next = "idle"
    BY <1>1, <2>4, GoStep DEF Live
  <2>6. DecisionInv'
    BY <1>1, <1>2, <2>4, <2>5 DEF PipeInv, DecisionInv
  <2>7. MarkInv'
    BY <1>1, <1>2, <2>4, <2>5
       DEF PipeInv, MarkInv, Owes, Starting, Carries, MarkOf, SameDb, SameCore
  <2> QED
    BY <2>5, <2>6, <2>7 DEF PipeInv
<1>3. CASE work.then.route \in SessionRoutes
  <2>1. Step("session")
    BY <1>3 DEF Process, SessionRoutes, Placeholders
  <2>2. /\ work' \in WorkRow /\ Carries /\ work'.at = "session" /\ work'.todo = work.todo
        /\ work'.next = work.next
    BY <2>1, StepTo DEF Live
  <2>3. /\ PipeType' /\ SeesInv' /\ ShownInv' /\ BlankInv' /\ ToldInv'
        /\ Handled' = Handled /\ Pending' = {} /\ OneMark(work'.todo) /\ work'.next = "idle"
    BY <1>1, <2>2, GoStep DEF Live
  <2>4. DecisionInv'
    BY <1>1, <1>3, <2>2, <2>3 DEF PipeInv, DecisionInv
  <2>5. MarkInv'
    BY <1>1, <1>3, <2>2, <2>3
       DEF PipeInv, MarkInv, Owes, Starting, Carries, MarkOf, SameDb, SameCore
  <2> QED
    BY <2>3, <2>4, <2>5 DEF PipeInv
<1>4. CASE work.then.route \notin Placeholders \cup SessionRoutes
  <2>1. Over
    BY <1>4 DEF Process
  <2> QED
    BY <1>1, <2>1, OverStep DEF Live
<1> QED
  BY <1>2, <1>3, <1>4

(* The Task Router's answer takes the message to a task.                   *)
LEMMA ToSessionSafe ==
  ASSUME PipeInv, ReadOnly, work.at = "router", NEW route \in SessionRoutes, NEW t \in SomeTask,
         NEW todo, Queue(todo), ToSession(route, t, todo), \E o \in ItemsOf(todo) : Decides(o),
         \A o \in ItemsOf(todo) :
           /\ o.do # "fence" /\ (Decides(o) => o.what \in SessionRoutes)
           /\ Marks(o) => o.what = "task_router"
  PROVE  PipeInv'
<1>1. /\ Stays /\ DbType(db') /\ SameDb(db, db') /\ work \in WorkRow /\ work.s \in Snapshots
      /\ todo \in Seq(WriteRow)
  BY ReadsOnly DEF PipeInv, PipeType, WorkInv, Live, Queue
<1>2. PICK then : then = Decision(route, t)
  OBVIOUS
<1>3. then \in DecisionRow
  BY <1>2 DEF Decision, DecisionRow, Routes
<1>4. work' = [work EXCEPT !.at = "write", !.todo = todo, !.next = "session", !.then = then]
  BY <1>2 DEF ToSession
<1>5. /\ work' \in WorkRow /\ Carries /\ work'.at = "write" /\ work'.todo = todo
      /\ work'.next = "session"
  BY <1>1, <1>3, <1>4 DEF WorkRow, Carries
<1>6. Turns /\ Pending' = ItemsOf(todo)
  BY <1>1, <1>5, QueueStep DEF Live
<1>7. PipeType' /\ SeesInv' /\ ShownInv' /\ BlankInv' /\ ToldInv'
  BY <1>5, <1>6, TurnStep DEF Queue, Live
<1>8. DecisionInv'
  <2>1. Handled' = Handled /\ Handled # Undecided
    BY <1>1, <1>5 DEF PipeInv, DecisionInv, Handled, Carries, SameDb, SameCore
  <2> QED
    BY <1>5, <1>6, <2>1 DEF DecisionInv, SessionRoutes, Placeholders
<1>9. MarkInv'
  <2>1. OneMark(work'.todo)
    BY <1>5 DEF Queue
  <2> QED
    BY <1>1, <1>5, <2>1 DEF PipeInv, MarkInv, Owes, Carries, MarkOf, SameDb, SameCore
<1> QED
  BY <1>7, <1>8, <1>9 DEF PipeInv

LEMMA RouterMarks ==
  ASSUME NEW t \in SomeTask, NEW c, c = RouterDone(t)
  PROVE  c \in WriteRow /\ c.do = "mark" /\ c.what = "task_router" /\ c.status = "processed"
BY Items DEF RouterDone, Stage, Final

LEMMA RouterOpensSafe == ASSUME PipeInv, RouterOpens PROVE PipeInv'
<1>1. PICK t, a, c : t = FreeTask /\ a = Open(t) /\ c = RouterDone(t)
  OBVIOUS
<1>2. t \in SomeTask
  BY <1>1 DEF FreeTask, SomeTask
<1>3. /\ a \in WriteRow /\ a.do = "route" /\ a.what = "new_task"
      /\ c \in WriteRow /\ c.do = "mark" /\ c.what = "task_router" /\ c.status = "processed"
  BY <1>1, <1>2, Items, RouterMarks
<1>4. PICK todo : todo = <<a, c>>
  OBVIOUS
<1>5. Queue(todo) /\ ItemsOf(todo) = {a, c}
  BY <1>3, <1>4, Two DEF Marks, Succeeds
<1>6. ReadOnly /\ work.at = "router" /\ ToSession("new_task", t, todo)
  BY <1>1, <1>4 DEF RouterOpens
<1> QED
  BY <1>2, <1>3, <1>5, <1>6, ToSessionSafe DEF Marks, Decides, SessionRoutes

LEMMA RouterAttachesSafe ==
  ASSUME PipeInv, NEW t \in Task, RouterAttaches(t) PROVE PipeInv'
<1>1. PICK a, b, c : a = Attach(t) /\ b = Audit("attach_task", t) /\ c = RouterDone(t)
  OBVIOUS
<1>2. t \in SomeTask
  BY DEF SomeTask
<1>3. /\ a \in WriteRow /\ a.do = "attach" /\ b \in WriteRow /\ b.do = "audit"
      /\ b.what = "attach_task"
      /\ c \in WriteRow /\ c.do = "mark" /\ c.what = "task_router" /\ c.status = "processed"
  BY <1>1, <1>2, Items, RouterMarks DEF Routes, SessionRoutes
<1>4. PICK todo : todo = <<a, b, c>>
  OBVIOUS
<1>5. Queue(todo) /\ ItemsOf(todo) = {a, b, c}
  BY <1>3, <1>4, Three DEF Marks, Succeeds
<1>6. ReadOnly /\ work.at = "router" /\ ToSession("attach_task", t, todo)
  BY <1>1, <1>4 DEF RouterAttaches
<1> QED
  BY <1>2, <1>3, <1>5, <1>6, ToSessionSafe DEF Marks, Decides, SessionRoutes

LEMMA RouterReopensSafe ==
  ASSUME PipeInv, NEW t \in Task, RouterReopens(t) PROVE PipeInv'
<1>1. PICK a, b, d, c : /\ a = Attach(t) /\ b = Audit("reopen_task", t)
                        /\ d = SetTask(t, "watching") /\ c = RouterDone(t)
  OBVIOUS
<1>2. t \in SomeTask
  BY DEF SomeTask
<1>3. /\ a \in WriteRow /\ a.do = "attach" /\ b \in WriteRow /\ b.do = "audit"
      /\ b.what = "reopen_task" /\ d \in WriteRow /\ d.do = "task"
      /\ c \in WriteRow /\ c.do = "mark" /\ c.what = "task_router" /\ c.status = "processed"
  BY <1>1, <1>2, Items, RouterMarks DEF Routes, SessionRoutes
<1>4. PICK todo : todo = <<a, b, d, c>>
  OBVIOUS
<1>5. Queue(todo) /\ ItemsOf(todo) = {a, b, d, c}
  BY <1>3, <1>4, Four DEF Marks, Succeeds
<1>6. ReadOnly /\ work.at = "router" /\ ToSession("reopen_task", t, todo)
  BY <1>1, <1>4 DEF RouterReopens
<1> QED
  BY <1>2, <1>3, <1>5, <1>6, ToSessionSafe DEF Marks, Decides, SessionRoutes

-------------------------------------------------------------------------------
(* The commit of one queued write.                                         *)

DecidedNow(o, m, r) == m = work.m /\ r = work.r /\ Decides(o)
CommitDb(o) ==
  /\ DbType(db') /\ db'.row = db.row
  /\ \A m \in Message, r \in Revision :
       /\ db'.dec[m][r] = IF DecidedNow(o, m, r) THEN Decision(o.what, o.task) ELSE db.dec[m][r]
       /\ db'.asked[m][r] = db.asked[m][r] \/ DecidedNow(o, m, r)
       /\ db'.made[m][r] = db.made[m][r] \/ (o.do = "draft" /\ m = work.m /\ r = work.r)
       /\ db'.made[m][r] \in db.made[m][r]..(db.made[m][r] + 1)
  /\ \A m \in Message, r \in Revision, g \in Stage :
       MarkOf(m, r, g)' = IF m = work.m /\ r = work.r /\ g = o.what /\ Marks(o) THEN o.status
                          ELSE MarkOf(m, r, g)
  /\ o.do # "fence" => db.told \subseteq db'.told
  /\ o.do = "fence" => db'.told = {n \in db.told : n[1] # work.m \/ n[2] = work.r}
  /\ o.do = "tell" => <<work.m, work.r, o.what>> \in db'.told
  /\ Decides(o) => o.what \in Routes
  /\ Marks(o) => o.what \in Stage /\ o.status \in Final

LEMMA CommitStore ==
  ASSUME DbType(db), work.m \in Message, work.r \in Revision, NEW o \in WriteRow,
         db' = After(db, work, o)
  PROVE  CommitDb(o)
<1>1. \A m \in Message, r \in Revision : db.made[m][r] \in Nat
  BY DEF DbType
<1>2. CASE o.do = "mark"
  <2>1. /\ DbType(db') /\ Marked(db, work, o, db') /\ o.what \in Stage /\ o.status \in Final
        /\ db'.row = db.row /\ db'.dec = db.dec /\ db'.asked = db.asked /\ db'.told = db.told
        /\ db'.made = db.made
    BY <1>2, AfterMark
  <2> QED
    BY <1>1, <1>2, <2>1 DEF CommitDb, DecidedNow, Decides, Marks, Marked, MarkOf
<1>3. CASE Decides(o)
  <2>1. /\ DbType(db') /\ DecidesAs(db, work, o, db') /\ o.what \in Routes
        /\ db'.row = db.row /\ db'.mark = db.mark /\ db'.told = db.told /\ db'.made = db.made
    BY <1>3, AfterRuling
  <2> QED
    BY <1>1, <1>3, <2>1 DEF CommitDb, DecidedNow, Decides, Marks, DecidesAs, MarkOf
<1>4. CASE o.do = "fence"
  <2>1. /\ DbType(db') /\ SameCore(db, db')
        /\ db'.told = {n \in db.told : n[1] # work.m \/ n[2] = work.r}
    BY <1>4, AfterFence
  <2> QED
    BY <1>1, <1>4, <2>1 DEF CommitDb, DecidedNow, Decides, Marks, SameCore, MarkOf
<1>5. CASE o.do = "tell"
  <2>1. /\ DbType(db') /\ SameCore(db, db')
        /\ db'.told = db.told \cup {<<work.m, work.r, o.what>>}
    BY <1>5, AfterTell
  <2> QED
    BY <1>1, <1>5, <2>1 DEF CommitDb, DecidedNow, Decides, Marks, SameCore, MarkOf
<1>6. CASE o.do = "draft"
  <2>1. o.task \in SomeTask
    BY <1>6 DEF WriteRow, Markings, Rulings, Others
  <2>2. /\ DbType(db') /\ db'.row = db.row /\ db'.dec = db.dec /\ db'.asked = db.asked
        /\ db'.mark = db.mark /\ db'.told = db.told
        /\ \A m \in Message, r \in Revision :
             db'.made[m][r] \in
               db.made[m][r]..(db.made[m][r] + IF m = work.m /\ r = work.r THEN 1 ELSE 0)
    BY <1>6, <2>1, AfterDraft
  <2>3. \A m \in Message, r \in Revision :
          /\ db'.made[m][r] = db.made[m][r] \/ (m = work.m /\ r = work.r)
          /\ db'.made[m][r] \in db.made[m][r]..(db.made[m][r] + 1)
    <3> SUFFICES ASSUME NEW m \in Message, NEW r \in Revision
                 PROVE  /\ db'.made[m][r] = db.made[m][r] \/ (m = work.m /\ r = work.r)
                        /\ db'.made[m][r] \in db.made[m][r]..(db.made[m][r] + 1)
      OBVIOUS
    <3>1. CASE m = work.m /\ r = work.r
      BY <1>1, <2>2, <3>1
    <3>2. CASE ~(m = work.m /\ r = work.r)
      <4>1. db'.made[m][r] \in db.made[m][r]..(db.made[m][r] + 0) /\ db.made[m][r] \in Nat
        BY <1>1, <2>2, <3>2
      <4> QED
        BY <4>1
    <3> QED
      BY <3>1, <3>2
  <2> QED
    BY <1>6, <2>2, <2>3 DEF CommitDb, DecidedNow, Decides, Marks, MarkOf
<1>7. CASE o.do \in {"attach", "task", "escalate", "hang"}
  <2>1. DbType(db') /\ SameCore(db, db') /\ db.told \subseteq db'.told
    BY <1>7, AfterOther
  <2> QED
    BY <1>1, <1>7, <2>1 DEF CommitDb, DecidedNow, Decides, Marks, SameCore, MarkOf
<1>8. o.do \in {"mark", "audit", "route", "tell", "attach", "task", "draft", "escalate", "fence", "hang"}
  BY DEF WriteRow, Markings, Rulings, Others
<1> QED
  BY <1>2, <1>3, <1>4, <1>5, <1>6, <1>7, <1>8 DEF Decides

(* What a commit leaves of the queue, and where the handler is then.       *)
Commits(o) ==
  /\ Pending = {o} \cup Pending' /\ o \in WriteRow
  /\ work' \in WorkRow /\ WorkInv(work') /\ OneMark(work'.todo) /\ Announced(work'.todo)
  /\ work.todo = <<>> => FALSE
  /\ Marks(o) => \A p \in Pending' : ~Marks(p)
  /\ Marks(o) /\ o.status # "processed" => Tell(o.what) \in Pending'
  /\ \/ /\ work'.at = "write" /\ Carries /\ work'.next = work.next
        /\ Len(work.todo) > 1 /\ work'.then = work.then
     \/ /\ work'.at \in {"routing", "download", "session", "finish"} /\ work'.at = work.next
        /\ Carries /\ work'.next = "idle" /\ Pending' = {} /\ work'.then = work.then
        /\ work'.ins = work.ins /\ work'.chg = work.chg
     \/ work' = NoWork /\ Pending' = {}

LEMMA CommitWork ==
  ASSUME PipeInv, Commit
  PROVE  /\ Commits(Head(work.todo)) /\ db' = After(db, work, Head(work.todo))
         /\ Queue(work.todo) /\ (work' = NoWork \/ work'.todo = Tail(work.todo))
<1>1. /\ work \in WorkRow /\ WorkInv(work) /\ work.at = "write" /\ work.todo # <<>>
  BY DEF PipeInv, PipeType, WorkInv, Commit
<1>2. Queue(work.todo)
  BY <1>1 DEF PipeInv, MarkInv, ToldInv, Queue, WorkRow
<1>3. PICK q : q = work.todo
  OBVIOUS
<1>4. PICK o, u : o = Head(q) /\ u = Tail(q)
  OBVIOUS
<1>5. /\ o \in WriteRow /\ u \in Seq(WriteRow) /\ OneMark(u) /\ Announced(u)
      /\ ItemsOf(q) = {o} \cup ItemsOf(u)
      /\ Marks(o) => \A p \in ItemsOf(u) : ~Marks(p)
      /\ Marks(o) /\ o.status # "processed" => Tell(o.what) \in ItemsOf(u)
      /\ (Len(q) > 1 <=> u # <<>>)
  BY <1>2, <1>3, <1>4, TailOf
<1>6. Pending = ItemsOf(q)
  BY <1>3 DEF Pending, ItemsOf
<1>7. db' = After(db, work, o)
  BY <1>3, <1>4 DEF Commit
<1>8. /\ work.m \in Message /\ work.r \in Revision
      /\ work.next \in {"idle", "routing", "download", "session", "finish"}
      /\ work.next \in Live => work.s \in Snapshots
  BY <1>1 DEF WorkInv, WorkRow
<1>9. CASE Len(q) > 1
  <2>1. work' = [work EXCEPT !.todo = u]
    BY <1>3, <1>4, <1>9 DEF Commit
  <2>2. /\ work' \in WorkRow /\ work'.at = "write" /\ work'.todo = u /\ Carries
        /\ work'.next = work.next /\ work'.then = work.then
    BY <1>1, <1>5, <2>1 DEF WorkRow, Carries
  <2>3. WorkInv(work')
    BY <1>1, <1>3, <1>5, <1>8, <1>9, <2>2 DEF WorkInv, Carries, Live
  <2>4. Pending' = ItemsOf(u)
    BY <2>2 DEF Pending, ItemsOf
  <2>5. Commits(o)
    BY <1>1, <1>3, <1>5, <1>6, <1>9, <2>2, <2>3, <2>4 DEF Commits
  <2> QED
    BY <1>2, <1>3, <1>4, <1>7, <2>2, <2>5
<1>10. CASE ~(Len(q) > 1)
  <2>1. u = <<>> /\ ItemsOf(u) = {}
    BY <1>5, <1>10 DEF ItemsOf
  <2>2. CASE work.next = "idle"
    <3>1. work' = NoWork
      BY <1>3, <1>10, <2>2 DEF Commit
    <3>2. /\ NoWork \in WorkRow /\ WorkInv(NoWork) /\ NoWork.todo = <<>>
      BY DEF NoWork, WorkRow, WorkInv, Live, Undecided, Decision, DecisionRow, SomeTask
    <3>3. Pending' = {} /\ OneMark(work'.todo) /\ Announced(work'.todo)
      BY <3>1, <3>2 DEF Pending, OneMark, Announced
    <3>4. Commits(o)
      BY <1>1, <1>5, <1>6, <2>1, <3>1, <3>2, <3>3 DEF Commits
    <3> QED
      BY <1>2, <1>3, <1>4, <1>7, <3>1, <3>4
  <2>3. CASE work.next # "idle"
    <3>1. work' = [work EXCEPT !.at = work.next, !.todo = <<>>, !.next = "idle"]
      BY <1>3, <1>10, <2>3 DEF Commit
    <3>2. PICK next : next = work.next
      OBVIOUS
    <3>3. work' = [work EXCEPT !.at = next, !.todo = <<>>, !.next = "idle"]
      BY <3>1, <3>2
    <3>4. /\ work' \in WorkRow /\ work'.at = next /\ work'.todo = <<>> /\ Carries
          /\ work'.next = "idle" /\ work'.then = work.then
          /\ work'.ins = work.ins /\ work'.chg = work.chg
      <4>1. next \in {"routing", "download", "session", "finish"} /\ <<>> \in Seq(WriteRow)
        BY <1>8, <2>3, <3>2
      <4>2. work' \in WorkRow
        BY ONLY <1>1, <3>3, <4>1 DEF WorkRow, Live
      <4>3. /\ work'.at = next /\ work'.todo = <<>> /\ work'.next = "idle"
            /\ work'.then = work.then /\ work'.ins = work.ins /\ work'.chg = work.chg
            /\ work'.m = work.m /\ work'.s = work.s /\ work'.r = work.r
            /\ work'.attempt = work.attempt
        BY ONLY <1>1, <3>3 DEF WorkRow
      <4> QED
        BY <4>2, <4>3 DEF Carries
    <3>5. /\ next = "routing" => work.attempt = NoKey
          /\ next = "finish" => work.attempt # NoKey
      BY <1>1, <3>2 DEF WorkInv
    <3>6. WorkInv(work')
      BY <1>8, <2>3, <3>2, <3>4, <3>5 DEF WorkInv, Carries, Live
    <3>7. Pending' = {} /\ OneMark(work'.todo) /\ Announced(work'.todo)
      BY <3>4 DEF Pending, OneMark, Announced
    <3>8. Commits(o)
      BY <1>1, <1>5, <1>6, <1>8, <2>1, <2>3, <3>2, <3>4, <3>6, <3>7 DEF Commits
    <3> QED
      BY <1>2, <1>3, <1>4, <1>7, <2>1, <3>4, <3>8
  <2> QED
    BY <2>2, <2>3
<1> QED
  BY <1>9, <1>10

LEMMA CommitSafe == ASSUME PipeInv, Commit PROVE PipeInv'
<1>1. PICK o : Commits(o) /\ db' = After(db, work, o)
  BY CommitWork
<1>2. /\ work.m \in Message /\ work.r \in Revision /\ DbType(db) /\ work.at = "write"
      /\ work.r <= db.row[work.m].rev /\ o \in Pending
  BY <1>1 DEF PipeInv, PipeType, WorkInv, SeesInv, Commit, Commits
<1>3. CommitDb(o)
  BY <1>1, <1>2, CommitStore DEF Commits
<1>4. UNCHANGED <<cast, shown, retry, faults, ends>>
  BY DEF Commit
<1>5. PipeType'
  BY <1>1, <1>3, <1>4 DEF PipeInv, PipeType, RetryInv, WorkInv, Commits, CommitDb
<1>6. NoWork.at = "idle" /\ NoWork.next = "idle" /\ NoWork.todo = <<>>
  BY DEF NoWork
<1>7. Pending' \subseteq Pending
  BY <1>1 DEF Commits
<1>8. SeesInv'
  BY <1>1, <1>2, <1>3, <1>6, <1>7
     DEF PipeInv, SeesInv, Holds, Commits, CommitDb, Carries, Live
<1>9. ShownInv'
  BY <1>1, <1>3, <1>4, <1>6 DEF PipeInv, ShownInv, Commits, CommitDb
<1>10. /\ Marks(o) \/ o.do = "draft" => Handled # Undecided
       /\ Decides(o) => Decision(o.what, o.task) # Undecided
       /\ Decides(o) => o.what \in Routes /\ ~Marks(o)
  BY <1>2, <1>3
     DEF PipeInv, DecisionInv, CommitDb, Undecided, Decision, Routes, SessionRoutes,
         Placeholders, Decides, Marks
<1>11. BlankInv'
  <2> SUFFICES ASSUME NEW m \in Message, NEW r \in Revision
               PROVE  /\ r > db'.row[m].rev => db'.dec[m][r] = Undecided
                      /\ db'.dec[m][r] = Undecided => Blank(m, r)'
                      /\ db'.dec[m][r].route \in Placeholders =>
                           \A g \in Stage \ {"task_router"} : MarkOf(m, r, g)' = "none"
    BY DEF BlankInv
  <2>1. /\ r > db.row[m].rev => db.dec[m][r] = Undecided
        /\ db.dec[m][r] = Undecided => Blank(m, r)
        /\ db.dec[m][r].route \in Placeholders =>
             \A g \in Stage \ {"task_router"} : MarkOf(m, r, g) = "none"
    BY DEF PipeInv, BlankInv
  <2>2. CASE ~(m = work.m /\ r = work.r)
    BY <1>3, <2>1, <2>2 DEF CommitDb, DecidedNow, Blank
  <2>3. CASE m = work.m /\ r = work.r
    <3>1. ~(r > db'.row[m].rev)
      <4>1. db'.row = db.row /\ r <= db.row[m].rev
        BY <1>2, <1>3, <2>3 DEF CommitDb
      <4>2. r \in Nat /\ db.row[m].rev \in Nat
        BY <1>2, ScriptAssumption DEF DbType, StoredRow, Revision
      <4> QED
        BY <4>1, <4>2
    <3>2. db.dec[m][r] = Handled
      BY <2>3 DEF Handled
    <3>3. CASE Decides(o)
      <4>1. db'.dec[m][r] = Decision(o.what, o.task) /\ db'.dec[m][r] # Undecided
        BY <1>3, <1>10, <2>3, <3>3 DEF CommitDb, DecidedNow
      <4>2. db'.dec[m][r].route \in Placeholders => Handled = Undecided
        BY <1>2, <3>3, <4>1 DEF PipeInv, DecisionInv, Decision
      <4>3. \A g \in Stage : MarkOf(m, r, g)' = MarkOf(m, r, g)
        BY <1>3, <1>10, <3>3 DEF CommitDb
      <4> QED
        BY <2>1, <3>1, <3>2, <4>1, <4>2, <4>3 DEF Blank
    <3>4. CASE ~Decides(o)
      <4>1. db'.dec[m][r] = Handled
        BY <1>3, <3>2, <3>4 DEF CommitDb, DecidedNow
      <4>2. CASE Marks(o) \/ o.do = "draft"
        <5>1. Handled # Undecided
          BY <1>10, <4>2
        <5>2. ASSUME Handled.route \in Placeholders, NEW g \in Stage \ {"task_router"}
              PROVE  MarkOf(m, r, g)' = "none"
          <6>1. ~(Marks(o) /\ o.what # "task_router")
            BY <1>2, <5>2 DEF PipeInv, DecisionInv, SessionRoutes, Placeholders
          <6>2. MarkOf(m, r, g)' = MarkOf(m, r, g)
            BY <1>3, <6>1 DEF CommitDb
          <6> QED
            BY <2>1, <3>2, <5>2, <6>2
        <5> QED
          BY <3>1, <4>1, <5>1, <5>2
      <4>3. CASE ~Marks(o) /\ o.do # "draft"
        <5>1. /\ \A g \in Stage : MarkOf(m, r, g)' = MarkOf(m, r, g)
              /\ db'.made[m][r] = db.made[m][r] /\ db'.asked[m][r] = db.asked[m][r]
          BY <1>3, <3>4, <4>3 DEF CommitDb, DecidedNow
        <5> QED
          BY <2>1, <3>1, <3>2, <4>1, <5>1 DEF Blank
      <4> QED
        BY <4>2, <4>3
    <3> QED
      BY <3>3, <3>4
  <2> QED
    BY <2>2, <2>3
<1>12. DecisionInv'
  <2>1. CASE work' = NoWork /\ Pending' = {}
    BY <1>6, <2>1 DEF DecisionInv
  <2>2. ASSUME Carries
        PROVE  /\ Handled' = IF Decides(o) THEN Decision(o.what, o.task) ELSE Handled
               /\ Decides(o) => Handled'.route = o.what /\ Handled' # Undecided
    BY <1>2, <1>3, <1>10, <2>2 DEF CommitDb, DecidedNow, Handled, Carries, Decision
  <2>3. CASE /\ work'.at = "write" /\ Carries /\ work'.next = work.next
             /\ Len(work.todo) > 1 /\ work'.then = work.then
    <3>0. PICK n : n = Len(work.todo) /\ n > 1 /\ n # 1
      <4>1. Len(work.todo) \in Nat
        BY DEF PipeInv, PipeType, WorkRow
      <4> QED
        BY <2>3, <4>1
    <3>1. work.next \notin {"routing", "download"}
      <4>1. \A a : Len(<<a>>) = 1
        OBVIOUS
      <4>2. work.todo # <<Fence>> /\ work.todo # <<Routed(work.then)>>
        BY <3>0, <4>1
      <4> QED
        BY <4>2 DEF PipeInv, DecisionInv
    <3>2. ASSUME NEW p \in Pending', Marks(p) \/ p.do = "draft" PROVE Handled' # Undecided
      BY <1>7, <2>2, <2>3, <3>2 DEF PipeInv, DecisionInv
    <3>3. ASSUME work.next = "session"
          PROVE  Handled'.route \in SessionRoutes \/ \E p \in Pending' : Decides(p)
      BY <1>1, <1>2, <2>2, <2>3, <3>3 DEF PipeInv, DecisionInv, Commits
    <3>4. ASSUME NEW p \in Pending', Decides(p)
          PROVE  /\ p.what \notin Placeholders
                 /\ work.next = "session" => p.what \in SessionRoutes
      BY <1>7, <3>0, <3>4 DEF PipeInv, DecisionInv
    <3>5. ASSUME NEW p \in Pending', Marks(p), p.what # "task_router"
          PROVE  /\ Handled'.route \in SessionRoutes /\ \A q \in Pending' : ~Decides(q)
                 /\ work.next \notin {"session", "routing", "download"}
      BY <1>2, <1>7, <2>2, <2>3, <3>5 DEF PipeInv, DecisionInv
    <3> QED
      BY <2>3, <3>1, <3>2, <3>3, <3>4, <3>5 DEF DecisionInv
  <2>4. CASE /\ work'.at \in {"routing", "download", "session", "finish"} /\ work'.at = work.next
             /\ Carries /\ work'.next = "idle" /\ Pending' = {} /\ work'.then = work.then
             /\ work'.ins = work.ins /\ work'.chg = work.chg
    <3>1. CASE work.next = "routing"
      <4>1. work.todo = <<Fence>>
        BY <3>1 DEF PipeInv, DecisionInv
      <4>2. ~Decides(o)
        BY <1>2, <4>1 DEF Pending, Fence, Write, Decides
      <4>3. Handled' = Handled /\ (work.ins \/ work.chg => Handled = Undecided)
        BY <2>2, <2>4, <3>1, <4>2 DEF PipeInv, DecisionInv
      <4> QED
        BY <2>4, <3>1, <4>3 DEF DecisionInv
    <3>2. CASE work.next = "download"
      <4>1. work.todo = <<Routed(work.then)>>
        BY <3>2 DEF PipeInv, DecisionInv
      <4>2. Decides(o) /\ o.what = work.then.route
        BY <1>2, <4>1 DEF Pending, Routed, Write, Decides
      <4>3. Handled'.route = work.then.route /\ Handled' # Undecided
        BY <2>2, <2>4, <4>2
      <4> QED
        BY <2>4, <3>2, <4>3 DEF DecisionInv
    <3>3. CASE work.next = "session"
      <4>1. Pending = {o}
        BY <1>1, <2>4 DEF Commits
      <4>2. Handled'.route \in SessionRoutes
        <5>1. CASE Decides(o)
          BY <2>2, <2>4, <3>3, <4>1, <5>1 DEF PipeInv, DecisionInv
        <5>2. CASE ~Decides(o)
          BY <2>2, <2>4, <3>3, <4>1, <5>2 DEF PipeInv, DecisionInv
        <5> QED
          BY <5>1, <5>2
      <4> QED
        BY <2>4, <3>3, <4>2 DEF DecisionInv
    <3>4. CASE work.next = "finish"
      BY <2>4, <3>4 DEF DecisionInv
    <3> QED
      BY <2>4, <3>1, <3>2, <3>3, <3>4
  <2> QED
    BY <1>1, <2>1, <2>3, <2>4 DEF Commits
<1>13. MarkInv'
  <2>1. OneMark(work'.todo)
    BY <1>1 DEF Commits
  <2>2. ASSUME work'.attempt = NoKey, NEW g \in {"task_router", "task_session"}, Owes(g)'
        PROVE  MarkOf(work.m, work.r, g)' \notin Final
    <3>1. work' # NoWork
      BY <1>6, <2>2 DEF Owes, Starting, NoWork, Pending
    <3>2. Carries
      BY <1>1, <3>1 DEF Commits
    <3>3. Owes(g)
      BY <1>1, <1>7, <2>2, <3>1 DEF Owes, Starting, Commits
    <3>4. MarkOf(work.m, work.r, g) \notin Final
      BY <2>2, <3>2, <3>3 DEF PipeInv, MarkInv, Carries
    <3>5. ~(Marks(o) /\ o.what = g)
      <4> SUFFICES ASSUME Marks(o), o.what = g PROVE FALSE
        OBVIOUS
      <4>1. \A p \in Pending' : ~Marks(p)
        BY <1>1 DEF Commits
      <4>2. /\ work.next # "download"
            /\ g = "task_session" => work.next # "session"
        BY <1>2 DEF PipeInv, DecisionInv, Pending, Routed, Write, Marks
      <4> QED
        BY <1>1, <2>2, <3>1, <4>1, <4>2, <1>2 DEF Owes, Starting, Commits
    <3>6. g \in Stage
      BY DEF Stage
    <3> QED
      <4>1. PICK m, r : m = work.m /\ r = work.r
        OBVIOUS
      <4>2. MarkOf(m, r, g)' = MarkOf(m, r, g)
        BY <1>2, <1>3, <3>5, <3>6, <4>1 DEF CommitDb
      <4>3. MarkOf(work.m, work.r, g)' = MarkOf(m, r, g)'
        BY <3>2, <4>1 DEF Carries, MarkOf
      <4> QED
        BY <3>4, <4>1, <4>2, <4>3
  <2> QED
    BY <2>1, <2>2 DEF MarkInv
<1>14. ToldInv'
  <2>1. Announced(work'.todo)
    BY <1>1 DEF Commits
  <2>2. ASSUME faults' = 0, NEW m \in Message, NEW g \in Stage, NEW r, r = db.row[m].rev,
               r > 0, ~db.row[m].gone, MarkOf(m, r, g)' \in {"failed", "blocked"}
        PROVE  <<m, r, g>> \in db'.told \/ (work'.m = m /\ work'.r = r /\ Tell(g) \in Pending')
    <3>1. r \in Revision
      BY <1>2, <2>2, ScriptAssumption DEF DbType, StoredRow, Revision
    <3>2. CASE m = work.m /\ r = work.r /\ g = o.what /\ Marks(o)
      <4>1. o.status # "processed"
        BY <1>3, <2>2, <3>1, <3>2 DEF CommitDb
      <4>2. Tell(g) \in Pending'
        BY <1>1, <3>2, <4>1 DEF Commits
      <4>3. Carries
        BY <1>1, <4>2 DEF Commits
      <4> QED
        BY <3>2, <4>2, <4>3 DEF Carries
    <3>3. CASE ~(m = work.m /\ r = work.r /\ g = o.what /\ Marks(o))
      <4>1. MarkOf(m, r, g) \in {"failed", "blocked"}
        BY <1>3, <2>2, <3>1, <3>3 DEF CommitDb
      <4>2. <<m, r, g>> \in db.told \/ (work.m = m /\ work.r = r /\ Tell(g) \in Pending)
        BY <1>4, <2>2, <4>1 DEF PipeInv, ToldInv
      <4>3. CASE <<m, r, g>> \in db.told
        <5>1. CASE o.do = "fence"
          BY <1>2, <1>3, <2>2, <4>3, <5>1 DEF PipeInv, SeesInv, CommitDb
        <5>2. CASE o.do # "fence"
          BY <1>3, <4>3, <5>2 DEF CommitDb
        <5> QED
          BY <5>1, <5>2
      <4>4. CASE work.m = m /\ work.r = r /\ Tell(g) \in Pending
        <5>1. CASE Tell(g) = o
          BY <1>3, <4>4, <5>1 DEF CommitDb, Tell, Write
        <5>2. CASE Tell(g) \in Pending'
          BY <1>1, <4>4, <5>2 DEF Commits, Carries
        <5> QED
          BY <1>1, <4>4, <5>1, <5>2 DEF Commits
      <4> QED
        BY <4>2, <4>3, <4>4
    <3> QED
      BY <3>2, <3>3
  <2>3. db'.row = db.row
    BY <1>3 DEF CommitDb
  <2> QED
    BY <2>1, <2>2, <2>3 DEF ToldInv
<1> QED
  BY <1>5, <1>8, <1>9, <1>11, <1>12, <1>13, <1>14 DEF PipeInv

-------------------------------------------------------------------------------
(* The upsert of a polled snapshot.                                        *)

LEMMA UpsertIs ==
  ASSUME NEW row \in StoredRow, row.rev = 0 => row.seen = {}, NEW s \in Snapshots,
         NEW dead \in BOOLEAN, NEW confirmed \in BOOLEAN,
         NEW u, u = Stored!Upsert(row, s, dead, confirmed), u.row.rev <= MaxRevision
  PROVE  /\ u.row \in StoredRow /\ u.row.rev \in Revision /\ row.rev <= u.row.rev
         /\ u.inserted \in BOOLEAN /\ u.changed \in BOOLEAN /\ u.unsure \in BOOLEAN
         /\ u.inserted \/ u.changed => row.rev < u.row.rev
         /\ u.unsure => ~confirmed
         /\ ~u.unsure => u.row.gone \/ u.row.hash = s
         /\ u.row.hash = s \/ (u.row.hash = row.hash /\ row.rev > 0)
         /\ row.gone /\ row.rev > 0 => u.row.gone
         /\ u.row.hash # row.hash /\ u.row.hash \in row.seen => confirmed /\ u.row.hash = s
<1>1. row.rev \in Nat /\ MaxRevision \in Nat
  BY ScriptAssumption DEF StoredRow
<1>2. CASE row.rev = 0
  <2>1. u = [row |-> [rev |-> 1, hash |-> s, seen |-> {s}, gone |-> dead],
             inserted |-> TRUE, changed |-> TRUE, unsure |-> FALSE]
    BY <1>2 DEF Stored!Upsert, Stored!Inserts, Stored!Upserted
  <2>2. PICK new : new = [rev |-> 1, hash |-> s, seen |-> {s}, gone |-> dead]
    OBVIOUS
  <2>3. new \in StoredRow /\ new.rev = 1 /\ new.hash = s
    BY <1>1, <2>1, <2>2 DEF StoredRow
  <2> QED
    BY <1>1, <1>2, <2>1, <2>2, <2>3 DEF Revision
<1>3. CASE u.row = row /\ ~u.inserted /\ ~u.changed /\ row.rev > 0
             /\ u.inserted \in BOOLEAN /\ u.changed \in BOOLEAN /\ u.unsure \in BOOLEAN
             /\ (u.unsure => ~confirmed) /\ (~u.unsure => row.gone \/ row.hash = s)
  BY <1>1, <1>3 DEF Revision
<1>4. CASE row.rev > 0 /\ row.gone
  <2>1. u = [row |-> row, inserted |-> FALSE, changed |-> FALSE, unsure |-> FALSE]
    BY <1>4 DEF Stored!Upsert, Stored!Kept, Stored!Upserted
  <2> QED
    BY <1>3, <1>4, <2>1
<1>5. CASE row.rev > 0 /\ ~row.gone /\ s \in row.seen /\ ~confirmed
  <2>1. u = [[row |-> row, inserted |-> FALSE, changed |-> FALSE, unsure |-> FALSE]
               EXCEPT !.unsure = s # row.hash]
    BY <1>5 DEF Stored!Upsert, Stored!Kept, Stored!Upserted, Stored!IsReplay
  <2> QED
    BY <1>3, <1>5, <2>1
<1>6. CASE row.rev > 0 /\ ~row.gone /\ ~(s \in row.seen /\ ~confirmed) /\ s = row.hash /\ ~dead
  <2>1. u = [row |-> row, inserted |-> FALSE, changed |-> FALSE, unsure |-> FALSE]
    BY <1>6 DEF Stored!Upsert, Stored!Kept, Stored!Upserted, Stored!IsReplay
  <2>2. u.row = row /\ u.inserted = FALSE /\ u.changed = FALSE /\ u.unsure = FALSE
    BY <2>1
  <2> QED
    BY <1>3, <1>6, <2>2
<1>7. CASE row.rev > 0 /\ ~row.gone /\ ~(s \in row.seen /\ ~confirmed) /\ ~(s = row.hash /\ ~dead)
  <2>1. PICK same \in BOOLEAN : same = Stored!Stamps(row, dead)
    BY DEF Stored!Stamps
  <2>2. PICK n : n = IF same THEN row.rev ELSE row.rev + 1
    OBVIOUS
  <2>3. PICK new : new = [rev |-> n, hash |-> s, seen |-> row.seen \cup {s}, gone |-> dead]
    OBVIOUS
  <2>4. u = [row |-> new, inserted |-> FALSE, changed |-> ~same, unsure |-> FALSE]
    BY <1>7, <2>1, <2>2, <2>3
       DEF Stored!Upsert, Stored!Changes, Stored!Upserted, Stored!IsReplay
  <2>5. n \in Nat /\ row.rev <= n /\ (~same => row.rev < n) /\ n > 0
    BY <1>1, <1>7, <2>2
  <2>6. new.rev = n /\ new.hash = s /\ new.gone = dead
    BY <2>3
  <2>7. n <= MaxRevision
    BY <2>4, <2>6
  <2>8. new \in StoredRow
    BY <1>1, <2>3, <2>5, <2>7 DEF StoredRow
  <2>9. n \in Revision
    BY <1>1, <2>5, <2>7 DEF Revision
  <2>10. u.row = new /\ u.inserted = FALSE /\ u.changed = ~same /\ u.unsure = FALSE
    BY <2>4
  <2>11. u.row.hash \in row.seen => confirmed /\ u.row.hash = s
    BY <1>7, <2>6, <2>10
  <2>12. (u.inserted \/ u.changed => row.rev < u.row.rev) /\ u.changed \in BOOLEAN
    BY <2>5, <2>6, <2>10
  <2> QED
    BY <1>7, <2>5, <2>6, <2>8, <2>9, <2>10, <2>11, <2>12
<1> QED
  BY <1>1, <1>2, <1>4, <1>5, <1>6, <1>7

LEMMA UpsertSafe ==
  ASSUME PipeInv, NEW m \in Message, NEW s \in Snapshots, NEW confirmed \in BOOLEAN,
         NEW u, u = Stored!Upsert(db.row[m], s, s.dead, confirmed), u.row.rev <= MaxRevision,
         db' = [db EXCEPT !.row[m] = u.row], UNCHANGED <<cast, shown, retry, faults, ends>>,
         work.todo = <<>>, work' \in WorkRow, work'.todo = <<>>, work'.next = "idle",
         work'.m = m, work'.s = s, work'.attempt = NoKey,
         \/ /\ work'.at = "confirm" /\ u.unsure /\ work'.since = shown[m] /\ shown[m] > 0
         \/ /\ work'.at = "accepted" /\ ~u.unsure /\ work'.r = u.row.rev
            /\ work'.ins = u.inserted /\ work'.chg = u.changed
  PROVE  PipeInv'
<1>1. /\ DbType(db) /\ db.row[m] \in StoredRow /\ s.dead \in BOOLEAN
      /\ db.row[m].rev = 0 => db.row[m].seen = {}
  BY ScriptAssumption DEF PipeInv, PipeType, DbType, ShownInv
<1>2. /\ u.row \in StoredRow /\ u.row.rev \in Revision /\ db.row[m].rev <= u.row.rev
      /\ u.inserted \in BOOLEAN /\ u.changed \in BOOLEAN /\ u.unsure \in BOOLEAN
      /\ u.inserted \/ u.changed => db.row[m].rev < u.row.rev
      /\ ~u.unsure => u.row.gone \/ u.row.hash = s
      /\ u.row.hash = s \/ (u.row.hash = db.row[m].hash /\ db.row[m].rev > 0)
      /\ db.row[m].gone /\ db.row[m].rev > 0 => u.row.gone
  BY <1>1, UpsertIs
<1>3. /\ IsDb(db') /\ db'.row = [db.row EXCEPT ![m] = u.row] /\ db'.dec = db.dec
      /\ db'.asked = db.asked /\ db'.mark = db.mark /\ db'.told = db.told
      /\ db'.made = db.made /\ db'.drafts = db.drafts /\ db'.posted = db.posted
  BY <1>1 DEF DbType, IsDb
<1>4. DbType(db')
  BY <1>1, <1>2, <1>3 DEF DbType
<1>5. /\ db'.row[m] = u.row /\ \A n \in Message : n # m => db'.row[n] = db.row[n]
      /\ \A n \in Message : db.row[n].rev \in Nat /\ db'.row[n].rev \in Nat
                            /\ db.row[n].rev <= db'.row[n].rev
  <2>1. \A n \in Message : db.row[n].rev \in Nat
    BY <1>1, ScriptAssumption DEF DbType, StoredRow
  <2>2. db'.row[m] = u.row /\ \A n \in Message : n # m => db'.row[n] = db.row[n]
    BY <1>1, <1>3 DEF DbType
  <2>3. u.row.rev \in Nat /\ db.row[m].rev <= u.row.rev
    BY <1>2, ScriptAssumption DEF Revision
  <2>4. ASSUME NEW n \in Message
        PROVE  db'.row[n].rev \in Nat /\ db.row[n].rev <= db'.row[n].rev
    <3>1. CASE n = m
      BY <2>2, <2>3, <3>1
    <3>2. CASE n # m
      BY <2>1, <2>2, <3>2
    <3> QED
      BY <3>1, <3>2
  <2> QED
    BY <2>1, <2>2, <2>4
<1>6. Pending = {} /\ Pending' = {}
  BY DEF Pending
<1>7. WorkInv(work')
  BY <1>2 DEF WorkInv, Live
<1>8. RetryInv'
  <2> SUFFICES ASSUME NEW a \in Attempt, retry[a].state \in {"queued", "claimed"}
               PROVE  /\ retry[a].m \in Message /\ retry[a].r \in Revision
                      /\ retry[a].stage \in Stage /\ retry[a].r <= db'.row[retry[a].m].rev
    BY DEF RetryInv
  <2>1. PICK n, r : n = retry[a].m /\ r = retry[a].r
    OBVIOUS
  <2>2. n \in Message /\ r \in Revision /\ retry[a].stage \in Stage /\ r <= db.row[n].rev
    BY <2>1 DEF PipeInv, PipeType, RetryInv
  <2>3. r \in Nat
    BY <2>2, ScriptAssumption DEF Revision
  <2> QED
    BY <1>5, <2>1, <2>2, <2>3
<1>9. PipeType'
  BY <1>4, <1>7, <1>8 DEF PipeInv, PipeType
<1>10. SeesInv'
  <2>1. CASE work'.at = "confirm"
    BY <1>6, <2>1 DEF SeesInv, Live
  <2>2. CASE work'.at = "accepted" /\ ~u.unsure /\ work'.r = u.row.rev
    <3>1. db'.row[work'.m].rev = work'.r /\ work'.r <= db'.row[work'.m].rev
      BY <1>5, <2>2
    <3>2. Gone' \/ Holds'
      BY <1>2, <1>5, <2>2 DEF Gone, Holds
    <3> QED
      BY <1>6, <2>2, <3>1, <3>2 DEF SeesInv, Live
  <2> QED
    BY <2>1, <2>2
<1>11. ShownInv'
  <2>1. db'.row[m].rev # 0
    <3>1. u.row.rev \in Revision
      BY <1>2
    <3>2. u.row.rev # 0
      BY <3>1, ScriptAssumption DEF Revision
    <3> QED
      BY <1>5, <3>2
  <2>2. shown[m] \in Nat
    BY DEF PipeInv, PipeType
  <2>3. db'.row[m].hash \in Snapshots
    <3>1. db.row[m].rev > 0 => db.row[m].hash \in Snapshots
      BY DEF PipeInv, ShownInv
    <3>2. u.row.hash = s \/ (u.row.hash = db.row[m].hash /\ db.row[m].rev > 0)
      BY <1>2
    <3>3. u.row.hash \in Snapshots
      BY <3>1, <3>2
    <3> QED
      BY <1>5, <3>3
  <2>4. \A n \in Message : /\ db'.row[n].rev = 0 => db'.row[n].seen = {}
                           /\ db'.row[n].rev > 0 => db'.row[n].hash \in Snapshots
    <3> SUFFICES ASSUME NEW n \in Message
                 PROVE  /\ db'.row[n].rev = 0 => db'.row[n].seen = {}
                        /\ db'.row[n].rev > 0 => db'.row[n].hash \in Snapshots
      OBVIOUS
    <3>1. CASE n = m
      BY <2>1, <2>3, <3>1
    <3>2. CASE n # m
      <4>1. db'.row[n] = db.row[n]
        BY <1>5, <3>2
      <4>2. /\ db.row[n].rev = 0 => db.row[n].seen = {}
            /\ db.row[n].rev > 0 => db.row[n].hash \in Snapshots
        BY DEF PipeInv, ShownInv
      <4> QED
        BY ONLY <4>1, <4>2
    <3> QED
      BY <3>1, <3>2
  <2>5. work'.at # "restore"
    OBVIOUS
  <2>6. work'.at = "confirm" => work'.since <= shown'[work'.m] /\ shown'[work'.m] > 0
    BY <2>2
  <2> QED
    BY <2>4, <2>5, <2>6 DEF ShownInv
<1>12. BlankInv'
  <2> SUFFICES ASSUME NEW n \in Message, NEW r \in Revision
               PROVE  /\ r > db'.row[n].rev => db'.dec[n][r] = Undecided
                      /\ db'.dec[n][r] = Undecided => Blank(n, r)'
                      /\ db'.dec[n][r].route \in Placeholders =>
                           \A g \in Stage \ {"task_router"} : MarkOf(n, r, g)' = "none"
    BY DEF BlankInv
  <2>1. /\ r > db.row[n].rev => db.dec[n][r] = Undecided
        /\ db.dec[n][r] = Undecided => Blank(n, r)
        /\ db.dec[n][r].route \in Placeholders =>
             \A g \in Stage \ {"task_router"} : MarkOf(n, r, g) = "none"
    BY DEF PipeInv, BlankInv
  <2>2. r > db'.row[n].rev => r > db.row[n].rev
    BY <1>5, ScriptAssumption DEF Revision
  <2> QED
    BY <1>3, <2>1, <2>2 DEF Blank, MarkOf
<1>13. DecisionInv'
  <2>1. ASSUME work'.at = "accepted", u.inserted \/ u.changed PROVE db.dec[m][u.row.rev] = Undecided
    <3>1. PICK r \in Revision : r = u.row.rev /\ r > db.row[m].rev
      <4>1. u.row.rev \in Revision /\ db.row[m].rev < u.row.rev
        BY <1>2, <2>1
      <4>2. u.row.rev \in Nat /\ db.row[m].rev \in Nat
        BY <1>5
      <4> QED
        BY <4>1, <4>2
    <3> QED
      BY <3>1 DEF PipeInv, BlankInv
  <2> QED
    BY <1>3, <1>6, <2>1 DEF DecisionInv, Handled
<1>14. MarkInv'
  BY <1>6 DEF MarkInv, OneMark, Owes, Starting
<1>15. ToldInv'
  <2>1. Announced(work'.todo)
    BY DEF Announced
  <2>2. ASSUME faults' = 0, NEW n \in Message, NEW g \in Stage, NEW r, r = db'.row[n].rev,
               r > 0, ~db'.row[n].gone, MarkOf(n, r, g)' \in {"failed", "blocked"}
        PROVE  <<n, r, g>> \in db'.told
    <3>1. r \in Revision
      BY <1>4, <2>2, ScriptAssumption DEF DbType, StoredRow, Revision
    <3>2. MarkOf(n, r, g) \in {"failed", "blocked"}
      BY <1>3, <2>2 DEF MarkOf
    <3>3. CASE r = db.row[n].rev
      <4>1. ~db.row[n].gone
        <5>1. CASE n = m
          <6>1. db'.row[n] = u.row
            BY <1>5, <5>1
          <6>2. ~u.row.gone /\ db.row[m].rev > 0
            BY <2>2, <3>3, <5>1, <6>1
          <6> QED
            BY <1>1, <1>2, <5>1, <6>2 DEF StoredRow
        <5>2. CASE n # m
          <6>1. db'.row[n] = db.row[n]
            BY <1>5, <5>2
          <6> QED
            BY <2>2, <6>1
        <5> QED
          BY <5>1, <5>2
      <4> QED
        <5>1. <<n, r, g>> \in db.told \/ Tell(g) \in Pending
          BY <2>2, <3>2, <3>3, <4>1 DEF PipeInv, ToldInv
        <5> QED
          BY <1>3, <1>6, <5>1
    <3>4. CASE r # db.row[n].rev
      <4>1. r > db.row[n].rev
        BY <1>5, <2>2, <3>4
      <4>2. MarkOf(n, r, g) = "none"
        BY <3>1, <4>1 DEF PipeInv, BlankInv, Blank
      <4> QED
        BY <3>2, <4>2
    <3> QED
      BY <3>3, <3>4
  <2> QED
    BY <2>1, <2>2 DEF ToldInv
<1> QED
  BY <1>9, <1>10, <1>11, <1>12, <1>13, <1>14, <1>15 DEF PipeInv

LEMMA DeliverSafe ==
  ASSUME PipeInv, NEW m \in Present, NEW src \in Sources, NEW i \in 1..shown[m],
         Deliver(m, i, src)
  PROVE  PipeInv'
<1>1. m \in Message /\ shown[m] \in Nat /\ shown[m] <= Len(Script[m]) /\ shown[m] > 0
  <2>1. cast.messages \in Message \X Message
    BY ScriptAssumption DEF PipeInv, PipeType
  <2>2. m \in Message
    BY <2>1 DEF Present
  <2> QED
    BY <2>2 DEF PipeInv, PipeType
<1>2. PICK s : s = Script[m][i]
  OBVIOUS
<1>3. s \in Snapshots
  <2>1. i \in DOMAIN Script[m]
    BY <1>1, ScriptAssumption
  <2> QED
    BY <1>1, <1>2, <2>1 DEF Snapshots
<1>c. PICK c \in BOOLEAN : c = FALSE
  OBVIOUS
<1>4. PICK u : u = Stored!Upsert(db.row[m], s, s.dead, c)
  OBVIOUS
<1>5. /\ u.row.rev <= MaxRevision /\ work.at = "idle" /\ db' = [db EXCEPT !.row[m] = u.row]
      /\ work' = [NoWork EXCEPT !.at = IF u.unsure THEN "confirm" ELSE "accepted",
                   !.m = m, !.s = s, !.src = src, !.r = u.row.rev, !.since = shown[m],
                   !.ins = u.inserted, !.chg = u.changed]
      /\ UNCHANGED <<cast, shown, retry, faults, ends>>
  BY <1>2, <1>4, <1>c DEF Deliver
<1>6. work.todo = <<>>
  BY <1>5 DEF PipeInv, PipeType, WorkInv
<1>7. db.row[m] \in StoredRow /\ s.dead \in BOOLEAN /\ (db.row[m].rev = 0 => db.row[m].seen = {})
  BY <1>1, <1>3, ScriptAssumption DEF PipeInv, PipeType, DbType, ShownInv
<1>8. /\ u.row.rev \in Nat
      /\ u.inserted \in BOOLEAN /\ u.changed \in BOOLEAN /\ u.unsure \in BOOLEAN
  BY <1>3, <1>4, <1>5, <1>7, UpsertIs, ScriptAssumption DEF Revision
<1>9. PICK at, r, n, ins, chg :
        /\ at = (IF u.unsure THEN "confirm" ELSE "accepted") /\ r = u.row.rev
        /\ n = shown[m] /\ ins = u.inserted /\ chg = u.changed
  OBVIOUS
<1>10. work' = [NoWork EXCEPT !.at = at, !.m = m, !.s = s, !.src = src, !.r = r, !.since = n,
                              !.ins = ins, !.chg = chg]
  BY <1>5, <1>9
<1>11. /\ NoWork \in WorkRow /\ NoWork.todo = <<>> /\ NoWork.next = "idle"
       /\ NoWork.attempt = NoKey
  BY DEF NoWork, WorkRow, Undecided, Decision, DecisionRow, SomeTask
<1>12. /\ at \in {"confirm", "accepted"} /\ r \in Nat /\ n \in Nat /\ ins \in BOOLEAN
       /\ chg \in BOOLEAN /\ src \in Sources
  BY <1>1, <1>8, <1>9
<1>13. work' \in WorkRow
  <2>1. m \in Message
    BY <1>1
  <2>2. work' = [at |-> at, m |-> m, s |-> s, src |-> src, r |-> r, since |-> n, ins |-> ins,
                 chg |-> chg, then |-> NoWork.then, allowed |-> NoWork.allowed,
                 attempt |-> NoWork.attempt, todo |-> NoWork.todo, next |-> NoWork.next]
    BY ONLY <1>10 DEF NoWork
  <2>3. /\ NoWork.then \in DecisionRow /\ NoWork.attempt = NoKey
        /\ NoWork.allowed \in SUBSET ({"attach_task", "reopen_task"} \X Task)
        /\ NoWork.todo \in Seq(WriteRow) /\ NoWork.next = "idle"
    BY ONLY <1>11 DEF WorkRow
  <2> QED
    BY ONLY <2>1, <2>2, <2>3, <1>3, <1>12 DEF WorkRow, Live
<1>14. /\ work'.at = at /\ work'.m = m /\ work'.s = s /\ work'.r = r /\ work'.since = n
       /\ work'.ins = ins /\ work'.chg = chg /\ work'.todo = <<>> /\ work'.next = "idle"
       /\ work'.attempt = NoKey
  BY ONLY <1>10, <1>11 DEF WorkRow
<1>15. \/ /\ work'.at = "confirm" /\ u.unsure /\ work'.since = shown[m] /\ shown[m] > 0
       \/ /\ work'.at = "accepted" /\ ~u.unsure /\ work'.r = u.row.rev
          /\ work'.ins = u.inserted /\ work'.chg = u.changed
  BY <1>1, <1>8, <1>9, <1>14
<1> QED
  BY <1>1, <1>3, <1>4, <1>5, <1>6, <1>13, <1>14, <1>15, UpsertSafe

LEMMA RestoreSafe == ASSUME PipeInv, Restore PROVE PipeInv'
<1>1. /\ work.at = "restore" /\ work.m \in Message /\ work.s \in Snapshots /\ work.todo = <<>>
      /\ work.next = "idle" /\ work.attempt = NoKey /\ work \in WorkRow
  BY DEF PipeInv, PipeType, WorkInv, Restore
<1>2. PICK m, s : m = work.m /\ s = work.s
  OBVIOUS
<1>c. PICK c \in BOOLEAN : c = TRUE
  OBVIOUS
<1>3. PICK u : u = Stored!Upsert(db.row[m], s, s.dead, c)
  OBVIOUS
<1> DEFINE known == /\ u.row.rev \in Revision /\ u.inserted \in BOOLEAN
                    /\ u.changed \in BOOLEAN /\ u.unsure \in BOOLEAN /\ (u.unsure => ~c)
<1>4. /\ u.row.rev <= MaxRevision /\ db' = [db EXCEPT !.row[m] = u.row]
      /\ work' = [work EXCEPT !.at = "accepted", !.r = u.row.rev, !.ins = u.inserted,
                              !.chg = u.changed]
      /\ UNCHANGED <<cast, shown, retry, faults, ends>>
  BY <1>2, <1>3, <1>c DEF Restore, Upserts
<1>5. db.row[m] \in StoredRow /\ s.dead \in BOOLEAN /\ (db.row[m].rev = 0 => db.row[m].seen = {})
  BY <1>1, <1>2, ScriptAssumption DEF PipeInv, PipeType, DbType, ShownInv
<1>6. /\ u.row.rev \in Nat /\ u.inserted \in BOOLEAN /\ u.changed \in BOOLEAN
      /\ u.unsure \in BOOLEAN /\ ~u.unsure
  <2>1. known
    <3>1. PICK row, dead : row = db.row[m] /\ dead = s.dead
      OBVIOUS
    <3>2. u = Stored!Upsert(row, s, dead, c) /\ s \in Snapshots
      BY <1>1, <1>2, <1>3, <3>1
    <3>3. /\ row \in StoredRow /\ dead \in BOOLEAN /\ (row.rev = 0 => row.seen = {})
      BY <1>5, <3>1
    <3>4. u.row.rev <= MaxRevision
      BY <1>4
    <3> QED
      BY <3>2, <3>3, <3>4, UpsertIs
  <2>2. c
    BY <1>c
  <2> QED
    BY <2>1, <2>2, ScriptAssumption DEF Revision
<1> HIDE DEF known
<1>7. PICK r, ins, chg : r = u.row.rev /\ ins = u.inserted /\ chg = u.changed
  OBVIOUS
<1>8. work' = [work EXCEPT !.at = "accepted", !.r = r, !.ins = ins, !.chg = chg]
  BY <1>4, <1>7
<1>9. r \in Nat /\ ins \in BOOLEAN /\ chg \in BOOLEAN
  BY <1>6, <1>7
<1>10. work' \in WorkRow
  <2>1. PICK w : w = work
    OBVIOUS
  <2>2. w \in WorkRow
    BY <1>1, <2>1
  <2>3. work' = [w EXCEPT !.at = "accepted", !.r = r, !.ins = ins, !.chg = chg]
    BY <1>8, <2>1
  <2>4. work' = [at |-> "accepted", m |-> w.m, s |-> w.s, src |-> w.src, r |-> r,
                 since |-> w.since, ins |-> ins, chg |-> chg, then |-> w.then,
                 allowed |-> w.allowed, attempt |-> w.attempt, todo |-> w.todo,
                 next |-> w.next]
    BY ONLY <2>2, <2>3 DEF WorkRow
  <2> QED
    BY ONLY <2>2, <2>4, <1>9 DEF WorkRow
<1>11. /\ work'.at = "accepted" /\ work'.m = work.m /\ work'.s = work.s /\ work'.r = r
       /\ work'.ins = ins /\ work'.chg = chg /\ work'.todo = work.todo
       /\ work'.next = work.next /\ work'.attempt = work.attempt
  BY ONLY <1>1, <1>8 DEF WorkRow
<1>12. /\ work'.m = m /\ work'.s = s /\ work'.todo = <<>> /\ work'.next = "idle"
       /\ work'.attempt = NoKey /\ work'.at = "accepted" /\ work'.r = u.row.rev
       /\ work'.ins = u.inserted /\ work'.chg = u.changed
  BY <1>1, <1>2, <1>7, <1>11
<1>13. m \in Message /\ s \in Snapshots /\ u = Stored!Upsert(db.row[m], s, s.dead, c)
  BY <1>1, <1>2, <1>3
<1> QED
  BY <1>1, <1>4, <1>6, <1>10, <1>12, <1>13, UpsertSafe

LEMMA ToldKept ==
  ASSUME PipeInv, UNCHANGED <<db, faults>>, Pending = {}, work'.todo = <<>>
  PROVE  ToldInv'
<1>1. Announced(work'.todo)
  BY DEF Announced
<1>2. ASSUME faults = 0, NEW m \in Message, NEW g \in Stage, db.row[m].rev > 0, ~db.row[m].gone,
             MarkOf(m, db.row[m].rev, g) \in {"failed", "blocked"}
      PROVE  <<m, db.row[m].rev, g>> \in db.told
  BY <1>2 DEF PipeInv, ToldInv
<1> QED
  BY <1>1, <1>2 DEF ToldInv, MarkOf

LEMMA ConfirmSafe == ASSUME PipeInv, Confirm PROVE PipeInv'
<1>1. /\ work.at = "confirm" /\ work.m \in Message /\ work.todo = <<>> /\ work.next = "idle"
      /\ work.attempt = NoKey /\ work \in WorkRow /\ work.since \in Nat
      /\ shown[work.m] \in Nat /\ work.since <= shown[work.m] /\ shown[work.m] > 0
      /\ shown[work.m] <= Len(Script[work.m])
  BY DEF PipeInv, PipeType, WorkInv, Confirm, ShownInv, WorkRow
<1>2. PICK i, s : i = shown[work.m] /\ s = Script[work.m][i]
  OBVIOUS
<1>3. s \in Snapshots
  <2>1. i \in DOMAIN Script[work.m]
    BY <1>1, <1>2, ScriptAssumption
  <2> QED
    BY <1>1, <1>2, <2>1 DEF Snapshots
<1>4. work' = [work EXCEPT !.at = "restore", !.s = s] /\ ReadOnly
  BY <1>2 DEF Confirm
<1>5. work' \in WorkRow
  <2>1. work \in WorkRow
    BY <1>1
  <2>2. work' = [work EXCEPT !.at = "restore", !.s = s]
    BY <1>4
  <2> QED
    BY ONLY <2>1, <2>2, <1>3 DEF WorkRow
<1>6. /\ work'.at = "restore" /\ work'.s = s /\ work'.m = work.m /\ work'.since = work.since
      /\ work'.todo = <<>> /\ work'.next = "idle" /\ work'.attempt = NoKey /\ work'.r = work.r
  BY ONLY <1>1, <1>4 DEF WorkRow
<1>7. UNCHANGED <<cast, shown, db, retry, faults, ends>>
  BY <1>4 DEF ReadOnly
<1>8. WorkInv(work') /\ Pending = {} /\ Pending' = {}
  BY <1>1, <1>3, <1>6 DEF WorkInv, Live, Pending
<1>9. PipeType' /\ SeesInv'
  BY <1>5, <1>6, <1>7, <1>8 DEF PipeInv, PipeType, RetryInv, SeesInv, Live
<1>10. ShownInv'
  <2>1. i \in work.since..shown[work.m]
    BY <1>1, <1>2
  <2> QED
    BY <1>1, <1>2, <1>6, <1>7, <2>1 DEF PipeInv, ShownInv
<1>11. BlankInv'
  BY <1>7 DEF PipeInv, BlankInv, Blank, MarkOf
<1>12. DecisionInv' /\ MarkInv'
  BY <1>6, <1>8 DEF DecisionInv, MarkInv, OneMark, Owes, Starting
<1>13. ToldInv'
  BY <1>6, <1>7, <1>8, ToldKept
<1> QED
  BY <1>9, <1>10, <1>11, <1>12, <1>13 DEF PipeInv

-------------------------------------------------------------------------------
(* Retries and faults.                                                     *)

LEMMA RetryMoves ==
  ASSUME PipeInv, NEW a \in Attempt, NEW st, db'.row = db.row,
         retry' = [retry EXCEPT ![a].state = st],
         \/ st \in {"succeeded", "failed", "cancelled"}
         \/ st = "claimed" /\ retry[a].state = "queued"
  PROVE  retry' \in [Attempt -> AttemptRow] /\ RetryInv'
<1>1. retry \in [Attempt -> AttemptRow] /\ RetryInv
  BY DEF PipeInv, PipeType
<1>2. retry' \in [Attempt -> AttemptRow]
  BY <1>1 DEF AttemptRow
<1>3. \A b \in Attempt : /\ retry'[b].m = retry[b].m /\ retry'[b].r = retry[b].r
                         /\ retry'[b].stage = retry[b].stage
                         /\ retry'[b].state = IF b = a THEN st ELSE retry[b].state
  BY <1>1 DEF AttemptRow
<1>4. RetryInv'
  BY <1>1, <1>3 DEF RetryInv
<1> QED
  BY <1>2, <1>4

LEMMA FaultsSafe == ASSUME PipeInv, Faults PROVE PipeInv'
<1>1. /\ work' = NoWork /\ faults' = faults + 1 /\ UNCHANGED <<cast, shown, db, ends>>
      /\ \/ UNCHANGED retry
         \/ work.attempt # NoKey /\ retry' = [retry EXCEPT ![work.attempt].state = "failed"]
  BY DEF Faults, ConfirmFails, RetryRaises, Crash, Closes
<1>2. faults \in Nat /\ DbType(db) /\ retry \in [Attempt -> AttemptRow] /\ RetryInv
      /\ work.attempt \in Attempt \cup {NoKey} /\ ends \in Nat
  BY DEF PipeInv, PipeType, WorkRow
<1>3. retry' \in [Attempt -> AttemptRow] /\ RetryInv'
  <2>1. CASE UNCHANGED retry
    BY <1>1, <1>2, <2>1 DEF RetryInv
  <2>2. CASE work.attempt # NoKey /\ retry' = [retry EXCEPT ![work.attempt].state = "failed"]
    <3>1. PICK a \in Attempt : a = work.attempt
      BY <1>2, <2>2
    <3> QED
      BY <1>1, <2>2, <3>1, RetryMoves
  <2> QED
    BY <1>1, <2>1, <2>2
<1>4. DbType(db') /\ SameCore(db, db') /\ db.told \ db'.told = {}
  BY <1>1, <1>2 DEF SameCore
<1>5. faults' \in Nat /\ faults' >= faults /\ faults' > 0 /\ ends' \in Nat
  BY <1>1, <1>2
<1> QED
  BY <1>1, <1>3, <1>4, <1>5, RestStep

LEMMA FinishRetrySafe == ASSUME PipeInv, FinishRetry PROVE PipeInv'
<1>1. PICK a, m, r, g : a = work.attempt /\ m = work.m /\ r = work.r /\ g = retry[a].stage
  OBVIOUS
<1>t. PICK told : told = IF MarkOf(m, r, g) = "processed" THEN db.told \ {<<m, r, g>>}
                         ELSE db.told
  OBVIOUS
<1>2. PICK st \in {"succeeded", "failed"} :
        retry' = [retry EXCEPT ![a].state = st] /\ db' = [db EXCEPT !.told = told]
  BY <1>1, <1>t DEF FinishRetry, Closes
<1>3. /\ work.at = "finish" /\ work' = NoWork /\ UNCHANGED <<cast, shown, faults, ends>>
  BY DEF FinishRetry, Closes
<1>4. /\ DbType(db) /\ a \in Attempt /\ faults \in Nat /\ ends \in Nat /\ Pending = {}
  BY <1>1, <1>3 DEF PipeInv, PipeType, WorkRow, WorkInv, Pending
<1>5. IsDb(db') /\ SameCore(db, db') /\ db'.told = told
  BY <1>2, <1>4 DEF DbType, IsDb, SameCore
<1>6. DbType(db') /\ db'.row = db.row
  BY <1>4, <1>5, SameDbType DEF SameCore
<1>7. retry' \in [Attempt -> AttemptRow] /\ RetryInv'
  BY <1>2, <1>4, <1>6, RetryMoves
<1>8. \A n \in db.told \ db'.told : MarkOf(n[1], n[2], n[3]) = "processed"
  BY <1>t, <1>5
<1>9. faults' \in Nat /\ faults' >= faults /\ ends' \in Nat
  BY <1>3, <1>4
<1> QED
  BY <1>3, <1>4, <1>5, <1>6, <1>7, <1>8, <1>9, RestStep

LEMMA ClaimRetrySafe == ASSUME PipeInv, NEW a \in Attempt, ClaimRetry(a) PROVE PipeInv'
<1>1. PICK m, r : m = retry[a].m /\ r = retry[a].r
  OBVIOUS
<1>2. /\ work.at = "idle" /\ retry[a].state = "queued"
      /\ retry' = [retry EXCEPT ![a].state = "claimed"]
      /\ work' = [NoWork EXCEPT !.at = "claimed", !.attempt = a, !.m = m, !.r = r]
      /\ UNCHANGED <<cast, shown, db, faults, ends>>
  BY <1>1 DEF ClaimRetry
<1>3. m \in Message /\ r \in Revision /\ r \in Nat /\ r <= db.row[m].rev
  BY <1>1, <1>2, ScriptAssumption DEF PipeInv, PipeType, RetryInv, Revision
<1>4. retry' \in [Attempt -> AttemptRow] /\ RetryInv'
  BY <1>2, RetryMoves
<1>5. /\ NoWork \in WorkRow /\ NoWork.todo = <<>> /\ NoWork.next = "idle"
  BY DEF NoWork, WorkRow, Undecided, Decision, DecisionRow, SomeTask
<1>6. work' \in WorkRow
  BY ONLY <1>2, <1>3, <1>5 DEF WorkRow
<1>7. /\ work'.at = "claimed" /\ work'.attempt = a /\ work'.m = m /\ work'.r = r
      /\ work'.todo = <<>> /\ work'.next = "idle"
  BY ONLY <1>2, <1>5 DEF WorkRow
<1>8. WorkInv(work') /\ Pending = {} /\ Pending' = {}
  <2>1. a # NoKey /\ work.todo = <<>>
    BY <1>2, ScriptAssumption DEF PipeInv, PipeType, WorkInv
  <2> QED
    BY <1>3, <1>7, <2>1 DEF WorkInv, Live, Pending
<1>9. PipeType' /\ SeesInv'
  BY <1>2, <1>3, <1>4, <1>6, <1>7, <1>8 DEF PipeInv, PipeType, SeesInv, Live
<1>10. ShownInv' /\ BlankInv'
  <2>1. ShownInv'
    BY <1>2, <1>7 DEF PipeInv, ShownInv
  <2>2. BlankInv'
    BY <1>2, <1>7 DEF PipeInv, BlankInv, Blank, MarkOf
  <2> QED
    BY <2>1, <2>2
<1>11. DecisionInv' /\ MarkInv'
  BY <1>7, <1>8 DEF DecisionInv, MarkInv, OneMark, Owes, Starting
<1>12. ToldInv'
  BY <1>2, <1>7, <1>8, ToldKept
<1> QED
  BY <1>9, <1>10, <1>11, <1>12 DEF PipeInv

LEMMA StartsSafe ==
  ASSUME PipeInv, work.at = "claimed", UNCHANGED <<cast, shown, db, faults, ends>>,
         NEW next \in {"download", "process"}, NEW then \in DecisionRow,
         ~Superseded(work.m, work.r), Starts(work.m, then, next),
         Handled # Undecided,
         then.route \in SessionRoutes => Handled.route \in SessionRoutes
  PROVE  PipeInv'
<1>1. PICK m, r : m = work.m /\ r = work.r
  OBVIOUS
<1>2. /\ m \in Message /\ r \in Revision /\ r \in Nat /\ work \in WorkRow /\ work.attempt # NoKey
      /\ work.todo = <<>> /\ work.next = "idle"
  BY <1>1, ScriptAssumption DEF PipeInv, PipeType, WorkInv, Revision
<1>3. ~db.row[m].gone /\ db.row[m].rev = r /\ r > 0
  BY <1>1, <1>2, ScriptAssumption DEF Superseded, Revision
<1>4. PICK s, src : /\ s = db.row[m].hash
                    /\ src = (IF ChatType(Chat[m]) = "p2p" THEN "p2p" ELSE "group_at_me")
  OBVIOUS
<1>5. /\ s \in Snapshots /\ src \in Sources
      /\ next \in {"download", "process"} /\ then \in DecisionRow
  BY <1>2, <1>3, <1>4 DEF PipeInv, ShownInv, Sources
<1>6. work' = [work EXCEPT !.at = next, !.s = s, !.then = then, !.src = src]
  BY <1>1, <1>4 DEF Starts
<1>7. work' \in WorkRow
  BY ONLY <1>2, <1>5, <1>6
     DEF WorkRow, Live
<1>8. /\ work'.at = next /\ work'.s = s /\ work'.then = then /\ work'.m = m /\ work'.r = r
      /\ work'.attempt = work.attempt /\ work'.todo = <<>> /\ work'.next = "idle"
  BY ONLY <1>1, <1>2, <1>6 DEF WorkRow
<1>9. WorkInv(work') /\ Pending = {} /\ Pending' = {}
  BY <1>2, <1>5, <1>8 DEF WorkInv, Live, Pending
<1>10. UNCHANGED <<cast, shown, db, retry, faults, ends>>
  BY DEF Starts
<1>11. PipeType'
  BY <1>7, <1>9, <1>10 DEF PipeInv, PipeType, RetryInv
<1>12. SeesInv'
  BY <1>2, <1>3, <1>4, <1>8, <1>9, <1>10 DEF SeesInv, Live, Holds
<1>13. ShownInv' /\ BlankInv'
  <2>1. ShownInv'
    BY <1>8, <1>10 DEF PipeInv, ShownInv
  <2>2. BlankInv'
    BY <1>8, <1>10 DEF PipeInv, BlankInv, Blank, MarkOf
  <2> QED
    BY <2>1, <2>2
<1>14. DecisionInv'
  <2>1. Handled' = Handled
    BY <1>1, <1>8, <1>10 DEF Handled
  <2> QED
    BY <1>8, <1>9, <2>1 DEF DecisionInv
<1>15. MarkInv'
  BY <1>2, <1>8 DEF MarkInv, OneMark
<1>16. ToldInv'
  BY <1>8, <1>9, <1>10, ToldKept
<1> QED
  BY <1>11, <1>12, <1>13, <1>14, <1>15, <1>16 DEF PipeInv

LEMMA BeginRetrySafe == ASSUME PipeInv, BeginRetry PROVE PipeInv'
<1>1. PICK a, m, r : a = work.attempt /\ m = work.m /\ r = work.r
  OBVIOUS
<1>2. /\ work.at = "claimed" /\ UNCHANGED <<cast, shown, db, faults, ends>>
      /\ a \in Attempt /\ m \in Message /\ r \in Revision /\ DbType(db)
  BY <1>1 DEF BeginRetry, PipeInv, PipeType, WorkInv, WorkRow
<1>3. CASE \E st \in {"cancelled", "failed"} : Closes(a, st)
  <2>1. PICK st \in {"cancelled", "failed"} :
          retry' = [retry EXCEPT ![a].state = st] /\ work' = NoWork
    BY <1>3 DEF Closes
  <2>2. retry' \in [Attempt -> AttemptRow] /\ RetryInv'
    BY <1>2, <2>1, RetryMoves
  <2>3. DbType(db') /\ SameCore(db, db') /\ db.told \ db'.told = {} /\ Pending = {}
    BY <1>2 DEF SameCore, PipeInv, PipeType, WorkInv, Pending
  <2>4. faults' \in Nat /\ faults' >= faults /\ ends' \in Nat
    BY <1>2 DEF PipeInv, PipeType
  <2> QED
    BY <1>2, <2>1, <2>2, <2>3, <2>4, RestStep
<1>4. CASE /\ ~Superseded(m, r) /\ db.asked[m][r] # NoKey
           /\ Starts(m, Decision(db.asked[m][r], NoTask), "process")
  <2>1. PICK then : then = Decision(db.asked[m][r], NoTask)
    OBVIOUS
  <2>2. then \in DecisionRow /\ then.route \in Placeholders
    BY <1>2, <1>4, <2>1 DEF DbType, Decision, DecisionRow, Routes, SomeTask
  <2>3. Handled # Undecided
    BY <1>1, <1>2, <1>4 DEF PipeInv, BlankInv, Blank, Handled
  <2>4. then.route \notin SessionRoutes
    BY <2>2 DEF SessionRoutes, Placeholders
  <2> QED
    BY <1>1, <1>2, <1>4, <2>1, <2>2, <2>3, <2>4, StartsSafe
<1>5. CASE \E next \in {"download", "process"} :
             /\ ~Superseded(m, r) /\ db.dec[m][r] # Undecided /\ Starts(m, db.dec[m][r], next)
  <2>0. PICK then : then = db.dec[m][r]
    OBVIOUS
  <2>1. PICK next \in {"download", "process"} : then # Undecided /\ Starts(m, then, next)
    BY <1>5, <2>0
  <2>2. then \in DecisionRow /\ then = Handled
    BY <1>1, <1>2, <2>0 DEF DbType, Handled
  <2> QED
    BY <1>1, <1>2, <1>5, <2>1, <2>2, StartsSafe
<1>6. \/ \E st \in {"cancelled", "failed"} : Closes(a, st)
      \/ /\ ~Superseded(m, r) /\ db.asked[m][r] # NoKey
         /\ Starts(m, Decision(db.asked[m][r], NoTask), "process")
      \/ \E next \in {"download", "process"} :
           /\ ~Superseded(m, r) /\ db.dec[m][r] # Undecided /\ Starts(m, db.dec[m][r], next)
  BY <1>1 DEF BeginRetry
<1> QED
  BY <1>3, <1>4, <1>5, <1>6

-------------------------------------------------------------------------------
(* Those who act beside the handler.                                       *)

LEMMA BesideStep ==
  ASSUME PipeInv, UNCHANGED <<cast, work, faults>>, DbType(db'), db'.row = db.row,
         db'.dec = db.dec, db'.asked = db.asked, db'.mark = db.mark, db'.made = db.made,
         db'.told = db.told, retry' \in [Attempt -> AttemptRow], RetryInv', ends' \in Nat,
         shown' \in [Message -> Nat],
         \A m \in Message : shown[m] <= shown'[m] /\ shown'[m] <= Len(Script[m])
  PROVE  PipeInv'
<1>1. Pending' = Pending /\ Handled' = Handled /\ (Starting' <=> Starting)
  BY DEF Pending, Handled, Starting
<1>2. PipeType'
  BY DEF PipeInv, PipeType
<1>3. SeesInv'
  BY <1>1 DEF PipeInv, SeesInv, Holds, Gone
<1>4. ShownInv'
  <2>1. ASSUME work.at \in {"confirm", "restore"}
        PROVE  work.since <= shown'[work.m] /\ shown'[work.m] > 0
    <3>1. work.m \in Message /\ work.since \in Nat /\ shown[work.m] \in Nat
          /\ shown'[work.m] \in Nat
      BY <2>1 DEF PipeInv, PipeType, WorkInv, WorkRow
    <3> QED
      BY <2>1, <3>1 DEF PipeInv, ShownInv
  <2>2. ASSUME work.at = "restore"
        PROVE  \E i \in work.since..shown'[work.m] : work.s = Script[work.m][i]
    <3>1. work.m \in Message /\ work.since \in Nat /\ shown[work.m] \in Nat
          /\ shown'[work.m] \in Nat
      BY <2>2 DEF PipeInv, PipeType, WorkInv, WorkRow
    <3>2. PICK i \in work.since..shown[work.m] : work.s = Script[work.m][i]
      BY <2>2 DEF PipeInv, ShownInv
    <3>3. i \in work.since..shown'[work.m]
      BY <3>1
    <3> QED
      BY <3>2, <3>3
  <2> QED
    BY <2>1, <2>2 DEF PipeInv, ShownInv
<1>5. BlankInv'
  BY DEF PipeInv, BlankInv, Blank, MarkOf
<1>6. DecisionInv'
  BY <1>1 DEF PipeInv, DecisionInv
<1>7. MarkInv'
  BY <1>1 DEF PipeInv, MarkInv, Owes, MarkOf
<1>8. ToldInv'
  BY <1>1 DEF PipeInv, ToldInv, MarkOf
<1> QED
  BY <1>2, <1>3, <1>4, <1>5, <1>6, <1>7, <1>8 DEF PipeInv

LEMMA PublishSafe == ASSUME PipeInv, NEW m \in Message, Publish(m) PROVE PipeInv'
<1>1. shown \in [Message -> Nat] /\ \A n \in Message : shown[n] <= Len(Script[n])
  BY DEF PipeInv, PipeType
<1>2. /\ shown' = [shown EXCEPT ![m] = shown[m] + 1] /\ shown[m] < Len(Script[m])
      /\ UNCHANGED <<cast, db, retry, work, faults, ends>>
  BY DEF Publish
<1>3. Len(Script[m]) \in Nat /\ shown[m] \in Nat
  BY <1>1, ScriptAssumption
<1>4. /\ shown' \in [Message -> Nat]
      /\ \A n \in Message : shown[n] <= shown'[n] /\ shown'[n] <= Len(Script[n])
  BY <1>1, <1>2, <1>3
<1>5. /\ DbType(db') /\ retry' \in [Attempt -> AttemptRow] /\ RetryInv' /\ ends' \in Nat
  BY <1>2 DEF PipeInv, PipeType, RetryInv
<1> QED
  BY <1>2, <1>4, <1>5, BesideStep

LEMMA SendSafe == ASSUME PipeInv, NEW p \in db.drafts, Send(p) PROVE PipeInv'
<1>1. DbType(db) /\ p \in DraftRow
  BY DEF PipeInv, PipeType, DbType
<1>2. PICK posted : posted = [n \in Message |-> IF /\ Role[n] = "self_message" /\ n \in Present
                                                  /\ db.posted[n] = NoTask
                                               THEN p.task ELSE db.posted[n]]
  OBVIOUS
<1>3. posted \in [Message -> SomeTask]
  BY <1>1, <1>2 DEF DbType, DraftRow
<1>4. db' = [db EXCEPT !.drafts = @ \ {p}, !.sent = @ \cup {p}, !.posted = posted]
  BY <1>1, <1>2 DEF Send, DbType, IsDb
<1>5. /\ IsDb(db') /\ db'.row = db.row /\ db'.dec = db.dec /\ db'.asked = db.asked
      /\ db'.mark = db.mark /\ db'.made = db.made /\ db'.told = db.told
      /\ db'.drafts \subseteq db.drafts /\ db'.posted = posted
  BY <1>1, <1>4 DEF DbType, IsDb
<1>6. DbType(db')
  BY <1>1, <1>3, <1>5 DEF DbType
<1>7. UNCHANGED <<cast, shown, retry, work, faults, ends>>
  BY DEF Send
<1>8. /\ retry' \in [Attempt -> AttemptRow] /\ RetryInv' /\ ends' \in Nat
      /\ shown' \in [Message -> Nat]
      /\ \A m \in Message : shown[m] <= shown'[m] /\ shown'[m] <= Len(Script[m])
  BY <1>5, <1>7 DEF PipeInv, PipeType, RetryInv
<1> QED
  BY <1>5, <1>6, <1>7, <1>8, BesideStep

LEMMA EndTaskSafe == ASSUME PipeInv, NEW t \in Task, EndTask(t) PROVE PipeInv'
<1>1. DbType(db) /\ ends \in Nat
  BY DEF PipeInv, PipeType
<1>2. UNCHANGED <<cast, shown, retry, work, faults>> /\ ends' = ends + 1
  BY DEF EndTask
<1>3. IsDb(db') /\ SameDb(db, db')
  <2>1. CASE CloseTask(t)
    BY <1>1, <2>1, EndedIs DEF CloseTask, DbType
  <2>2. CASE Lapse(t)
    BY <1>1, <2>2 DEF Lapse, DbType, IsDb, SameDb, SameCore
  <2> QED
    BY <2>1, <2>2 DEF EndTask
<1>4. DbType(db')
  BY <1>1, <1>3, SameDbType DEF SameDb
<1>5. /\ retry' \in [Attempt -> AttemptRow] /\ RetryInv' /\ ends' \in Nat
      /\ shown' \in [Message -> Nat]
      /\ \A m \in Message : shown[m] <= shown'[m] /\ shown'[m] <= Len(Script[m])
  BY <1>1, <1>2, <1>3 DEF PipeInv, PipeType, RetryInv, SameDb, SameCore
<1> QED
  BY <1>2, <1>3, <1>4, <1>5, BesideStep DEF SameDb, SameCore

LEMMA RequestRetrySafe ==
  ASSUME PipeInv, NEW a \in Attempt, NEW m \in Message, NEW g \in Stage, RequestRetry(a, m, g)
  PROVE  PipeInv'
<1>1. PICK r, t : r = db.row[m].rev /\ t = db.mark[m][r][g].task
  OBVIOUS
<1>2. /\ r > 0 /\ UNCHANGED <<cast, shown, db, work, faults, ends>>
      /\ retry' = [retry EXCEPT ![a] = AttemptOf(m, r, g, t)]
  BY <1>1 DEF RequestRetry
<1>3. DbType(db) /\ RetryInv /\ retry \in [Attempt -> AttemptRow]
  BY DEF PipeInv, PipeType
<1>4. r \in Revision /\ r \in Nat
  <2>1. db.row[m] \in StoredRow
    BY <1>3 DEF DbType
  <2>2. r \in 0..MaxRevision /\ MaxRevision \in Nat
    BY <1>1, <2>1, ScriptAssumption DEF StoredRow
  <2> QED
    BY <1>2, <2>2 DEF Revision
<1>5. t \in SomeTask
  BY <1>1, <1>3, <1>4 DEF DbType, MarkRow
<1>6. PICK row : row = AttemptOf(m, r, g, t)
  OBVIOUS
<1>7. row \in AttemptRow /\ row.m = m /\ row.r = r /\ row.stage = g
  BY <1>4, <1>5, <1>6 DEF AttemptOf, AttemptRow
<1>8. retry' \in [Attempt -> AttemptRow]
  BY <1>2, <1>3, <1>6, <1>7
<1>9. RetryInv'
  <2>1. \A b \in Attempt : retry'[b] = IF b = a THEN row ELSE retry[b]
    BY <1>2, <1>3, <1>6
  <2> SUFFICES ASSUME NEW b \in Attempt, retry'[b].state \in {"queued", "claimed"}
               PROVE  /\ retry'[b].m \in Message /\ retry'[b].r \in Revision
                      /\ retry'[b].stage \in Stage
                      /\ retry'[b].r <= db.row[retry'[b].m].rev
    BY <1>2 DEF RetryInv
  <2>2. CASE b = a
    BY <1>1, <1>4, <1>7, <2>1, <2>2
  <2>3. CASE b # a
    BY <1>3, <2>1, <2>3 DEF RetryInv
  <2> QED
    BY <2>2, <2>3
<1>10. /\ DbType(db') /\ ends' \in Nat /\ shown' \in [Message -> Nat]
       /\ \A n \in Message : shown[n] <= shown'[n] /\ shown'[n] <= Len(Script[n])
  BY <1>2 DEF PipeInv, PipeType
<1> QED
  BY <1>2, <1>8, <1>9, <1>10, BesideStep

-------------------------------------------------------------------------------
(* The invariant and what follows from it.                                 *)

LEMMA PipeInit == ASSUME Init PROVE PipeInv
<1>1. /\ work = NoWork /\ NoWork.at = "idle" /\ NoWork.next = "idle" /\ NoWork.todo = <<>>
      /\ NoWork \in WorkRow /\ WorkInv(NoWork)
  BY DEF Init, NoWork, WorkRow, WorkInv, Live, Undecided, Decision, DecisionRow, SomeTask
<1>2. NoAttempt \in AttemptRow /\ NoAttempt.state = "free"
  BY DEF NoAttempt, AttemptRow, SomeTask
<1>3. /\ Unmarked \in MarkRow /\ Unmarked.status = "none" /\ Undecided \in DecisionRow
      /\ Undecided.route \notin Placeholders
  BY DEF Unmarked, MarkRow, Status, Undecided, Decision, DecisionRow, SomeTask, Placeholders
<1>4. Stored!NoRow \in StoredRow /\ Stored!NoRow.rev = 0 /\ Stored!NoRow.seen = {}
  BY ScriptAssumption DEF Stored!NoRow, StoredRow
<1>5. /\ IsDb(db) /\ db.row = [m \in Message |-> Stored!NoRow]
      /\ db.dec = [m \in Message |-> [r \in Revision |-> Undecided]]
      /\ db.asked = [m \in Message |-> [r \in Revision |-> NoKey]]
      /\ db.mark = [m \in Message |-> [r \in Revision |-> [g \in Stage |-> Unmarked]]]
      /\ db.made = [m \in Message |-> [r \in Revision |-> 0]]
      /\ db.drafts = {} /\ db.posted = [m \in Message |-> NoTask]
  BY DEF Init, IsDb
<1>6. DbType(db)
  <2>1. /\ db.row \in [Message -> StoredRow]
        /\ db.dec \in [Message -> [Revision -> DecisionRow]]
        /\ db.asked \in [Message -> [Revision -> Placeholders \cup {NoKey}]]
    BY <1>3, <1>4, <1>5
  <2>2. /\ db.mark \in [Message -> [Revision -> [Stage -> MarkRow]]]
        /\ db.made \in [Message -> [Revision -> Nat]]
        /\ db.drafts \in SUBSET DraftRow /\ db.posted \in [Message -> SomeTask]
    BY <1>3, <1>5 DEF SomeTask
  <2> QED
    BY <1>5, <2>1, <2>2 DEF DbType
<1>7. PipeType
  <2>1. shown \in [Message -> Nat] /\ \A m \in Message : shown[m] <= Len(Script[m])
    BY ScriptAssumption DEF Init
  <2>2. retry \in [Attempt -> AttemptRow] /\ RetryInv
    BY <1>2 DEF Init, RetryInv
  <2> QED
    BY <1>1, <1>6, <2>1, <2>2 DEF Init, PipeType
<1>8. Pending = {}
  BY <1>1 DEF Pending
<1>9. SeesInv /\ DecisionInv /\ MarkInv
  BY <1>1, <1>8 DEF SeesInv, DecisionInv, MarkInv, OneMark, Owes, Starting, Live
<1>10. ShownInv
  BY <1>1, <1>4, <1>5 DEF ShownInv
<1>11. BlankInv
  BY <1>3, <1>5 DEF BlankInv, Blank, MarkOf
<1>12. ToldInv
  BY <1>1, <1>4, <1>5 DEF ToldInv, Announced
<1> QED
  BY <1>7, <1>9, <1>10, <1>11, <1>12 DEF PipeInv

LEMMA PipeStep == ASSUME PipeInv, [Next]_vars PROVE PipeInv'
<1>1. CASE UNCHANGED vars
  <2>1. /\ DbType(db') /\ retry' \in [Attempt -> AttemptRow] /\ RetryInv' /\ ends' \in Nat
        /\ shown' \in [Message -> Nat]
        /\ \A n \in Message : shown[n] <= shown'[n] /\ shown'[n] <= Len(Script[n])
    BY <1>1 DEF vars, PipeInv, PipeType, RetryInv
  <2> QED
    BY <1>1, <2>1, BesideStep DEF vars
<1>2. CASE Work
  <2>1. CASE Confirm \/ Restore \/ Accept \/ Commit
    BY <2>1, ConfirmSafe, RestoreSafe, AcceptSafe, CommitSafe
  <2>2. CASE RouteIneligible \/ RouteDuplicate \/ RouteMessage
    BY <2>2, RouteIneligibleSafe, RouteDuplicateSafe, RouteMessageSafe
  <2>3. CASE Download \/ Process
    BY <2>3, DownloadSafe, ProcessSafe
  <2>4. CASE Router
    BY <2>4, RouterFailsSafe, RouterUnsureSafe, RouterIgnoresSafe, RouterOpensSafe,
       RouterAttachesSafe, RouterReopensSafe DEF Router
  <2>5. CASE Session
    BY <2>5, SessionBlockedSafe, PreflightSafe, AgentFailsSafe, AgentEscalatesSafe,
       AgentQuietSafe, AgentAnswersSafe, AgentCorrectsSafe DEF Session
  <2>6. CASE BeginRetry \/ FinishRetry
    BY <2>6, BeginRetrySafe, FinishRetrySafe
  <2> QED
    BY <1>2, <2>1, <2>2, <2>3, <2>4, <2>5, <2>6 DEF Work
<1>3. CASE Environment
  BY <1>3, PublishSafe, SendSafe, EndTaskSafe DEF Environment
<1>4. CASE Operator
  BY <1>4, RequestRetrySafe DEF Operator
<1>5. CASE Polls
  BY <1>5, DeliverSafe DEF Polls
<1>6. CASE \E a \in Attempt : ClaimRetry(a)
  BY <1>6, ClaimRetrySafe
<1> QED
  BY <1>1, <1>2, <1>3, <1>4, <1>5, <1>6, FaultsSafe DEF Next

(* Wherever a delivery, a retry or the operator meets a crash, an edit or  *)
(* another poll: what a handler goes by still agrees with the store, what  *)
(* it has not written yet is still in its queue, and a revision that was   *)
(* never routed has no marker.                                             *)
THEOREM PipeInvariant == Spec => []PipeInv
<1>1. Init => PipeInv
  BY PipeInit
<1>2. PipeInv /\ [Next]_vars => PipeInv'
  BY PipeStep
<1> QED
  BY <1>1, <1>2, PTL DEF Spec

(* Whatever is late, edited or retried, the agents read the wording and    *)
(* revision that the store holds, and never a withdrawn message.           *)
THEOREM StoredIsSeen == Spec => []AgentSeesStored
<1>1. PipeInv => AgentSeesStored
  BY DEF PipeInv, SeesInv, AgentSeesStored, Holds, Live
<1> QED
  BY <1>1, PipeInvariant, PTL

(* Without faults no stage of a current revision waits for the operator    *)
(* unannounced: every marker that stops a stage is queued with its notice. *)
THEOREM StopsAreTold == Spec => []FailuresAreTold
<1>1. PipeInv => FailuresAreTold
  <2> SUFFICES ASSUME PipeInv, work.at = "idle", faults = 0, NEW m \in Message, NEW g \in Stage,
                      db.row[m].rev > 0, ~db.row[m].gone,
                      MarkOf(m, db.row[m].rev, g) \in {"failed", "blocked"}
               PROVE  <<m, db.row[m].rev, g>> \in db.told
    BY DEF FailuresAreTold
  <2>1. Pending = {}
    BY DEF PipeInv, PipeType, WorkInv, Pending
  <2> QED
    BY <2>1 DEF PipeInv, ToldInv
<1> QED
  BY <1>1, PipeInvariant, PTL

(* Rows change by an upsert only; markers, decisions and the number of     *)
(* drafts by a commit only.                                                *)
SameAnswers == db'.dec = db.dec /\ db'.mark = db.mark /\ db'.made = db.made
LEMMA RowsAndMarks ==
  ASSUME PipeInv, Next
  PROVE  \/ db'.row = db.row /\ SameAnswers
         \/ Commit
         \/ SameAnswers /\ Restore
         \/ /\ SameAnswers
            /\ \E m \in Present, src \in Sources : \E i \in 1..shown[m] : Deliver(m, i, src)
<1> USE DEF ReadOnly, SameAnswers
<1>0. DbType(db)
  BY DEF PipeInv, PipeType
<1>1. CASE Download \/ Preflight
  <2>1. db' = db \/ \E m, v : db' = [db EXCEPT !.res[m] = v]
    BY <1>1 DEF Download, Preflight
  <2> QED
    BY <1>0, <2>1, ResChanges DEF SameDb, SameCore
<1>2. CASE FinishRetry
  <2>1. PICK told : db' = [db EXCEPT !.told = told]
    BY <1>2 DEF FinishRetry
  <2> QED
    BY <1>0, <2>1 DEF DbType, IsDb
<1>3. CASE \E p \in db.drafts : Send(p)
  <2>0. PICK p \in db.drafts : Send(p)
    BY <1>3
  <2>a. PICK a, b, c :
          /\ a = db.drafts \ {p} /\ b = db.sent \cup {p}
          /\ c = [n \in Message |-> IF Role[n] = "self_message" /\ n \in Present
                                       /\ db.posted[n] = NoTask THEN p.task ELSE db.posted[n]]
    OBVIOUS
  <2>1. db' = [db EXCEPT !.drafts = a, !.sent = b, !.posted = c]
    BY <2>0, <2>a DEF Send
  <2> QED
    BY <1>0, <2>1 DEF DbType, IsDb
<1>4. CASE \E t \in Task : EndTask(t)
  <2>1. PICK t \in Task : CloseTask(t) \/ Lapse(t)
    BY <1>4 DEF EndTask
  <2>2. CASE CloseTask(t)
    BY <1>0, <2>2, EndedIs DEF CloseTask, DbType, SameDb, SameCore
  <2>3. CASE Lapse(t)
    BY <1>0, <2>3 DEF Lapse, DbType, IsDb
  <2> QED
    BY <2>1, <2>2, <2>3
<1>5. CASE \/ Confirm \/ Accept \/ RouteIneligible \/ RouteDuplicate \/ RouteMessage \/ Process
  BY <1>5 DEF Confirm, Accept, RouteIneligible, RouteDuplicate, RouteMessage, Process
<1>6. CASE Router
  BY <1>6 DEF Router, RouterFails, RouterUnsure, RouterIgnores, RouterOpens, RouterAttaches,
              RouterReopens
<1>7. CASE \/ SessionBlocked \/ AgentFails \/ AgentEscalates \/ AgentCorrects
           \/ \E status \in {"watching", "closed"} : AgentQuiet(status) \/ AgentAnswers(status)
  BY <1>7 DEF SessionBlocked, AgentFails, AgentEscalates, AgentCorrects, AgentQuiet,
              AgentAnswers
<1>8. CASE BeginRetry \/ Faults \/ Operator \/ \E a \in Attempt : ClaimRetry(a)
  <2>1. db' = db
    <3>1. CASE BeginRetry
      BY <3>1 DEF BeginRetry
    <3>2. CASE Faults
      BY <3>2 DEF Faults, ConfirmFails, RetryRaises, Crash
    <3>3. CASE Operator
      <4>1. PICK a \in Attempt, m \in Message, g \in Stage : RequestRetry(a, m, g)
        BY <3>3 DEF Operator
      <4> QED
        BY <4>1 DEF RequestRetry
    <3>4. CASE \E a \in Attempt : ClaimRetry(a)
      BY <3>4 DEF ClaimRetry
    <3> QED
      BY <1>8, <3>1, <3>2, <3>3, <3>4
  <2> QED
    BY <2>1
<1>9. CASE \E m \in Message : Publish(m)
  BY <1>9 DEF Publish
<1>10. CASE Restore
  <2>1. PICK u, n : u = Stored!Upsert(db.row[work.m], work.s, work.s.dead, TRUE) /\ n = work.m
    OBVIOUS
  <2>2. PICK row : row = u.row
    OBVIOUS
  <2>3. db' = [db EXCEPT !.row[n] = row]
    BY <1>10, <2>1, <2>2 DEF Restore, Upserts
  <2> QED
    BY <1>0, <1>10, <2>3 DEF DbType, IsDb
<1>11. CASE \E m \in Present, src \in Sources : \E i \in 1..shown[m] : Deliver(m, i, src)
  <2>1. PICK n \in Present, src \in Sources : \E i \in 1..shown[n] : Deliver(n, i, src)
    BY <1>11
  <2>2. PICK i \in 1..shown[n] : Deliver(n, i, src)
    BY <2>1
  <2>3. PICK u, row :
          u = Stored!Upsert(db.row[n], Script[n][i], Script[n][i].dead, FALSE) /\ row = u.row
    OBVIOUS
  <2>4. db' = [db EXCEPT !.row[n] = row]
    BY <2>2, <2>3 DEF Deliver
  <2> QED
    BY <1>0, <1>11, <2>4 DEF DbType, IsDb
<1> QED
  BY <1>1, <1>2, <1>3, <1>4, <1>5, <1>6, <1>7, <1>8, <1>9, <1>10, <1>11
     DEF Next, Work, Session, Environment, Polls

(* A wording the store has replaced comes back only if the provider showed *)
(* it while the message was handled: a late poll alone cannot undo an edit.*)
THEOREM EditsStay == Spec => NoRollback
<1> DEFINE Back(m) == /\ db'.row[m].hash # db.row[m].hash /\ db'.row[m].hash \in db.row[m].seen
           Showed(m) == \E i \in work'.since..shown[m] : Script[m][i] = db'.row[m].hash
<1>1. ASSUME PipeInv, [Next]_vars, NEW m \in Message, Back(m) PROVE Showed(m)
  <2>1. DbType(db)
    BY <1>1 DEF PipeInv, PipeType
  <2>2. db'.row # db.row
    BY <1>1
  <2>3. Next /\ ~Commit
    <3>1. Next
      BY <1>1, <2>2 DEF vars
    <3>2. ASSUME Commit PROVE FALSE
      <4>1. PICK o : Commits(o) /\ db' = After(db, work, o)
        BY <1>1, <3>2, CommitWork
      <4>2. work.m \in Message /\ work.r \in Revision
        BY <1>1, <3>2 DEF PipeInv, PipeType, WorkInv, Commit
      <4> QED
        BY <2>1, <2>2, <4>1, <4>2, CommitStore DEF Commits, CommitDb
    <3> QED
      BY <3>1, <3>2
  <2>4. CASE Restore
    <3>1. /\ work.at = "restore" /\ work.m \in Message /\ work.s \in Snapshots
          /\ work \in WorkRow
          /\ \E i \in work.since..shown[work.m] : work.s = Script[work.m][i]
      BY <1>1, <2>4 DEF PipeInv, PipeType, WorkInv, Restore, ShownInv
    <3>0. PICK n, s : n = work.m /\ s = work.s
      OBVIOUS
    <3>c. PICK c \in BOOLEAN : c = TRUE
      OBVIOUS
    <3>2. PICK u : u = Stored!Upsert(db.row[n], s, s.dead, c)
      OBVIOUS
    <3>3. /\ u.row.rev <= MaxRevision /\ db' = [db EXCEPT !.row[n] = u.row]
          /\ work' = [work EXCEPT !.at = "accepted", !.r = u.row.rev, !.ins = u.inserted,
                                  !.chg = u.changed]
      BY <2>4, <3>0, <3>2, <3>c DEF Restore, Upserts
    <3>4. /\ db.row[n] \in StoredRow /\ s.dead \in BOOLEAN
          /\ (db.row[n].rev = 0 => db.row[n].seen = {})
      BY <1>1, <2>1, <3>0, <3>1, ScriptAssumption DEF PipeInv, DbType, ShownInv
    <3>5. u.row.hash # db.row[n].hash /\ u.row.hash \in db.row[n].seen => u.row.hash = s
      <4>1. s \in Snapshots /\ u.row.rev <= MaxRevision
        BY <3>0, <3>1, <3>3
      <4>2. u.row.hash # db.row[n].hash /\ u.row.hash \in db.row[n].seen => c /\ u.row.hash = s
        <5>1. PICK row, dead : row = db.row[n] /\ dead = s.dead
          OBVIOUS
        <5>2. u = Stored!Upsert(row, s, dead, c)
          BY <3>2, <5>1
        <5>3. /\ row \in StoredRow /\ dead \in BOOLEAN /\ (row.rev = 0 => row.seen = {})
          BY <3>4, <5>1
        <5>4. u.row.hash # row.hash /\ u.row.hash \in row.seen => c /\ u.row.hash = s
          BY <4>1, <5>2, <5>3, UpsertIs
        <5> QED
          BY <5>1, <5>4
      <4> QED
        BY <4>2
    <3>6. db'.row = [db.row EXCEPT ![n] = u.row]
      BY <2>1, <3>3 DEF DbType, IsDb
    <3>7. n = m /\ db'.row[m] = u.row
      BY <1>1, <2>1, <3>0, <3>1, <3>6 DEF DbType
    <3>8. work'.since = work.since
      BY <3>1, <3>3 DEF WorkRow
    <3> QED
      BY <1>1, <3>0, <3>1, <3>5, <3>7, <3>8
  <2>5. CASE \E n \in Present, src \in Sources : \E i \in 1..shown[n] : Deliver(n, i, src)
    <3>1. PICK n \in Present, src \in Sources : \E i \in 1..shown[n] : Deliver(n, i, src)
      BY <2>5
    <3>2. PICK i \in 1..shown[n] : Deliver(n, i, src)
      BY <3>1
    <3>3. n \in Message /\ shown[n] \in Nat /\ shown[n] <= Len(Script[n])
      <4>1. cast.messages \in Message \X Message
        BY <1>1, ScriptAssumption DEF PipeInv, PipeType
      <4>2. n \in Message
        BY <4>1 DEF Present
      <4> QED
        BY <1>1, <4>2 DEF PipeInv, PipeType
    <3>4. PICK s : s = Script[n][i]
      OBVIOUS
    <3>5. s \in Snapshots
      <4>1. i \in DOMAIN Script[n]
        BY <3>3, ScriptAssumption
      <4> QED
        BY <3>3, <3>4, <4>1 DEF Snapshots
    <3>6. PICK c \in BOOLEAN : c = FALSE
      OBVIOUS
    <3>7. PICK u : u = Stored!Upsert(db.row[n], s, s.dead, c)
      OBVIOUS
    <3>8. u.row.rev <= MaxRevision /\ db' = [db EXCEPT !.row[n] = u.row]
      BY <3>2, <3>4, <3>6, <3>7 DEF Deliver
    <3>9. /\ db.row[n] \in StoredRow /\ s.dead \in BOOLEAN
          /\ (db.row[n].rev = 0 => db.row[n].seen = {})
      BY <1>1, <2>1, <3>3, <3>5, ScriptAssumption DEF PipeInv, DbType, ShownInv
    <3>10. u.row.hash # db.row[n].hash /\ u.row.hash \in db.row[n].seen => c
      <4>1. PICK row, dead : row = db.row[n] /\ dead = s.dead
        OBVIOUS
      <4>2. u = Stored!Upsert(row, s, dead, c)
        BY <3>7, <4>1
      <4>3. /\ row \in StoredRow /\ dead \in BOOLEAN /\ (row.rev = 0 => row.seen = {})
        BY <3>9, <4>1
      <4>4. u.row.hash # row.hash /\ u.row.hash \in row.seen => c /\ u.row.hash = s
        BY <3>5, <3>8, <4>2, <4>3, UpsertIs
      <4> QED
        BY <4>1, <4>4
    <3>11. db'.row = [db.row EXCEPT ![n] = u.row]
      BY <2>1, <3>8 DEF DbType, IsDb
    <3>12. n = m /\ db'.row[m] = u.row
      BY <1>1, <2>1, <3>3, <3>11 DEF DbType
    <3>13. ~c
      BY <3>6
    <3> QED
      BY <1>1, <3>10, <3>12, <3>13
  <2> QED
    BY <1>1, <2>2, <2>3, <2>4, <2>5, RowsAndMarks
<1>2. PipeInv /\ [Next]_vars =>
        [\A m \in Message :
           LET old == db.row[m]  new == db'.row[m] IN
           new.hash # old.hash /\ new.hash \in old.seen =>
             \E i \in work'.since..shown[m] : Script[m][i] = new.hash]_vars
  BY <1>1
<1> QED
  BY <1>2, PipeInvariant, PTL DEF Spec, NoRollback

(* Redelivery, edits and crashes leave a final router or session marker    *)
(* alone: only a retry that the operator asked for may replace it.         *)
THEOREM FinalMarkersStay == Spec => FinalStaysFinal
<1>1. ASSUME PipeInv, [Next]_vars, NEW m \in Message, NEW r \in Revision,
             NEW g \in {"task_router", "task_session"},
             MarkOf(m, r, g) \in Final, db'.mark[m][r][g].status # MarkOf(m, r, g)
      PROVE  work.attempt # NoKey
  <2>1. DbType(db) /\ g \in Stage
    BY <1>1 DEF PipeInv, PipeType, Stage
  <2>2. db'.mark # db.mark
    BY <1>1 DEF MarkOf
  <2>3. CASE Commit
    <3>1. PICK o : Commits(o) /\ db' = After(db, work, o)
      BY <1>1, <2>3, CommitWork
    <3>2. work.m \in Message /\ work.r \in Revision
      BY <1>1, <2>3 DEF PipeInv, PipeType, WorkInv, Commit
    <3>3. m = work.m /\ r = work.r /\ g = o.what /\ Marks(o)
      <4>1. CommitDb(o)
        BY <2>1, <3>1, <3>2, CommitStore DEF Commits
      <4>2. MarkOf(m, r, g)' = (IF m = work.m /\ r = work.r /\ g = o.what /\ Marks(o)
                                THEN o.status ELSE MarkOf(m, r, g))
        BY <1>1, <2>1, <4>1 DEF CommitDb
      <4>3. MarkOf(m, r, g)' # MarkOf(m, r, g)
        BY <1>1 DEF MarkOf
      <4> QED
        BY <4>2, <4>3
    <3>4. Owes(g)
      BY <3>1, <3>3 DEF Owes, Commits
    <3> QED
      BY <1>1, <3>3, <3>4 DEF PipeInv, MarkInv
  <2>4. Next
    BY <1>1, <2>2 DEF vars
  <2> QED
    BY <1>1, <2>2, <2>3, <2>4, RowsAndMarks DEF SameAnswers
<1>2. PipeInv /\ [Next]_vars =>
        [\A m \in Message, r \in Revision, g \in {"task_router", "task_session"} :
           MarkOf(m, r, g) \in Final /\ db'.mark[m][r][g].status # MarkOf(m, r, g)
             => work.attempt # NoKey]_vars
  BY <1>1
<1> QED
  BY <1>2, PipeInvariant, PTL DEF Spec, FinalStaysFinal

-------------------------------------------------------------------------------
(* One answer: what a revision has been answered, whoever may still answer *)
(* it, and what may still start one count against faults and the retries   *)
(* of its resources.                                                       *)

Mine(m, r) == work.at # "idle" /\ work.m = m /\ work.r = r
For(g) == work.attempt # NoKey /\ retry[work.attempt].stage = g
SessionMark(o) == Marks(o) /\ o.what = "task_session"
RouterMark(o) == Marks(o) /\ o.what = "task_router"
Stopped == {"failed", "blocked"}
Unclaimed(m, r, g) == \E a \in Attempt : /\ retry[a].state = "queued" /\ retry[a].m = m
                                         /\ retry[a].r = r /\ retry[a].stage = g

(* The handler runs the session, or has its draft or its failure to write. *)
Going ==
  \/ work.at \in {"session", "agent"} \/ work.next = "session"
  \/ work.at \in {"download", "process"} /\ work.then.route \in SessionRoutes
  \/ work.at = "claimed" /\ (For("task_session") \/ For("resource_download"))
  \/ \E o \in Pending : o.do = "draft" \/ (SessionMark(o) /\ o.status # "processed")
Closing == \E o \in Pending : SessionMark(o) /\ o.status = "processed"
Answering(m, r) == Mine(m, r) /\ Going

(* A router may still answer this revision's question.                     *)
Routable(m, r) ==
  \/ db.dec[m][r] = Undecided \/ db.dec[m][r].route \in Placeholders
  \/ MarkOf(m, r, "task_router") \in Stopped
Deciding(m, r) == Routable(m, r) /\ ~(Mine(m, r) /\ work.next = "session")

(* A session may still start, of a retry or of a delivery.                 *)
Opens(m, r) ==
  \/ Unclaimed(m, r, "task_session")
  \/ /\ MarkOf(m, r, "task_session") \in Stopped
     /\ ~(Mine(m, r) /\ For("task_session") /\ (Going \/ Closing))
  \/ /\ MarkOf(m, r, "task_session") = "none" /\ db.dec[m][r].route \in SessionRoutes
     /\ ~(Mine(m, r) /\ ~For("resource_download") /\ (Going \/ Closing))

Began(m, r) == {a \in Attempt : /\ retry[a].m = m /\ retry[a].r = r
                                /\ retry[a].stage = "resource_download"
                                /\ retry[a].state \notin {"free", "queued"}}
One01(b) == IF b THEN 1 ELSE 0
Spent(m, r) ==
  db.made[m][r] + One01(Answering(m, r)) + One01(Deciding(m, r)) + One01(Opens(m, r))
BudgetInv ==
  \A m \in Message, r \in Revision : Spent(m, r) <= 1 + faults + Cardinality(Began(m, r))

(* Retry attempts.                                                         *)
InPlay(a) == retry[a].state \in {"queued", "claimed"}
SameStage(a, b) == /\ retry[a].m = retry[b].m /\ retry[a].r = retry[b].r
                   /\ retry[a].stage = retry[b].stage
ClaimInv ==
  /\ work.attempt # NoKey => LET row == retry[work.attempt] IN
       row.state = "claimed" /\ row.m = work.m /\ row.r = work.r
  /\ \A a, b \in Attempt : InPlay(a) /\ InPlay(b) /\ SameStage(a, b) => a = b
  /\ \A a \in Attempt : InPlay(a) => MarkOf(retry[a].m, retry[a].r, retry[a].stage) # "none"
  /\ \A a \in Attempt : retry[a].state = "queued" /\ retry[a].stage = "task_router" =>
       MarkOf(retry[a].m, retry[a].r, "task_router") \in Stopped

(* A failed router marker is written first, a draft before its marker.     *)
Shaped(todo) ==
  \A i \in DOMAIN todo :
    /\ RouterMark(todo[i]) /\ todo[i].status # "processed" => i = 1
    /\ todo[i].do = "draft" =>
         /\ \E j \in DOMAIN todo :
              j > i /\ SessionMark(todo[j]) /\ todo[j].status = "processed"
         /\ \A j \in DOMAIN todo : todo[j].do = "draft" => j = i

(* Who asks the router, and what of its answer is still to be written.     *)
RouterWork == \/ work.at = "router"
              \/ work.at \in {"download", "process"} /\ work.then.route \in Placeholders
AnswerInv ==
  /\ RouterWork \/ work.next = "session" \/ (\E o \in Pending : RouterMark(o)) =>
       work.attempt = NoKey \/ For("task_router")
  /\ work.next = "download" => work.attempt = NoKey
  /\ \/ RouterWork \/ (work.at = "claimed" /\ For("task_router"))
     \/ \E o \in Pending : RouterMark(o) /\ o.status # "processed"
     => Routable(work.m, work.r)
  /\ work.next = "session" =>
       /\ \A o \in Pending : Marks(o) => RouterMark(o) /\ o.status = "processed"
       /\ \/ MarkOf(work.m, work.r, "task_router") = "processed"
          \/ \E o \in Pending : Marks(o)
  /\ \A o \in Pending : Decides(o) /\ o.what \in SessionRoutes =>
       work.next = "session" \/ (Handled = Undecided /\ Len(work.todo) = 1)

OnceInv == ClaimInv /\ Shaped(work.todo) /\ AnswerInv /\ BudgetInv

-------------------------------------------------------------------------------
(* What one revision's count may trade in a step: who answers it, who may  *)
(* still decide and what may still open, for one another, a fault, a retry *)
(* of its resources or a draft.                                            *)
Fair(m, r) == faults' = faults /\ Began(m, r)' = Began(m, r)
Trade(m, r) ==
  \/ /\ Fair(m, r) /\ db'.made[m][r] = db.made[m][r]
     /\ \/ /\ Answering(m, r)' => Answering(m, r)
           /\ Deciding(m, r)' => Deciding(m, r)
           /\ Opens(m, r)' => Opens(m, r)
        \/ Answering(m, r) /\ ~Answering(m, r)' /\ (Deciding(m, r)' => Deciding(m, r))
        \/ Opens(m, r) /\ ~Opens(m, r)' /\ (Deciding(m, r)' => Deciding(m, r))
        \/ Deciding(m, r) /\ ~Deciding(m, r)' /\ (Opens(m, r)' => Opens(m, r))
        \/ /\ Deciding(m, r) /\ ~Deciding(m, r)' /\ ~Answering(m, r)
           /\ ~(Answering(m, r)' /\ Opens(m, r)')
  \/ /\ db'.made[m][r] = db.made[m][r] /\ Began(m, r)' = Began(m, r) /\ faults' = faults + 1
     /\ ~Answering(m, r)' /\ (Deciding(m, r)' => Deciding(m, r) \/ Answering(m, r))
  \/ /\ db'.made[m][r] = db.made[m][r] /\ faults' = faults
     /\ \E a \in Attempt \ Began(m, r) : Began(m, r)' = Began(m, r) \cup {a}
     /\ Deciding(m, r)' => Deciding(m, r)
     /\ Opens(m, r)' => Opens(m, r)
  \/ /\ Fair(m, r) /\ db'.made[m][r] \in db.made[m][r]..(db.made[m][r] + 1)
     /\ Answering(m, r) /\ ~Answering(m, r)'
     /\ Deciding(m, r)' => Deciding(m, r)
     /\ Opens(m, r)' => Opens(m, r)

LEMMA BeganIs == ASSUME NEW m, NEW r PROVE IsFiniteSet(Began(m, r)) /\ Cardinality(Began(m, r)) \in Nat
<1>1. Began(m, r) \subseteq Attempt
  BY DEF Began
<1> QED
  BY <1>1, ScriptAssumption, FS_Subset, FS_CardinalityType

LEMMA Within ==
  ASSUME NEW m \in Message, NEW r \in Revision, DbType(db), DbType(db'), faults \in Nat,
         Spent(m, r) <= 1 + faults + Cardinality(Began(m, r)), Trade(m, r)
  PROVE  Spent(m, r)' <= 1 + faults' + Cardinality(Began(m, r)')
<1>1. PICK x, y, f, g, c, e : /\ x = db.made[m][r] /\ y = db'.made[m][r]
                              /\ f = faults /\ g = faults'
                              /\ c = Cardinality(Began(m, r)) /\ e = Cardinality(Began(m, r)')
  OBVIOUS
<1>2. x \in Nat /\ y \in Nat /\ f \in Nat /\ c \in Nat
  BY <1>1, BeganIs DEF DbType
<1>3. PICK a, d, o, a2, d2, o2 :
        /\ a = One01(Answering(m, r)) /\ d = One01(Deciding(m, r)) /\ o = One01(Opens(m, r))
        /\ a2 = One01(Answering(m, r)') /\ d2 = One01(Deciding(m, r)') /\ o2 = One01(Opens(m, r)')
  OBVIOUS
<1>4. {a, d, o, a2, d2, o2} \subseteq {0, 1}
  BY <1>3 DEF One01
<1>5. x + a + d + o <= 1 + f + c
  BY <1>1, <1>3 DEF Spent
<1>6. (\E b \in Attempt \ Began(m, r) : Began(m, r)' = Began(m, r) \cup {b}) => e = c + 1
  BY <1>1, BeganIs, FS_AddElement
<1>7. /\ Answering(m, r) <=> a = 1
      /\ Deciding(m, r) <=> d = 1
      /\ Opens(m, r) <=> o = 1
      /\ Answering(m, r)' <=> a2 = 1
      /\ Deciding(m, r)' <=> d2 = 1
      /\ Opens(m, r)' <=> o2 = 1
  BY <1>3 DEF One01
<1>8. \/ /\ g = f /\ e = c /\ y = x
         /\ \/ (a2 = 1 => a = 1) /\ (d2 = 1 => d = 1) /\ (o2 = 1 => o = 1)
            \/ a = 1 /\ a2 # 1 /\ (d2 = 1 => d = 1)
            \/ o = 1 /\ o2 # 1 /\ (d2 = 1 => d = 1)
            \/ d = 1 /\ d2 # 1 /\ (o2 = 1 => o = 1)
            \/ d = 1 /\ d2 # 1 /\ a # 1 /\ ~(a2 = 1 /\ o2 = 1)
      \/ y = x /\ e = c /\ g = f + 1 /\ a2 # 1 /\ (d2 = 1 => d = 1 \/ a = 1)
      \/ y = x /\ g = f /\ e = c + 1 /\ (d2 = 1 => d = 1) /\ (o2 = 1 => o = 1)
      \/ /\ g = f /\ e = c /\ y \in x..(x + 1) /\ a = 1 /\ a2 # 1
         /\ (d2 = 1 => d = 1) /\ (o2 = 1 => o = 1)
  BY <1>1, <1>6, <1>7 DEF Trade, Fair
<1>9. y + a2 + d2 + o2 <= 1 + g + e
  BY <1>2, <1>4, <1>5, <1>8
<1> QED
  BY <1>1, <1>3, <1>9 DEF Spent

LEMMA Balanced ==
  ASSUME PipeInv, PipeInv', BudgetInv, \A m \in Message, r \in Revision : Trade(m, r)
  PROVE  BudgetInv'
<1> SUFFICES ASSUME NEW m \in Message, NEW r \in Revision
             PROVE  Spent(m, r)' <= 1 + faults' + Cardinality(Began(m, r)')
  BY DEF BudgetInv
<1> QED
  BY Within DEF PipeInv, PipeType, BudgetInv

(* A step that writes no marker, no decision and no draft.                 *)
Calm == SameAnswers /\ retry' = retry /\ faults' = faults
Keeps == work'.m = work.m /\ work'.r = work.r /\ work'.attempt = work.attempt

(* A calm step of a handler that neither runs a session nor ends one, or   *)
(* of one that runs it and goes on with the same message, or stops.        *)
LEMMA CalmTrade ==
  ASSUME SameAnswers, faults' = faults, NEW m \in Message, NEW r \in Revision,
         Began(m, r)' = Began(m, r),
         Unclaimed(m, r, "task_session")' => Unclaimed(m, r, "task_session"),
         work.next # "session", work'.next # "session",
         \/ ~Going /\ ~Closing /\ ~Going' /\ ~Closing'
         \/ /\ Going /\ work.at # "idle"
            /\ work' = NoWork \/ (Keeps /\ retry' = retry)
  PROVE  Trade(m, r)
<1>1. /\ Routable(m, r)' = Routable(m, r) /\ \A g : MarkOf(m, r, g)' = MarkOf(m, r, g)
      /\ db'.dec[m][r] = db.dec[m][r] /\ db'.made[m][r] = db.made[m][r]
  BY DEF SameAnswers, Routable, MarkOf
<1>2. Deciding(m, r)' => Deciding(m, r)
  BY <1>1 DEF Deciding
<1>3. Fair(m, r)
  BY DEF Fair
<1>4. CASE ~Going /\ ~Closing /\ ~Going' /\ ~Closing'
  <2>1. ~Answering(m, r)'
    BY <1>4 DEF Answering
  <2>2. Opens(m, r)' => Opens(m, r)
    BY <1>1, <1>4 DEF Opens
  <2> QED
    BY <1>1, <1>2, <1>3, <2>1, <2>2 DEF Trade
<1>5. CASE Going /\ Mine(m, r) /\ ~Answering(m, r)'
  <2>1. Answering(m, r)
    BY <1>5 DEF Answering
  <2> QED
    BY <1>1, <1>2, <1>3, <1>5, <2>1 DEF Trade
<1>6. CASE Going /\ Mine(m, r) /\ Answering(m, r)'
  <2>1. Mine(m, r)' /\ Going'
    BY <1>6 DEF Answering
  <2>2. work' # NoWork
    BY <2>1 DEF Mine, NoWork
  <2>3. retry' = retry /\ work'.attempt = work.attempt
    BY <1>6, <2>1, <2>2 DEF Keeps
  <2>4. For("task_session")' = For("task_session") /\ For("resource_download")' = For("resource_download")
    BY <2>3 DEF For
  <2>5. Opens(m, r)' => Opens(m, r)
    BY <1>1, <1>6, <2>1, <2>4 DEF Opens
  <2>6. Answering(m, r)
    BY <1>6 DEF Answering
  <2> QED
    BY <1>1, <1>2, <1>3, <2>5, <2>6 DEF Trade
<1>7. CASE Going /\ ~Mine(m, r)
  <2>1. ~Mine(m, r)'
    BY <1>7 DEF Mine, Keeps, NoWork
  <2>2. ~Answering(m, r)'
    BY <2>1 DEF Answering
  <2>3. Opens(m, r)' => Opens(m, r)
    BY <1>1, <1>7, <2>1 DEF Opens
  <2> QED
    BY <1>1, <1>2, <1>3, <2>2, <2>3 DEF Trade
<1> QED
  BY <1>4, <1>5, <1>6, <1>7

LEMMA ClaimsKept ==
  ASSUME PipeInv, ClaimInv, Calm, work'.attempt = NoKey \/ Keeps
  PROVE  ClaimInv'
<1>1. (work.attempt # NoKey => LET row == retry[work.attempt] IN
         row.state = "claimed" /\ row.m = work.m /\ row.r = work.r)'
  BY DEF ClaimInv, Calm, Keeps
<1>2. \A a, b \in Attempt : InPlay(a)' /\ InPlay(b)' /\ SameStage(a, b)' => a = b
  BY DEF ClaimInv, Calm, InPlay, SameStage
<1>3. \A a \in Attempt :
        (InPlay(a) => MarkOf(retry[a].m, retry[a].r, retry[a].stage) # "none")'
  BY DEF ClaimInv, Calm, SameAnswers, InPlay, MarkOf
<1>4. \A a \in Attempt :
        (retry[a].state = "queued" /\ retry[a].stage = "task_router" =>
          MarkOf(retry[a].m, retry[a].r, "task_router") \in Stopped)'
  BY DEF ClaimInv, Calm, SameAnswers, MarkOf
<1> QED
  BY <1>1, <1>2, <1>3, <1>4 DEF ClaimInv

LEMMA AnswerKept ==
  ASSUME AnswerInv, Calm, work'.next \notin {"session", "download"}, work'.at # "claimed",
         RouterWork' \/ (\E o \in Pending' : RouterMark(o)) => RouterWork /\ Keeps,
         \A o \in Pending' : ~(Decides(o) /\ o.what \in SessionRoutes)
  PROVE  AnswerInv'
<1>1. RouterWork' \/ (\E o \in Pending' : RouterMark(o)) =>
        work'.attempt = NoKey \/ For("task_router")'
  BY DEF AnswerInv, Calm, Keeps, For
<1>2. RouterWork /\ Keeps => Routable(work.m, work.r)'
  BY DEF AnswerInv, Calm, SameAnswers, Keeps, Routable, MarkOf
<1> QED
  BY <1>1, <1>2 DEF AnswerInv

(* A calm step: it keeps its handler out of the router and the session, or *)
(* in them, and queues no session decision.                                *)
LEMMA CalmStep ==
  ASSUME PipeInv, PipeInv', OnceInv, Calm, Shaped(work'.todo),
         work.next # "session", work'.next \notin {"session", "download"}, work'.at # "claimed",
         work'.attempt = NoKey \/ Keeps,
         \/ ~Going /\ ~Closing /\ ~Going' /\ ~Closing'
         \/ Going /\ work.at # "idle" /\ (work' = NoWork \/ Keeps),
         RouterWork' \/ (\E o \in Pending' : RouterMark(o)) => RouterWork /\ Keeps,
         \A o \in Pending' : ~(Decides(o) /\ o.what \in SessionRoutes)
  PROVE  OnceInv'
<1>1. ClaimInv'
  BY ClaimsKept DEF OnceInv
<1>2. AnswerInv'
  BY AnswerKept DEF OnceInv
<1>3. ASSUME NEW m \in Message, NEW r \in Revision PROVE Trade(m, r)
  <2>1. /\ Began(m, r)' = Began(m, r)
        /\ Unclaimed(m, r, "task_session")' => Unclaimed(m, r, "task_session")
    BY DEF Calm, Began, Unclaimed
  <2> QED
    BY <2>1, CalmTrade DEF Calm
<1>4. BudgetInv'
  BY <1>3, Balanced DEF OnceInv
<1> QED
  BY <1>1, <1>2, <1>4 DEF OnceInv

(* What others do while a handler runs.                                    *)
LEMMA BesideOnce == ASSUME PipeInv, PipeInv', OnceInv, Calm, work' = work PROVE OnceInv'
<1>1. ClaimInv'
  BY ClaimsKept DEF OnceInv, Keeps
<1>2. AnswerInv'
  BY DEF OnceInv, AnswerInv, Calm, SameAnswers, RouterWork, Pending, For, Routable, MarkOf,
         Handled
<1>3. ASSUME NEW m \in Message, NEW r \in Revision PROVE Trade(m, r)
  <2>1. /\ Answering(m, r)' = Answering(m, r) /\ Deciding(m, r)' = Deciding(m, r)
        /\ Opens(m, r)' = Opens(m, r) /\ Fair(m, r) /\ db'.made[m][r] = db.made[m][r]
    BY DEF Answering, Deciding, Opens, Fair, Mine, Going, Closing, Pending, For, Routable,
           MarkOf, Began, Unclaimed, Calm, SameAnswers
  <2> QED
    BY <2>1 DEF Trade
<1>4. BudgetInv'
  BY <1>3, Balanced DEF OnceInv
<1> QED
  BY <1>1, <1>2, <1>4 DEF OnceInv

-------------------------------------------------------------------------------
(* Queues, for the count.                                                  *)

LEMMA Listed ==
  /\ \A a : ItemsOf(<<a>>) = {a}
  /\ \A a, b : ItemsOf(<<a, b>>) = {a, b}
  /\ \A a, b, c : ItemsOf(<<a, b, c>>) = {a, b, c}
  /\ \A a, b, c, d : ItemsOf(<<a, b, c, d>>) = {a, b, c, d}
<1>1. \A a, b, c, d :
        /\ DOMAIN <<a>> = {1} /\ DOMAIN <<a, b>> = {1, 2} /\ DOMAIN <<a, b, c>> = {1, 2, 3}
        /\ DOMAIN <<a, b, c, d>> = {1, 2, 3, 4}
  OBVIOUS
<1>2. \A a : ItemsOf(<<a>>) = {a}
  BY <1>1 DEF ItemsOf
<1>3. \A a, b : ItemsOf(<<a, b>>) = {a, b}
  BY <1>1 DEF ItemsOf
<1>4. \A a, b, c : ItemsOf(<<a, b, c>>) = {a, b, c}
  BY <1>1 DEF ItemsOf
<1>5. \A a, b, c, d : ItemsOf(<<a, b, c, d>>) = {a, b, c, d}
  BY <1>1 DEF ItemsOf
<1> QED
  BY <1>2, <1>3, <1>4, <1>5

LEMMA ShapedPlain ==
  ASSUME NEW todo, \A o \in ItemsOf(todo) : o.do # "draft" /\ (RouterMark(o) => o.status = "processed")
  PROVE  Shaped(todo)
BY DEF Shaped, ItemsOf

LEMMA QueueIs ==
  ASSUME PipeInv, NEW todo, NEW next, Writes(todo, next)
  PROVE  /\ work'.at = "write" /\ work'.todo = todo /\ work'.next = next /\ Keeps
         /\ Pending' = ItemsOf(todo) /\ ~RouterWork'
<1>1. work \in WorkRow
  BY DEF PipeInv, PipeType
<1>2. work' = [work EXCEPT !.at = "write", !.todo = todo, !.next = next]
  BY DEF Writes
<1>3. work'.at = "write" /\ work'.todo = todo /\ work'.next = next /\ Keeps
  BY <1>1, <1>2 DEF WorkRow, Keeps
<1> QED
  BY <1>3 DEF Pending, ItemsOf, RouterWork

LEMMA StepIs ==
  ASSUME PipeInv, NEW next, Step(next)
  PROVE  /\ work'.at = next /\ work'.todo = work.todo /\ work'.next = work.next /\ Keeps
         /\ work'.then = work.then /\ Pending' = Pending
<1>1. work \in WorkRow /\ work' = [work EXCEPT !.at = next]
  BY DEF PipeInv, PipeType, Step
<1>2. work'.at = next /\ work'.todo = work.todo /\ work'.next = work.next /\ Keeps
      /\ work'.then = work.then
  BY <1>1 DEF WorkRow, Keeps
<1> QED
  BY <1>2 DEF Pending

LEMMA NotWriting == PipeInv /\ work.at # "write" => work.todo = <<>> /\ work.next = "idle" /\ Pending = {}
BY DEF PipeInv, PipeType, WorkInv, Pending

LEMMA Idle ==
  ASSUME work' = NoWork
  PROVE  /\ work'.at = "idle" /\ work'.next = "idle" /\ work'.attempt = NoKey /\ work'.todo = <<>>
         /\ Pending' = {} /\ ~RouterWork' /\ ~Going' /\ ~Closing' /\ Shaped(work'.todo)
<1>1. /\ work'.at = "idle" /\ work'.next = "idle" /\ work'.attempt = NoKey /\ work'.todo = <<>>
  BY DEF NoWork
<1>2. Pending' = {}
  BY <1>1 DEF Pending
<1> QED
  BY <1>1, <1>2 DEF RouterWork, Going, Closing, Shaped

(* The router's refusals: what it queues decides nothing for a session.    *)
LEMMA RefusalOnce ==
  ASSUME PipeInv, PipeInv', OnceInv, ReadOnly, work.at = "router",
         NEW todo, Writes(todo, Rests), Shaped(todo),
         \A o \in ItemsOf(todo) :
           /\ o.do # "draft" /\ ~SessionMark(o)
           /\ Decides(o) => o.what \notin SessionRoutes
  PROVE  OnceInv'
<1>1. /\ work'.at = "write" /\ work'.todo = todo /\ work'.next = Rests /\ Keeps
      /\ Pending' = ItemsOf(todo) /\ ~RouterWork'
  BY QueueIs
<1>2. work.todo = <<>> /\ work.next = "idle" /\ Pending = {}
  BY NotWriting
<1>3. ~Going /\ ~Closing /\ RouterWork
  BY <1>2 DEF Going, Closing, RouterWork
<1>4. ~Going' /\ ~Closing'
  BY <1>1 DEF Going, Closing, Rests
<1>5. Calm
  BY DEF ReadOnly, Calm, SameAnswers
<1> QED
  BY <1>1, <1>2, <1>3, <1>4, <1>5, CalmStep DEF Rests

LEMMA RouterRefusesOnce ==
  ASSUME PipeInv, PipeInv', OnceInv, RouterFails \/ RouterUnsure \/ RouterIgnores PROVE OnceInv'
<1>1. PICK a, b, c, d, e, f :
        /\ a = Mark("task_router", "failed", NoTask) /\ b = Audit("ambiguous", NoTask)
        /\ c = Tell("task_router") /\ d = Tell("question") /\ e = RouterDone(NoTask)
        /\ f = Audit("ignore", NoTask)
  OBVIOUS
<1>2. /\ ReadOnly /\ work.at = "router"
      /\ \/ Writes(<<a, b, c>>, Rests) \/ Writes(<<b, d, e>>, Rests)
         \/ Writes(<<d, b, e>>, Rests) \/ Writes(<<f, e>>, Rests)
  BY <1>1 DEF RouterFails, RouterUnsure, RouterIgnores
<1>3. /\ a.do = "mark" /\ a.what = "task_router" /\ b.do = "audit" /\ b.what = "ambiguous"
      /\ c.do = "tell" /\ d.do = "tell" /\ f.do = "audit" /\ f.what = "ignore"
      /\ e.do = "mark" /\ e.what = "task_router" /\ e.status = "processed"
  BY <1>1 DEF RouterDone, Mark, Audit, Tell, Write
<1>4. /\ Shaped(<<a, b, c>>) /\ Shaped(<<b, d, e>>) /\ Shaped(<<d, b, e>>) /\ Shaped(<<f, e>>)
  <2>1. Shaped(<<a, b, c>>)
    BY <1>3 DEF Shaped, RouterMark, Marks
  <2>2. \A o \in {b, d, e, f} : o.do # "draft" /\ (RouterMark(o) => o.status = "processed")
    BY <1>3 DEF RouterMark, Marks
  <2>3. Shaped(<<b, d, e>>)
    BY <2>2, Listed, ShapedPlain
  <2>4. Shaped(<<d, b, e>>)
    BY <2>2, Listed, ShapedPlain
  <2>5. Shaped(<<f, e>>)
    BY <2>2, Listed, ShapedPlain
  <2> QED
    BY <2>1, <2>3, <2>4, <2>5
<1>5. ~SessionMark(a) /\ ~SessionMark(b) /\ ~SessionMark(c) /\ ~SessionMark(d)
      /\ ~SessionMark(e) /\ ~SessionMark(f)
  BY <1>3 DEF SessionMark, Marks
<1>6. \A o \in {a, b, c, d, e, f} :
        /\ o.do # "draft" /\ ~SessionMark(o)
        /\ Decides(o) => o.what \notin SessionRoutes
  BY <1>3, <1>5 DEF Decides, SessionRoutes
<1> QED
  BY <1>2, <1>4, <1>6, Listed, RefusalOnce

(* What the session queues when it ends.                                   *)
LEMMA SessionOnce ==
  ASSUME PipeInv, PipeInv', OnceInv, Calm, work.at \in {"session", "agent"},
         NEW todo, Writes(todo, Rests), Shaped(todo),
         \A o \in ItemsOf(todo) : ~Decides(o) /\ ~RouterMark(o)
  PROVE  OnceInv'
<1>1. /\ work'.at = "write" /\ work'.todo = todo /\ work'.next = Rests /\ Keeps
      /\ Pending' = ItemsOf(todo) /\ ~RouterWork'
  BY QueueIs
<1>2. work.todo = <<>> /\ work.next = "idle" /\ Pending = {}
  BY NotWriting
<1>3. Going
  BY DEF Going
<1> QED
  BY <1>1, <1>2, <1>3, CalmStep DEF Rests

LEMMA StopOnce ==
  ASSUME PipeInv, PipeInv', OnceInv, Calm, work.at \in {"session", "agent"},
         NEW g \in {"task_session", "resource_download"}, NEW v, NEW t,
         Writes(<<Mark(g, v, t), Tell(g)>>, Rests) \/ Writes(<<Mark(g, v, t)>>, Rests)
  PROVE  OnceInv'
<1>1. PICK a, b : a = Mark(g, v, t) /\ b = Tell(g)
  OBVIOUS
<1>2. a.do = "mark" /\ a.what = g /\ b.do = "tell"
  BY <1>1 DEF Mark, Tell, Write
<1>3. \A o \in {a, b} : ~Decides(o) /\ ~RouterMark(o) /\ o.do # "draft"
  BY <1>2 DEF Decides, RouterMark, Marks
<1>4. Shaped(<<a, b>>) /\ Shaped(<<a>>)
  BY <1>3, Listed, ShapedPlain
<1> QED
  BY <1>1, <1>3, <1>4, Listed, SessionOnce

LEMMA AgentOnce ==
  ASSUME PipeInv, PipeInv', OnceInv, ReadOnly, work.at = "agent",
         NEW a, NEW b, NEW c, c.do = "mark", c.what = "task_session", c.status = "processed",
         a.do \in {"task", "escalate"}, b.do \in {"draft", "tell"},
         Writes(<<a, c>>, Rests) \/ Writes(<<a, b, c>>, Rests) \/ Writes(<<b, a, c>>, Rests)
  PROVE  OnceInv'
<1>1. Calm
  BY DEF ReadOnly, Calm, SameAnswers
<1>2. \A o \in {a, b, c} : ~Decides(o) /\ ~RouterMark(o)
  BY DEF Decides, RouterMark, Marks
<1>3. SessionMark(c) /\ ~RouterMark(a) /\ ~RouterMark(b) /\ ~RouterMark(c)
  BY <1>2 DEF SessionMark, Marks
<1>4. Shaped(<<a, c>>)
  BY <1>2, Listed, ShapedPlain
<1>5. Shaped(<<a, b, c>>)
  BY <1>3 DEF Shaped
<1>6. Shaped(<<b, a, c>>)
  BY <1>3 DEF Shaped
<1> QED
  BY <1>1, <1>2, <1>4, <1>5, <1>6, Listed, SessionOnce

LEMMA AgentsOnce ==
  ASSUME PipeInv, PipeInv', OnceInv,
         \/ AgentFails \/ AgentEscalates \/ AgentCorrects
         \/ \E status \in {"watching", "closed"} : AgentQuiet(status) \/ AgentAnswers(status)
  PROVE  OnceInv'
<1>1. PICK c : c = SessionDone(work.then.task)
  OBVIOUS
<1>2. c.do = "mark" /\ c.what = "task_session" /\ c.status = "processed"
  BY <1>1 DEF SessionDone, Mark, Write
<1>3. PICK b, d, e : /\ b = Draft(work.then.task) /\ d = Tell("review")
                     /\ e = Escalate(work.then.task)
  OBVIOUS
<1>4. b.do = "draft" /\ d.do = "tell" /\ e.do = "escalate"
  BY <1>3 DEF Draft, Tell, Escalate, Write
<1>5. CASE AgentFails
  BY <1>5, StopOnce DEF AgentFails, ReadOnly, Calm, SameAnswers
<1>6. CASE AgentEscalates
  <2>1. ReadOnly /\ work.at = "agent" /\ Writes(<<e, c>>, Rests)
    BY <1>1, <1>3, <1>6 DEF AgentEscalates
  <2> QED
    BY <1>2, <1>4, <2>1, AgentOnce
<1>7. CASE AgentCorrects
  <2>1. PICK a : a = SetTask(work.then.task, "watching")
    OBVIOUS
  <2>2. /\ ReadOnly /\ work.at = "agent" /\ a.do = "task"
        /\ Writes(<<b, a, c>>, Rests) \/ Writes(<<a, d, c>>, Rests)
    BY <1>1, <1>3, <1>7, <2>1 DEF AgentCorrects, SetTask, Write
  <2> QED
    BY <1>2, <1>4, <2>2, AgentOnce
<1>8. ASSUME NEW status \in {"watching", "closed"}, AgentQuiet(status) \/ AgentAnswers(status)
      PROVE  OnceInv'
  <2>1. PICK a : a = SetTask(work.then.task, status)
    OBVIOUS
  <2>2. /\ ReadOnly /\ work.at = "agent" /\ a.do = "task"
        /\ Writes(<<a, c>>, Rests) \/ Writes(<<a, b, c>>, Rests)
    BY <1>1, <1>3, <1>8, <2>1 DEF AgentQuiet, AgentAnswers, SetTask, Write
  <2> QED
    BY <1>2, <1>4, <2>2, AgentOnce
<1> QED
  BY <1>5, <1>6, <1>7, <1>8

LEMMA SameStore == ASSUME SameDb(db, db'), retry' = retry, faults' = faults PROVE Calm
BY DEF SameDb, SameCore, Calm, SameAnswers

LEMMA ResOnce ==
  ASSUME PipeInv, NEW n, NEW v, db' = [db EXCEPT !.res[n] = v] PROVE SameDb(db, db')
BY ResChanges DEF PipeInv, PipeType

LEMMA SessionsOnce == ASSUME PipeInv, PipeInv', OnceInv, SessionBlocked \/ Preflight PROVE OnceInv'
<1>1. CASE SessionBlocked
  BY <1>1, StopOnce DEF SessionBlocked, ReadOnly, Calm, SameAnswers
<1>2. CASE Preflight
  <2>1. work.at = "session" /\ UNCHANGED <<cast, shown, retry, faults, ends>>
    BY <1>2 DEF Preflight
  <2>2. SameDb(db, db')
    <3>1. PICK n : n = work.m
      OBVIOUS
    <3>2. PICK v : db' = [db EXCEPT !.res[n] = v]
      <4>1. PICK out : db' = [db EXCEPT !.res[work.m] = IF work.s.res THEN out ELSE @]
        BY <1>2 DEF Preflight
      <4>2. PICK v : v = IF work.s.res THEN out ELSE db.res[n]
        OBVIOUS
      <4> QED
        BY <3>1, <4>1, <4>2
    <3> QED
      BY <3>2, ResOnce
  <2>3. Calm
    BY <2>1, <2>2, SameStore
  <2>4. PICK t : t = work.then.task
    OBVIOUS
  <2>5. \/ Step("agent")
        \/ Writes(<<Mark("resource_download", "processed", t)>>, Rests)
        \/ \E v : Writes(<<Mark("resource_download", v, t), Tell("resource_download")>>, Rests)
    BY <1>2, <2>4 DEF Preflight
  <2>6. CASE Step("agent")
    <3>1. /\ work'.at = "agent" /\ work'.todo = work.todo /\ work'.next = work.next /\ Keeps
          /\ Pending' = Pending
      BY <2>6, StepIs
    <3>2. work.todo = <<>> /\ work.next = "idle" /\ Pending = {}
      BY <2>1, NotWriting
    <3>3. Going /\ Shaped(work'.todo) /\ ~RouterWork'
      BY <2>1, <3>1, <3>2 DEF Going, Shaped, RouterWork
    <3> QED
      BY <2>1, <2>3, <3>1, <3>2, <3>3, CalmStep
  <2>7. ASSUME NEW v, \/ Writes(<<Mark("resource_download", v, t)>>, Rests)
                      \/ Writes(<<Mark("resource_download", v, t), Tell("resource_download")>>, Rests)
        PROVE  OnceInv'
    BY <2>1, <2>3, <2>7, StopOnce
  <2> QED
    BY <2>5, <2>6, <2>7
<1> QED
  BY <1>1, <1>2

LEMMA DownloadOnce == ASSUME PipeInv, PipeInv', OnceInv, Download PROVE OnceInv'
<1>1. work.at = "download" /\ Step("process") /\ UNCHANGED <<cast, shown, retry, faults, ends>>
  BY DEF Download
<1>2. db' = db \/ SameDb(db, db')
  BY ResOnce DEF Download
<1>3. Calm
  BY <1>1, <1>2, SameStore DEF Calm, SameAnswers
<1>4. /\ work'.at = "process" /\ work'.todo = work.todo /\ work'.next = work.next /\ Keeps
      /\ work'.then = work.then /\ Pending' = Pending
  BY <1>1, StepIs
<1>5. work.todo = <<>> /\ work.next = "idle" /\ Pending = {}
  BY <1>1, NotWriting
<1>6. /\ Shaped(work'.todo) /\ ~Closing /\ ~Closing' /\ RouterWork' = RouterWork
      /\ Going' = Going
  BY <1>1, <1>4, <1>5 DEF Going, Closing, Shaped, RouterWork
<1> QED
  BY <1>1, <1>3, <1>4, <1>5, <1>6, CalmStep

LEMMA OverIs ==
  ASSUME PipeInv, work.at # "write", Over
  PROVE  work' = NoWork \/ (work'.at = "finish" /\ Keeps /\ Pending' = {} /\ work'.next = "idle")
<1>1. CASE Step("finish")
  BY <1>1, StepIs, NotWriting
<1> QED
  BY <1>1 DEF Over

LEMMA ProcessOnce == ASSUME PipeInv, PipeInv', OnceInv, Process PROVE OnceInv'
<1>1. work.at = "process" /\ ReadOnly
  BY DEF Process
<1>2. Calm
  BY <1>1 DEF ReadOnly, Calm, SameAnswers
<1>3. work.todo = <<>> /\ work.next = "idle" /\ Pending = {}
  BY <1>1, NotWriting
<1>4. ~Closing /\ SessionRoutes \cap Placeholders = {}
  BY <1>3 DEF Closing, SessionRoutes, Placeholders
<1>5. CASE work.then.route \in Placeholders
  <2>1. PICK al : al = RouterTargets(work.m, work.s, work.then)
    OBVIOUS
  <2>2. work' = [work EXCEPT !.at = "router", !.allowed = al] /\ work \in WorkRow
    BY <1>5, <2>1 DEF Process, PipeInv, PipeType, SessionRoutes, Placeholders
  <2>3. work'.at = "router" /\ work'.todo = <<>> /\ work'.next = "idle" /\ Keeps
    BY <1>3, <2>2 DEF WorkRow, Keeps
  <2>4. /\ Pending' = {} /\ Shaped(work'.todo) /\ RouterWork /\ ~Going /\ ~Going' /\ ~Closing'
    BY <1>1, <1>3, <1>4, <1>5, <2>3 DEF Pending, Shaped, RouterWork, Going, Closing
  <2> QED
    BY <1>1, <1>2, <1>3, <1>4, <2>3, <2>4, CalmStep
<1>6. CASE work.then.route \in SessionRoutes
  <2>1. Step("session")
    BY <1>4, <1>6 DEF Process
  <2>2. /\ work'.at = "session" /\ work'.todo = <<>> /\ work'.next = "idle" /\ Keeps
        /\ Pending' = {}
    BY <1>3, <2>1, StepIs
  <2>3. Going /\ Shaped(work'.todo) /\ ~RouterWork'
    BY <1>1, <1>6, <2>2 DEF Going, Shaped, RouterWork
  <2> QED
    BY <1>1, <1>2, <1>3, <2>2, <2>3, CalmStep
<1>7. CASE work.then.route \notin Placeholders \cup SessionRoutes
  <2>1. Over
    BY <1>7 DEF Process
  <2>2. work' = NoWork \/ (work'.at = "finish" /\ Keeps /\ Pending' = {} /\ work'.next = "idle")
    BY <1>1, <2>1, OverIs
  <2>3. ~Going
    BY <1>1, <1>3, <1>7 DEF Going
  <2>4. /\ ~Going' /\ ~Closing' /\ ~RouterWork' /\ Pending' = {} /\ work'.next = "idle"
        /\ work'.at # "claimed" /\ (work'.attempt = NoKey \/ Keeps)
    BY <2>2, Idle DEF Going, Closing, RouterWork
  <2>5. Shaped(work'.todo)
    BY <2>4 DEF Shaped, Pending
  <2> QED
    BY <1>1, <1>2, <1>3, <1>4, <2>3, <2>4, <2>5, CalmStep
<1> QED
  BY <1>5, <1>6, <1>7

-------------------------------------------------------------------------------
(* Before a route the handler owes nothing that counts.                    *)

Early == {"idle", "confirm", "restore", "accepted", "routing"}

LEMMA NotYet ==
  ASSUME PipeInv, work.at \in Early
  PROVE  /\ work.todo = <<>> /\ work.next = "idle" /\ Pending = {}
         /\ ~Going /\ ~Closing /\ ~RouterWork
<1>1. work.todo = <<>> /\ work.next = "idle" /\ Pending = {}
  BY NotWriting DEF Early
<1> QED
  BY <1>1 DEF Early, Going, Closing, RouterWork

Harmless(o) == o.do # "draft" /\ ~Marks(o) /\ ~(Decides(o) /\ o.what \in SessionRoutes)

LEMMA EarlyOnce ==
  ASSUME PipeInv, PipeInv', OnceInv, Calm, work.at \in Early,
         work'.at \in Early \cup {"write"}, work'.next \in {"idle", "routing"},
         work'.attempt = NoKey, \A o \in Pending' : Harmless(o)
  PROVE  OnceInv'
<1>1. work.next = "idle" /\ ~Going /\ ~Closing
  BY NotYet
<1>2. ~Going' /\ ~Closing' /\ ~RouterWork' /\ (\A o \in Pending' : ~RouterMark(o))
  BY DEF Early, Going, Closing, RouterWork, Harmless, SessionMark, RouterMark
<1>3. Shaped(work'.todo)
  BY DEF Shaped, Pending, Harmless, RouterMark
<1> QED
  BY <1>1, <1>2, <1>3, CalmStep DEF Harmless, Early

LEMMA ListsEarly ==
  ASSUME PipeInv, PipeInv', OnceInv, ReadOnly, work.at \in {"accepted", "routing"},
         NEW todo, NEW next \in {"idle", "routing"}, Writes(todo, next),
         \A o \in ItemsOf(todo) : Harmless(o)
  PROVE  OnceInv'
<1>1. /\ work'.at = "write" /\ work'.todo = todo /\ work'.next = next /\ Keeps
      /\ Pending' = ItemsOf(todo)
  BY QueueIs
<1>2. work'.attempt = NoKey
  BY <1>1 DEF PipeInv, PipeType, WorkInv, Keeps
<1>3. Calm
  BY DEF ReadOnly, Calm, SameAnswers
<1> QED
  BY <1>1, <1>2, <1>3, EarlyOnce DEF Early

LEMMA LeavesEarly ==
  ASSUME PipeInv, PipeInv', OnceInv, Calm, work.at \in Early, work' = NoWork PROVE OnceInv'
<1>1. work'.at \in Early \cup {"write"} /\ work'.next = "idle" /\ work'.attempt = NoKey
      /\ Pending' = {}
  BY Idle DEF Early
<1> QED
  BY <1>1, EarlyOnce

LEMMA AcceptOnce == ASSUME PipeInv, PipeInv', OnceInv, Accept PROVE OnceInv'
<1>1. work.at = "accepted" /\ ReadOnly
  BY DEF Accept
<1>2. Calm
  BY <1>1 DEF ReadOnly, Calm, SameAnswers
<1>3. PICK a, b, c : a = Fence /\ b = Audit("ignore", NoTask) /\ c = Hang
  OBVIOUS
<1>4. \A o \in {a, b, c} : Harmless(o)
  BY <1>3 DEF Fence, Audit, Hang, Write, Harmless, Marks, Decides, SessionRoutes
<1>5. \/ Writes(<<a, b, c>>, "idle") \/ Writes(<<a>>, "routing")
      \/ work' = NoWork \/ Step("routing")
  BY <1>3 DEF Accept
<1>6. CASE Writes(<<a, b, c>>, "idle") \/ Writes(<<a>>, "routing")
  BY <1>1, <1>4, <1>6, Listed, ListsEarly
<1>7. CASE work' = NoWork
  BY <1>1, <1>2, <1>7, LeavesEarly DEF Early
<1>8. CASE Step("routing")
  <2>1. work'.at = "routing" /\ work'.next = "idle" /\ Keeps /\ Pending' = {}
    BY <1>1, <1>8, StepIs, NotWriting
  <2>2. work'.attempt = NoKey
    BY <1>1, <2>1 DEF PipeInv, PipeType, WorkInv, Keeps
  <2> QED
    BY <1>1, <1>2, <2>1, <2>2, EarlyOnce DEF Early
<1> QED
  BY <1>5, <1>6, <1>7, <1>8

LEMMA RouteIneligibleOnce == ASSUME PipeInv, PipeInv', OnceInv, RouteIneligible PROVE OnceInv'
<1>1. PICK b : b = Audit("ignore", NoTask)
  OBVIOUS
<1>2. Harmless(b)
  BY <1>1 DEF Audit, Write, Harmless, Marks, Decides, SessionRoutes
<1> QED
  BY <1>1, <1>2, Listed, ListsEarly DEF RouteIneligible

LEMMA DeliverOnce ==
  ASSUME PipeInv, PipeInv', OnceInv, SameAnswers,
         NEW n \in Present, NEW src \in Sources, NEW i \in 1..shown[n], Deliver(n, i, src)
  PROVE  OnceInv'
<1>1. work.at = "idle" /\ retry' = retry /\ faults' = faults
  BY DEF Deliver
<1>2. PICK u, s, at, since :
        /\ s = Script[n][i] /\ u = Stored!Upsert(db.row[n], s, s.dead, FALSE)
        /\ at = (IF u.unsure THEN "confirm" ELSE "accepted") /\ since = shown[n]
  OBVIOUS
<1>3. PICK rev, ins, chg : rev = u.row.rev /\ ins = u.inserted /\ chg = u.changed
  OBVIOUS
<1>4. work' = [NoWork EXCEPT !.at = at, !.m = n, !.s = s, !.src = src, !.r = rev,
                             !.since = since, !.ins = ins, !.chg = chg]
  BY <1>2, <1>3 DEF Deliver
<1>5. /\ work'.at \in {"confirm", "accepted"} /\ work'.next = "idle" /\ work'.todo = <<>>
      /\ work'.attempt = NoKey
  BY <1>2, <1>4 DEF NoWork
<1>6. Pending' = {}
  BY <1>5 DEF Pending
<1> QED
  BY <1>1, <1>5, <1>6, EarlyOnce DEF Calm, Early

LEMMA ReadbackOnce ==
  ASSUME PipeInv, PipeInv', OnceInv, SameAnswers, Confirm \/ Restore PROVE OnceInv'
<1>1. /\ work.at \in {"confirm", "restore"} /\ retry' = retry /\ faults' = faults
      /\ work \in WorkRow /\ work.attempt = NoKey
  BY DEF Confirm, Restore, ReadOnly, PipeInv, PipeType, WorkInv
<1>2. work.todo = <<>> /\ work.next = "idle"
  BY <1>1, NotYet DEF Early
<1>3. /\ work'.at \in {"restore", "accepted"} /\ work'.next = work.next
      /\ work'.todo = work.todo /\ work'.attempt = work.attempt
  <2>1. CASE Confirm
    <3>1. PICK s : s = Script[work.m][shown[work.m]]
      OBVIOUS
    <3>2. work' = [work EXCEPT !.at = "restore", !.s = s]
      BY <2>1, <3>1 DEF Confirm
    <3> QED
      BY <1>1, <3>2 DEF WorkRow
  <2>2. CASE Restore
    <3>1. PICK u : u = Stored!Upsert(db.row[work.m], work.s, work.s.dead, TRUE)
      OBVIOUS
    <3>2. PICK rev, ins, chg : rev = u.row.rev /\ ins = u.inserted /\ chg = u.changed
      OBVIOUS
    <3>3. work' = [work EXCEPT !.at = "accepted", !.r = rev, !.ins = ins, !.chg = chg]
      BY <2>2, <3>1, <3>2 DEF Restore, Upserts
    <3> QED
      BY <1>1, <3>3 DEF WorkRow
  <2> QED
    BY <2>1, <2>2
<1>4. Pending' = {}
  BY <1>2, <1>3 DEF Pending
<1> QED
  BY <1>1, <1>2, <1>3, <1>4, EarlyOnce DEF Calm, Early

(* A first route: its decision is queued, and may go on to the session.    *)
LEMMA RouteMessageOnce == ASSUME PipeInv, PipeInv', OnceInv, RouteMessage PROVE OnceInv'
<1>1. PICK m, r, then, next :
        /\ m = work.m /\ r = work.r /\ then = Fresh(m, work.s)
        /\ next = IF Readback(m) THEN "idle" ELSE "download"
  OBVIOUS
<1>2. PICK o : o = Routed(then)
  OBVIOUS
<1>3. /\ work.at = "routing" /\ ~Duplicate(m, r) /\ ReadOnly
      /\ work' = [Forgetful EXCEPT !.at = "write", !.todo = <<o>>, !.then = then, !.next = next]
  BY <1>1, <1>2 DEF RouteMessage
<1>4. work \in WorkRow /\ work.attempt = NoKey
  BY <1>3 DEF PipeInv, PipeType, WorkInv
<1>5. /\ work'.at = "write" /\ work'.next = next /\ work'.todo = <<o>> /\ Keeps
  BY <1>3, <1>4 DEF WorkRow, Forgetful, Keeps
<1>6. Calm
  BY <1>3 DEF ReadOnly, Calm, SameAnswers
<1>7. /\ work.todo = <<>> /\ work.next = "idle" /\ Pending = {}
      /\ ~Going /\ ~Closing /\ ~RouterWork
  BY <1>3, NotYet DEF Early
<1>8. Pending' = {o} /\ o.do = "route" /\ Len(work'.todo) = 1
  <2>1. Pending' = ItemsOf(<<o>>)
    BY <1>5 DEF Pending, ItemsOf
  <2> QED
    BY <1>2, <1>5, <2>1, Listed DEF Routed, Write
<1>9. /\ ~Going' /\ ~Closing' /\ ~RouterWork' /\ Shaped(work'.todo)
      /\ ~\E p \in Pending' : RouterMark(p)
  BY <1>1, <1>5, <1>8 DEF Going, Closing, RouterWork, SessionMark, RouterMark, Marks, Shaped, Pending
<1>10. Handled' = Undecided
  <2>1. work.ins \/ work.chg => Handled = Undecided
    BY <1>3 DEF PipeInv, DecisionInv
  <2>2. Handled = Undecided
    BY <1>1, <1>3, <2>1 DEF Duplicate, Handled
  <2> QED
    BY <1>5, <1>6, <2>2 DEF Handled, Keeps, Calm, SameAnswers
<1>11. AnswerInv'
  BY <1>1, <1>4, <1>5, <1>8, <1>9, <1>10 DEF AnswerInv, Keeps
<1>12. ClaimInv'
  BY <1>5, <1>6, ClaimsKept DEF OnceInv
<1>13. ASSUME NEW n \in Message, NEW q \in Revision PROVE Trade(n, q)
  <2>1. /\ Began(n, q)' = Began(n, q)
        /\ Unclaimed(n, q, "task_session")' => Unclaimed(n, q, "task_session")
    BY <1>6 DEF Calm, Began, Unclaimed
  <2> QED
    BY <1>1, <1>5, <1>6, <1>7, <1>9, <2>1, CalmTrade DEF Calm
<1>14. BudgetInv'
  BY <1>13, Balanced DEF OnceInv
<1> QED
  BY <1>9, <1>11, <1>12, <1>14 DEF OnceInv

-------------------------------------------------------------------------------
(* Into a session.                                                         *)

(* Nothing happens to a revision that is not the handler's.                *)
LEMMA ElseTrade ==
  ASSUME NEW m \in Message, NEW r \in Revision, ~Mine(m, r), ~Mine(m, r)', Fair(m, r),
         Unclaimed(m, r, "task_session")' => Unclaimed(m, r, "task_session"),
         db'.made[m][r] = db.made[m][r], db'.dec[m][r] = db.dec[m][r],
         MarkOf(m, r, "task_router")' = MarkOf(m, r, "task_router"),
         MarkOf(m, r, "task_session")' = MarkOf(m, r, "task_session")
  PROVE  Trade(m, r)
<1>1. ~Answering(m, r)'
  BY DEF Answering
<1>2. Deciding(m, r)' => Deciding(m, r)
  BY DEF Deciding, Routable
<1>3. Opens(m, r)' => Opens(m, r)
  BY DEF Opens
<1> QED
  BY <1>1, <1>2, <1>3 DEF Trade

LEMMA CalmElse ==
  ASSUME Calm, Keeps \/ work' = NoWork, work.at # "idle",
         NEW m \in Message, NEW r \in Revision, ~Mine(m, r)
  PROVE  Trade(m, r)
<1>1. ~Mine(m, r)'
  BY DEF Mine, Keeps, NoWork
<1>2. /\ Fair(m, r) /\ db'.made[m][r] = db.made[m][r] /\ db'.dec[m][r] = db.dec[m][r]
      /\ MarkOf(m, r, "task_router")' = MarkOf(m, r, "task_router")
      /\ MarkOf(m, r, "task_session")' = MarkOf(m, r, "task_session")
      /\ Unclaimed(m, r, "task_session")' => Unclaimed(m, r, "task_session")
  BY DEF Calm, SameAnswers, Fair, Began, Unclaimed, MarkOf
<1> QED
  BY <1>1, <1>2, ElseTrade

(* Only a marked revision has a retry, queued or claimed.                  *)
LEMMA NoneUnclaimed ==
  ASSUME ClaimInv, NEW m, NEW r, NEW g, MarkOf(m, r, g) = "none"
  PROVE  ~Unclaimed(m, r, g)
BY DEF ClaimInv, Unclaimed, InPlay

LEMMA MarkIs ==
  ASSUME PipeInv, NEW m \in Message, NEW r \in Revision, NEW g \in Stage
  PROVE  MarkOf(m, r, g) \in Status
BY DEF PipeInv, PipeType, DbType, MarkRow, MarkOf

LEMMA RouteDuplicateOnce == ASSUME PipeInv, PipeInv', OnceInv, RouteDuplicate PROVE OnceInv'
<1>1. work.at = "routing" /\ ReadOnly
  BY DEF RouteDuplicate
<1>2. Calm
  BY <1>1 DEF ReadOnly, Calm, SameAnswers
<1>3. CASE work' = NoWork
  BY <1>1, <1>2, <1>3, LeavesEarly DEF Early
<1>4. CASE work' # NoWork
  <2>1. PICK m, r : m = work.m /\ r = work.r
    OBVIOUS
  <2>2. PICK then : then = IF Resumes(m, r) THEN db.dec[m][r] ELSE Decision("duplicate", NoTask)
    OBVIOUS
  <2>3. work' = [Forgetful EXCEPT !.at = "download", !.then = then]
    BY <1>4, <2>1, <2>2 DEF RouteDuplicate
  <2>4. /\ work \in WorkRow /\ work.attempt = NoKey /\ m \in Message /\ r \in Revision
    BY <1>1, <2>1 DEF PipeInv, PipeType, WorkInv
  <2>5. /\ work.todo = <<>> /\ work.next = "idle" /\ Pending = {}
        /\ ~Going /\ ~Closing /\ ~RouterWork
    BY <1>1, NotYet DEF Early
  <2>6. /\ work'.at = "download" /\ work'.next = "idle" /\ work'.todo = <<>> /\ Keeps
        /\ work'.then = then
    BY <2>3, <2>4, <2>5 DEF WorkRow, Forgetful, Keeps
  <2>7. Pending' = {} /\ Shaped(work'.todo) /\ ~Closing'
    BY <2>6 DEF Pending, Shaped, Closing
  <2>8. ClaimInv'
    BY <1>2, <2>6, ClaimsKept DEF OnceInv
  <2>9. AnswerInv'
    <3>1. RouterWork' => Routable(m, r)
      BY <2>2, <2>6 DEF RouterWork, Routable, Decision, Placeholders
    <3>2. RouterWork' => Routable(work.m, work.r)'
      BY <1>2, <2>1, <2>6, <3>1 DEF Routable, Keeps, Calm, SameAnswers, MarkOf
    <3> QED
      BY <2>4, <2>6, <2>7, <3>2 DEF AnswerInv, Keeps
  <2>10. ASSUME NEW n \in Message, NEW q \in Revision PROVE Trade(n, q)
    <3>1. CASE then.route \notin SessionRoutes
      <4>1. ~Going'
        BY <2>6, <2>7, <3>1 DEF Going
      <4>2. /\ Began(n, q)' = Began(n, q)
            /\ Unclaimed(n, q, "task_session")' => Unclaimed(n, q, "task_session")
        BY <1>2 DEF Calm, Began, Unclaimed
      <4> QED
        BY <1>2, <2>5, <2>6, <2>7, <4>1, <4>2, CalmTrade DEF Calm
    <3>2. CASE ~Mine(n, q)
      BY <1>1, <1>2, <2>6, <3>2, CalmElse
    <3>3. CASE then.route \in SessionRoutes /\ Mine(n, q)
      <4>1. n = m /\ q = r
        BY <2>1, <3>3 DEF Mine
      <4>2. Going' /\ Mine(m, r)'
        BY <2>1, <2>6, <3>3 DEF Going, Mine, Keeps
      <4>3. then = db.dec[m][r] /\ MarkOf(m, r, "task_session") \notin Final
        BY <2>2, <3>3 DEF Resumes, StageOf, Decision, SessionRoutes
      <4>4. MarkOf(m, r, "task_session") = "none"
        BY <2>4, <4>3, MarkIs DEF Stage, Status, Final
      <4>5. Opens(m, r)
        BY <2>5, <3>3, <4>3, <4>4 DEF Opens
      <4>6. /\ MarkOf(m, r, "task_session")' = "none" /\ (Deciding(m, r)' => Deciding(m, r))
            /\ Fair(m, r) /\ db'.made[m][r] = db.made[m][r]
        BY <1>2, <2>5, <4>4
           DEF Calm, SameAnswers, MarkOf, Deciding, Routable, Fair, Began
      <4>7. ~Unclaimed(m, r, "task_session")'
        <5>1. ~Unclaimed(m, r, "task_session")
          BY <4>4, NoneUnclaimed DEF OnceInv
        <5> QED
          BY <1>2, <5>1 DEF Calm, Unclaimed
      <4>8. ~For("resource_download")'
        BY <2>4, <2>6 DEF For, Keeps
      <4>9. ~Opens(m, r)'
        BY <4>2, <4>6, <4>7, <4>8 DEF Opens, Stopped
      <4> QED
        BY <4>1, <4>5, <4>6, <4>9 DEF Trade
    <3> QED
      BY <3>1, <3>2, <3>3
  <2>11. BudgetInv'
    BY <2>10, Balanced DEF OnceInv
  <2> QED
    BY <2>7, <2>8, <2>9, <2>11 DEF OnceInv
<1> QED
  BY <1>3, <1>4

LEMMA ToSessionOnce ==
  ASSUME PipeInv, PipeInv', OnceInv, ReadOnly, work.at = "router", NEW route, NEW t, NEW todo,
         ToSession(route, t, todo), NEW c \in ItemsOf(todo), RouterMark(c),
         \A o \in ItemsOf(todo) :
           /\ o.do # "draft" /\ ~SessionMark(o)
           /\ Marks(o) => RouterMark(o) /\ o.status = "processed"
  PROVE  OnceInv'
<1>1. PICK m, r, then : m = work.m /\ r = work.r /\ then = Decision(route, t)
  OBVIOUS
<1>2. /\ work \in WorkRow
      /\ work' = [work EXCEPT !.at = "write", !.todo = todo, !.next = "session", !.then = then]
  BY <1>1 DEF ToSession, PipeInv, PipeType
<1>3. work'.at = "write" /\ work'.todo = todo /\ work'.next = "session" /\ Keeps
  BY <1>2 DEF WorkRow, Keeps
<1>4. Pending' = ItemsOf(todo)
  BY <1>3 DEF Pending, ItemsOf
<1>5. Calm
  BY DEF ReadOnly, Calm, SameAnswers
<1>6. /\ work.todo = <<>> /\ work.next = "idle" /\ Pending = {}
  BY NotWriting
<1>7. ~Going /\ ~Closing /\ RouterWork /\ Going' /\ ~RouterWork'
  BY <1>3, <1>6 DEF Going, Closing, RouterWork
<1>8. Shaped(work'.todo)
  BY <1>3, ShapedPlain DEF RouterMark
<1>9. ClaimInv'
  BY <1>3, <1>5, ClaimsKept DEF OnceInv
<1>10. AnswerInv'
  <2>1. work.attempt = NoKey \/ For("task_router")
    BY <1>7 DEF OnceInv, AnswerInv
  <2>2. work'.attempt = NoKey \/ For("task_router")'
    BY <1>3, <1>5, <2>1 DEF Keeps, Calm, For
  <2> QED
    BY <1>3, <1>4, <1>7, <2>2 DEF AnswerInv, RouterMark
<1>11. ASSUME NEW n \in Message, NEW q \in Revision PROVE Trade(n, q)
  <2>1. CASE ~Mine(n, q)
    BY <1>3, <1>5, <2>1, CalmElse
  <2>2. CASE Mine(n, q)
    <3>1. n = m /\ q = r /\ Mine(m, r) /\ Mine(m, r)'
      BY <1>1, <1>3, <2>2 DEF Mine, Keeps
    <3>2. Deciding(m, r) /\ ~Deciding(m, r)'
      BY <1>1, <1>3, <1>6, <1>7, <3>1 DEF OnceInv, AnswerInv, Deciding
    <3>3. /\ Fair(m, r) /\ db'.made[m][r] = db.made[m][r]
          /\ Opens(m, r)' => Opens(m, r)
      BY <1>5, <1>7 DEF Calm, SameAnswers, Fair, Began, Opens, Unclaimed, MarkOf
    <3> QED
      BY <3>1, <3>2, <3>3 DEF Trade
  <2> QED
    BY <2>1, <2>2
<1>12. BudgetInv'
  BY <1>11, Balanced DEF OnceInv
<1> QED
  BY <1>8, <1>9, <1>10, <1>12 DEF OnceInv

LEMMA RouterSendsOnce ==
  ASSUME PipeInv, PipeInv', OnceInv,
         RouterOpens \/ \E t \in Task : RouterAttaches(t) \/ RouterReopens(t)
  PROVE  OnceInv'
<1>1. ASSUME NEW route, NEW t, NEW todo, ReadOnly, work.at = "router", ToSession(route, t, todo),
             NEW c, c = RouterDone(t), c \in ItemsOf(todo),
             \A o \in ItemsOf(todo) : o = c \/ o.do \in {"route", "attach", "audit", "task"}
      PROVE  OnceInv'
  <2>1. c.do = "mark" /\ c.what = "task_router" /\ c.status = "processed"
    BY <1>1 DEF RouterDone, Mark, Write
  <2>2. \A o \in ItemsOf(todo) :
          /\ o.do # "draft" /\ ~SessionMark(o)
          /\ Marks(o) => RouterMark(o) /\ o.status = "processed"
    BY <1>1, <2>1 DEF SessionMark, RouterMark, Marks
  <2> QED
    BY <1>1, <2>1, <2>2, ToSessionOnce DEF RouterMark, Marks
<1>2. CASE RouterOpens
  <2>1. PICK t, a, c : t = FreeTask /\ a = Open(t) /\ c = RouterDone(t)
    OBVIOUS
  <2>2. ReadOnly /\ work.at = "router" /\ ToSession("new_task", t, <<a, c>>)
    BY <1>2, <2>1 DEF RouterOpens
  <2>3. a.do = "route" /\ ItemsOf(<<a, c>>) = {a, c}
    BY <2>1, Listed DEF Open, Write
  <2> QED
    BY <1>1, <2>1, <2>2, <2>3
<1>3. ASSUME NEW t \in Task, RouterAttaches(t) \/ RouterReopens(t) PROVE OnceInv'
  <2>1. PICK a, b, d, e, c : /\ a = Attach(t) /\ b = Audit("attach_task", t)
                             /\ d = Audit("reopen_task", t) /\ e = SetTask(t, "watching")
                             /\ c = RouterDone(t)
    OBVIOUS
  <2>2. /\ ReadOnly /\ work.at = "router"
        /\ \/ ToSession("attach_task", t, <<a, b, c>>)
           \/ ToSession("reopen_task", t, <<a, d, e, c>>)
    BY <1>3, <2>1 DEF RouterAttaches, RouterReopens
  <2>3. a.do = "attach" /\ b.do = "audit" /\ d.do = "audit" /\ e.do = "task"
    BY <2>1 DEF Attach, Audit, SetTask, Write
  <2>4. ItemsOf(<<a, b, c>>) = {a, b, c} /\ ItemsOf(<<a, d, e, c>>) = {a, d, e, c}
    BY Listed
  <2>5. CASE ToSession("attach_task", t, <<a, b, c>>)
    BY <1>1, <2>1, <2>2, <2>3, <2>4, <2>5
  <2>6. CASE ToSession("reopen_task", t, <<a, d, e, c>>)
    BY <1>1, <2>1, <2>2, <2>3, <2>4, <2>6
  <2> QED
    BY <2>2, <2>5, <2>6
<1> QED
  BY <1>2, <1>3

-------------------------------------------------------------------------------
(* Retries and faults, for the count.                                      *)

RetriesKept(m, r) ==
  /\ Began(m, r)' = Began(m, r)
  /\ Unclaimed(m, r, "task_session")' => Unclaimed(m, r, "task_session")

LEMMA RestAnswers == ASSUME work' = NoWork PROVE AnswerInv'
BY Idle DEF AnswerInv

LEMMA RowsIs ==
  ASSUME PipeInv, NEW a \in Attempt, NEW st, retry' = [retry EXCEPT ![a].state = st]
  PROVE  \A b \in Attempt : /\ retry'[b].m = retry[b].m /\ retry'[b].r = retry[b].r
                            /\ retry'[b].stage = retry[b].stage
                            /\ retry'[b].state = IF b = a THEN st ELSE retry[b].state
BY DEF PipeInv, PipeType, AttemptRow

(* An attempt that ends: it has begun, and is in play no more.             *)
LEMMA ClosedIs ==
  ASSUME PipeInv, ClaimInv, SameAnswers, work' = NoWork, work.attempt # NoKey,
         NEW st \in {"succeeded", "failed", "cancelled"},
         retry' = [retry EXCEPT ![work.attempt].state = st]
  PROVE  /\ ClaimInv' /\ \A n \in Message, q \in Revision : RetriesKept(n, q)
<1>1. PICK a \in Attempt : a = work.attempt
  BY DEF PipeInv, PipeType, WorkRow
<1>2. retry' = [retry EXCEPT ![a].state = st]
  BY <1>1
<1>3. \A b \in Attempt : /\ retry'[b].m = retry[b].m /\ retry'[b].r = retry[b].r
                         /\ retry'[b].stage = retry[b].stage
                         /\ retry'[b].state = IF b = a THEN st ELSE retry[b].state
  BY <1>2 DEF PipeInv, PipeType, AttemptRow
<1>4. retry[a].state = "claimed" /\ work'.attempt = NoKey
  BY <1>1, Idle DEF ClaimInv
<1>5. ClaimInv'
  <2>1. \A b \in Attempt : InPlay(b)' => InPlay(b) /\ b # a
    BY <1>3 DEF InPlay
  <2>2. \A b, c \in Attempt : InPlay(b)' /\ InPlay(c)' /\ SameStage(b, c)' => b = c
    BY <1>3, <2>1 DEF ClaimInv, SameStage
  <2>3. \A b \in Attempt :
          (InPlay(b) => MarkOf(retry[b].m, retry[b].r, retry[b].stage) # "none")'
    <3> SUFFICES ASSUME NEW b \in Attempt, InPlay(b)'
                 PROVE  (MarkOf(retry[b].m, retry[b].r, retry[b].stage) # "none")'
      OBVIOUS
    <3>1. MarkOf(retry[b].m, retry[b].r, retry[b].stage) # "none"
      BY <2>1 DEF ClaimInv
    <3> QED
      BY <1>3, <3>1 DEF SameAnswers, MarkOf
  <2>4. \A b \in Attempt :
          (retry[b].state = "queued" /\ retry[b].stage = "task_router" =>
            MarkOf(retry[b].m, retry[b].r, "task_router") \in Stopped)'
    <3> SUFFICES ASSUME NEW b \in Attempt, retry'[b].state = "queued", retry'[b].stage = "task_router"
                 PROVE  (MarkOf(retry[b].m, retry[b].r, "task_router") \in Stopped)'
      OBVIOUS
    <3>1. retry[b].state = "queued" /\ retry[b].stage = "task_router"
      BY <1>3
    <3>2. MarkOf(retry[b].m, retry[b].r, "task_router") \in Stopped
      BY <3>1 DEF ClaimInv
    <3> QED
      BY <1>3, <3>2 DEF SameAnswers, MarkOf
  <2> QED
    BY <1>4, <2>2, <2>3, <2>4 DEF ClaimInv
<1>6. ASSUME NEW n \in Message, NEW q \in Revision PROVE RetriesKept(n, q)
  <2>1. Began(n, q)' = Began(n, q)
    BY <1>3, <1>4 DEF Began
  <2>2. Unclaimed(n, q, "task_session")' => Unclaimed(n, q, "task_session")
    BY <1>3, <1>4 DEF Unclaimed
  <2> QED
    BY <2>1, <2>2 DEF RetriesKept
<1> QED
  BY <1>5, <1>6

(* A retry that is closed without a fault.                                 *)
LEMMA CloseOnce ==
  ASSUME PipeInv, PipeInv', OnceInv, SameAnswers, faults' = faults,
         work.at \in {"claimed", "finish"}, NEW st \in {"succeeded", "failed", "cancelled"},
         Closes(work.attempt, st)
  PROVE  OnceInv'
<1>1. /\ work' = NoWork /\ retry' = [retry EXCEPT ![work.attempt].state = st]
      /\ work.attempt # NoKey
  BY DEF Closes, PipeInv, PipeType, WorkInv
<1>2. ClaimInv' /\ \A n \in Message, q \in Revision : RetriesKept(n, q)
  BY <1>1, ClosedIs DEF OnceInv
<1>3. AnswerInv' /\ Shaped(work'.todo) /\ work'.next = "idle" /\ ~Going' /\ ~Closing'
  BY <1>1, RestAnswers, Idle
<1>4. work.next = "idle" /\ ~Closing
  BY NotWriting DEF Closing
<1>5. ASSUME NEW n \in Message, NEW q \in Revision PROVE Trade(n, q)
  <2>1. RetriesKept(n, q)
    BY <1>2
  <2>2. CASE Going
    BY <1>1, <1>3, <1>4, <2>1, <2>2, CalmTrade DEF RetriesKept
  <2>3. CASE ~Going
    BY <1>1, <1>3, <1>4, <2>1, <2>3, CalmTrade DEF RetriesKept
  <2> QED
    BY <2>2, <2>3
<1>6. BudgetInv'
  BY <1>5, Balanced DEF OnceInv
<1> QED
  BY <1>2, <1>3, <1>6 DEF OnceInv

LEMMA FinishRetryOnce == ASSUME PipeInv, PipeInv', OnceInv, SameAnswers, FinishRetry PROVE OnceInv'
<1>1. \E st \in {"succeeded", "failed"} : Closes(work.attempt, st)
  BY DEF FinishRetry
<1> QED
  BY <1>1, CloseOnce DEF FinishRetry

LEMMA FaultsOnce == ASSUME PipeInv, PipeInv', OnceInv, Faults PROVE OnceInv'
<1>1. /\ work' = NoWork /\ faults' = faults + 1 /\ UNCHANGED <<cast, shown, db, ends>>
      /\ \/ UNCHANGED retry
         \/ work.attempt # NoKey /\ retry' = [retry EXCEPT ![work.attempt].state = "failed"]
  BY DEF Faults, ConfirmFails, RetryRaises, Crash, Closes
<1>2. SameAnswers
  BY <1>1 DEF SameAnswers
<1>3. /\ AnswerInv' /\ Shaped(work'.todo) /\ work'.next = "idle" /\ work'.at = "idle"
      /\ work'.attempt = NoKey
  BY <1>1, RestAnswers, Idle
<1>4. ClaimInv' /\ \A n \in Message, q \in Revision : RetriesKept(n, q)
  <2>1. CASE UNCHANGED retry
    <3>1. \A n \in Message, q \in Revision : RetriesKept(n, q)
      BY <2>1 DEF RetriesKept, Began, Unclaimed
    <3>2. ClaimInv'
      BY <1>2, <1>3, <2>1
         DEF OnceInv, ClaimInv, InPlay, SameStage, MarkOf, SameAnswers
    <3> QED
      BY <3>1, <3>2
  <2>2. CASE work.attempt # NoKey /\ retry' = [retry EXCEPT ![work.attempt].state = "failed"]
    BY <1>1, <1>2, <2>2, ClosedIs DEF OnceInv
  <2> QED
    BY <1>1, <2>1, <2>2
<1>5. ASSUME NEW n \in Message, NEW q \in Revision PROVE Trade(n, q)
  <2>1. Began(n, q)' = Began(n, q)
    BY <1>4 DEF RetriesKept
  <2>2. ~Answering(n, q)' /\ db'.made[n][q] = db.made[n][q]
    BY <1>2, <1>3 DEF Answering, Mine, SameAnswers
  <2>3. Deciding(n, q)' => Deciding(n, q) \/ Answering(n, q)
    BY <1>2, <1>3 DEF Deciding, Routable, MarkOf, SameAnswers, Answering, Going
  <2> QED
    BY <1>1, <2>1, <2>2, <2>3 DEF Trade
<1>6. BudgetInv'
  BY <1>5, Balanced DEF OnceInv
<1> QED
  BY <1>3, <1>4, <1>6 DEF OnceInv

LEMMA StartsOnce ==
  ASSUME PipeInv, PipeInv', OnceInv, work.at = "claimed", UNCHANGED <<db, faults>>,
         NEW then \in DecisionRow, NEW next \in {"download", "process"},
         Starts(work.m, then, next),
         \/ For("task_router") /\ then.route \in Placeholders
         \/ ~For("task_router") /\ then = Handled
  PROVE  OnceInv'
<1>1. PICK s, src : /\ s = db.row[work.m].hash
                    /\ src = (IF ChatType(Chat[work.m]) = "p2p" THEN "p2p" ELSE "group_at_me")
  OBVIOUS
<1>2. /\ work' = [work EXCEPT !.at = next, !.s = s, !.then = then, !.src = src]
      /\ work \in WorkRow /\ retry' = retry /\ work.m \in Message /\ work.r \in Revision
      /\ work.attempt # NoKey
  BY <1>1 DEF Starts, PipeInv, PipeType, WorkInv
<1>3. work.todo = <<>> /\ work.next = "idle" /\ Pending = {} /\ ~Closing /\ ~RouterWork
  BY NotWriting DEF Closing, RouterWork
<1>4. /\ work'.at = next /\ work'.then = then /\ work'.todo = <<>> /\ work'.next = "idle" /\ Keeps
  BY <1>2, <1>3 DEF WorkRow, Keeps
<1>5. Pending' = {} /\ ~Closing' /\ Shaped(work'.todo)
  BY <1>4 DEF Pending, Closing, Shaped
<1>6. Calm
  BY <1>2 DEF Calm, SameAnswers
<1>7. PICK a \in Attempt :
        /\ a = work.attempt /\ retry[a].state = "claimed"
        /\ retry[a].m = work.m /\ retry[a].r = work.r /\ retry[a].stage \in Stage
  BY <1>2 DEF WorkRow, OnceInv, ClaimInv, PipeInv, PipeType, RetryInv
<1>8. CASE For("task_router") /\ then.route \in Placeholders
  <2>1. ~Going /\ ~Going'
    BY <1>3, <1>4, <1>5, <1>8 DEF Going, For, SessionRoutes, Placeholders
  <2>2. Routable(work.m, work.r)
    BY <1>8 DEF OnceInv, AnswerInv
  <2>3. Routable(work.m, work.r)' /\ For("task_router")'
    BY <1>2, <1>4, <1>6, <1>8, <2>2 DEF Routable, For, Keeps, Calm, SameAnswers, MarkOf
  <2>4. AnswerInv'
    BY <1>4, <1>5, <2>3 DEF AnswerInv
  <2>5. ClaimInv'
    BY <1>4, <1>6, ClaimsKept DEF OnceInv
  <2>6. ASSUME NEW n \in Message, NEW q \in Revision PROVE Trade(n, q)
    <3>1. /\ Began(n, q)' = Began(n, q)
          /\ Unclaimed(n, q, "task_session")' => Unclaimed(n, q, "task_session")
      BY <1>6 DEF Calm, Began, Unclaimed
    <3> QED
      BY <1>3, <1>4, <1>5, <1>6, <2>1, <3>1, CalmTrade DEF Calm
  <2>7. BudgetInv'
    BY <2>6, Balanced DEF OnceInv
  <2> QED
    BY <1>5, <2>4, <2>5, <2>7 DEF OnceInv
<1>9. CASE ~For("task_router") /\ then = Handled
  <2>1. retry[a].stage \in {"task_session", "resource_download"}
    BY <1>2, <1>7, <1>9 DEF For, Stage
  <2>2. Going
    BY <1>2, <1>7, <2>1 DEF Going, For
  <2>3. MarkOf(work.m, work.r, retry[a].stage) # "none"
    BY <1>7 DEF OnceInv, ClaimInv, InPlay
  <2>4. then.route \notin Placeholders
    BY <1>2, <1>7, <1>9, <2>1, <2>3 DEF PipeInv, BlankInv, Handled
  <2>5. ~RouterWork'
    BY <1>4, <2>4 DEF RouterWork
  <2> QED
    BY <1>3, <1>4, <1>5, <1>6, <2>2, <2>5, CalmStep
<1> QED
  BY <1>8, <1>9

LEMMA BeginRetryOnce == ASSUME PipeInv, PipeInv', OnceInv, BeginRetry PROVE OnceInv'
<1>1. PICK a, m, r : a = work.attempt /\ m = work.m /\ r = work.r
  OBVIOUS
<1>2. /\ work.at = "claimed" /\ UNCHANGED <<cast, shown, db, faults, ends>>
      /\ a \in Attempt /\ a # NoKey /\ m \in Message /\ r \in Revision /\ DbType(db)
  BY <1>1, ScriptAssumption DEF BeginRetry, PipeInv, PipeType, WorkInv, WorkRow
<1>3. SameAnswers
  BY <1>2 DEF SameAnswers
<1>4. CASE \E st \in {"cancelled", "failed"} : Closes(a, st)
  BY <1>1, <1>2, <1>3, <1>4, CloseOnce
<1>5. CASE /\ retry[a].stage = "task_router" /\ db.asked[m][r] # NoKey
           /\ Starts(m, Decision(db.asked[m][r], NoTask), "process")
  <2>1. PICK then : then = Decision(db.asked[m][r], NoTask)
    OBVIOUS
  <2>2. then \in DecisionRow /\ then.route \in Placeholders
    BY <1>2, <1>5, <2>1 DEF DbType, Decision, DecisionRow, Routes, SomeTask
  <2>3. For("task_router")
    BY <1>1, <1>2, <1>5 DEF For
  <2> QED
    BY <1>1, <1>2, <1>5, <2>1, <2>2, <2>3, StartsOnce
<1>6. CASE /\ retry[a].stage # "task_router"
           /\ \E next \in {"download", "process"} : Starts(m, db.dec[m][r], next)
  <2>1. PICK then : then = db.dec[m][r]
    OBVIOUS
  <2>2. PICK next \in {"download", "process"} : Starts(m, then, next)
    BY <1>6, <2>1
  <2>3. then \in DecisionRow /\ then = Handled /\ ~For("task_router")
    BY <1>1, <1>2, <1>6, <2>1 DEF DbType, Handled, For
  <2> QED
    BY <1>1, <1>2, <2>2, <2>3, StartsOnce
<1>7. \/ \E st \in {"cancelled", "failed"} : Closes(a, st)
      \/ /\ retry[a].stage = "task_router" /\ db.asked[m][r] # NoKey
         /\ Starts(m, Decision(db.asked[m][r], NoTask), "process")
      \/ /\ retry[a].stage # "task_router"
         /\ \E next \in {"download", "process"} : Starts(m, db.dec[m][r], next)
  BY <1>1 DEF BeginRetry
<1> QED
  BY <1>4, <1>5, <1>6, <1>7

LEMMA ClaimRetryOnce ==
  ASSUME PipeInv, PipeInv', OnceInv, NEW a \in Attempt, ClaimRetry(a) PROVE OnceInv'
<1>1. PICK m, r, g : m = retry[a].m /\ r = retry[a].r /\ g = retry[a].stage
  OBVIOUS
<1>2. /\ work.at = "idle" /\ retry[a].state = "queued"
      /\ retry' = [retry EXCEPT ![a].state = "claimed"]
      /\ work' = [NoWork EXCEPT !.at = "claimed", !.attempt = a, !.m = m, !.r = r]
      /\ UNCHANGED <<cast, shown, db, faults, ends>>
  BY <1>1 DEF ClaimRetry
<1>3. \A b \in Attempt : /\ retry'[b].m = retry[b].m /\ retry'[b].r = retry[b].r
                         /\ retry'[b].stage = retry[b].stage
                         /\ retry'[b].state = IF b = a THEN "claimed" ELSE retry[b].state
  BY <1>2 DEF PipeInv, PipeType, AttemptRow
<1>4. /\ work'.at = "claimed" /\ work'.attempt = a /\ work'.m = m /\ work'.r = r
      /\ work'.todo = <<>> /\ work'.next = "idle" /\ a # NoKey
  BY <1>2, ScriptAssumption DEF NoWork
<1>5. Pending' = {} /\ ~Closing' /\ Shaped(work'.todo) /\ ~RouterWork'
  BY <1>4 DEF Pending, Closing, Shaped, RouterWork
<1>6. SameAnswers
  BY <1>2 DEF SameAnswers
<1>7. \A b \in Attempt :
        /\ InPlay(b)' <=> InPlay(b)
        /\ retry'[b].state = "queued" => retry[b].state = "queued" /\ b # a
  <2> SUFFICES ASSUME NEW b \in Attempt
               PROVE  /\ InPlay(b)' <=> InPlay(b)
                      /\ retry'[b].state = "queued" => retry[b].state = "queued" /\ b # a
    OBVIOUS
  <2>1. retry'[b].state = IF b = a THEN "claimed" ELSE retry[b].state
    BY <1>3
  <2>2. CASE b = a
    BY <1>2, <2>1, <2>2 DEF InPlay
  <2>3. CASE b # a
    BY <2>1, <2>3 DEF InPlay
  <2> QED
    BY <2>2, <2>3
<1>8. ClaimInv'
  <2>1. (work.attempt # NoKey => LET row == retry[work.attempt] IN
           row.state = "claimed" /\ row.m = work.m /\ row.r = work.r)'
    BY <1>1, <1>3, <1>4
  <2>2. \A b, c \in Attempt : InPlay(b)' /\ InPlay(c)' /\ SameStage(b, c)' => b = c
    BY <1>3, <1>7 DEF OnceInv, ClaimInv, SameStage
  <2>3. \A b \in Attempt :
          (InPlay(b) => MarkOf(retry[b].m, retry[b].r, retry[b].stage) # "none")'
    <3> SUFFICES ASSUME NEW b \in Attempt, InPlay(b)'
                 PROVE  (MarkOf(retry[b].m, retry[b].r, retry[b].stage) # "none")'
      OBVIOUS
    <3>1. MarkOf(retry[b].m, retry[b].r, retry[b].stage) # "none"
      BY <1>7 DEF OnceInv, ClaimInv
    <3> QED
      BY <1>3, <1>6, <3>1 DEF SameAnswers, MarkOf
  <2>4. \A b \in Attempt :
          (retry[b].state = "queued" /\ retry[b].stage = "task_router" =>
            MarkOf(retry[b].m, retry[b].r, "task_router") \in Stopped)'
    BY <1>3, <1>6, <1>7 DEF OnceInv, ClaimInv, SameAnswers, MarkOf
  <2> QED
    BY <2>1, <2>2, <2>3, <2>4 DEF ClaimInv
<1>9. AnswerInv'
  <2>1. g = "task_router" => Routable(m, r)
    BY <1>1, <1>2 DEF OnceInv, ClaimInv, Routable
  <2>2. For("task_router")' => g = "task_router"
    BY <1>1, <1>3, <1>4 DEF For
  <2>3. For("task_router")' => Routable(work.m, work.r)'
    BY <1>4, <1>6, <2>1, <2>2 DEF Routable, SameAnswers, MarkOf
  <2> QED
    BY <1>4, <1>5, <2>3 DEF AnswerInv
<1>10. ASSUME NEW n \in Message, NEW q \in Revision PROVE Trade(n, q)
  <2>1. /\ ~Mine(n, q) /\ ~Answering(n, q) /\ db'.made[n][q] = db.made[n][q]
        /\ db'.dec[n][q] = db.dec[n][q] /\ \A h : MarkOf(n, q, h)' = MarkOf(n, q, h)
    BY <1>2, <1>6 DEF Mine, Answering, SameAnswers, MarkOf
  <2>2. Deciding(n, q)' => Deciding(n, q)
    BY <2>1 DEF Deciding, Routable
  <2>3. Unclaimed(n, q, "task_session")' => Unclaimed(n, q, "task_session")
    BY <1>3, <1>7 DEF Unclaimed
  <2>4. Opens(n, q)' => Opens(n, q)
    BY <2>1, <2>3 DEF Opens
  <2>5. g # "resource_download" \/ n # m \/ q # r => Began(n, q)' = Began(n, q)
    BY <1>1, <1>2, <1>3 DEF Began
  <2>6. CASE n = m /\ q = r /\ g = "resource_download"
    <3>1. Began(n, q)' = Began(n, q) \cup {a} /\ a \notin Began(n, q)
      <4>1. a \notin Began(n, q)
        BY <1>2 DEF Began
      <4>2. a \in Began(n, q)'
        BY <1>1, <1>3, <2>6 DEF Began
      <4>3. \A b \in Attempt : b # a => (b \in Began(n, q)' <=> b \in Began(n, q))
        BY <1>3 DEF Began
      <4>4. Began(n, q) \subseteq Attempt /\ Began(n, q)' \subseteq Attempt
        BY DEF Began
      <4> QED
        BY <4>1, <4>2, <4>3, <4>4
    <3> QED
      BY <1>2, <2>1, <2>2, <2>4, <3>1 DEF Trade
  <2>7. CASE n = m /\ q = r /\ g = "task_session"
    <3>1. Unclaimed(n, q, "task_session") /\ Opens(n, q)
      BY <1>1, <1>2, <2>7 DEF Unclaimed, Opens
    <3>2. ~Unclaimed(n, q, "task_session")'
      <4> SUFFICES ASSUME NEW b \in Attempt, retry'[b].state = "queued", retry'[b].m = n,
                          retry'[b].r = q, retry'[b].stage = "task_session"
                   PROVE  FALSE
        BY DEF Unclaimed
      <4>1. /\ retry[b].state = "queued" /\ b # a /\ retry[b].m = n /\ retry[b].r = q
            /\ retry[b].stage = "task_session"
        BY <1>3, <1>7
      <4> QED
        BY <1>1, <1>2, <2>7, <4>1 DEF OnceInv, ClaimInv, InPlay, SameStage
    <3>3. MarkOf(n, q, "task_session") # "none"
      BY <1>1, <1>2, <2>7 DEF OnceInv, ClaimInv, InPlay
    <3>4. Mine(n, q)' /\ For("task_session")' /\ Going'
      BY <1>1, <1>3, <1>4, <2>7 DEF Mine, For, Going
    <3>5. ~Opens(n, q)'
      BY <2>1, <3>2, <3>3, <3>4 DEF Opens
    <3> QED
      BY <1>2, <2>1, <2>2, <2>5, <2>7, <3>1, <3>5 DEF Trade, Fair
  <2>8. CASE n # m \/ q # r \/ g = "task_router"
    <3>1. ~Answering(n, q)'
      <4>1. CASE n # m \/ q # r
        BY <1>4, <4>1 DEF Answering, Mine
      <4>2. CASE g = "task_router"
        BY <1>1, <1>3, <1>4, <1>5, <4>2 DEF Answering, Going, For
      <4> QED
        BY <2>8, <4>1, <4>2
    <3> QED
      BY <1>2, <2>1, <2>2, <2>4, <2>5, <2>8, <3>1 DEF Trade, Fair
  <2>9. g \in Stage
    BY <1>1, <1>2 DEF PipeInv, PipeType, RetryInv
  <2> QED
    BY <2>6, <2>7, <2>8, <2>9 DEF Stage
<1>11. BudgetInv'
  BY <1>10, Balanced DEF OnceInv
<1> QED
  BY <1>5, <1>8, <1>9, <1>11 DEF OnceInv

LEMMA RequestRetryOnce ==
  ASSUME PipeInv, PipeInv', OnceInv, NEW a \in Attempt, NEW m \in Message, NEW g \in Stage,
         RequestRetry(a, m, g)
  PROVE  OnceInv'
<1>1. PICK r, t : r = db.row[m].rev /\ t = db.mark[m][r][g].task
  OBVIOUS
<1>2. /\ retry[a].state = "free" /\ ~InFlight(m, r, g) /\ MarkOf(m, r, g) \in Stopped
      /\ UNCHANGED <<cast, shown, db, work, faults, ends>>
      /\ retry' = [retry EXCEPT ![a] = AttemptOf(m, r, g, t)]
  BY <1>1 DEF RequestRetry, MarkOf, Stopped
<1>3. PICK row : row = AttemptOf(m, r, g, t)
  OBVIOUS
<1>4. row.state = "queued" /\ row.m = m /\ row.r = r /\ row.stage = g
  BY <1>3 DEF AttemptOf
<1>5. \A b \in Attempt : retry'[b] = IF b = a THEN row ELSE retry[b]
  BY <1>2, <1>3 DEF PipeInv, PipeType
<1>6. SameAnswers
  BY <1>2 DEF SameAnswers
<1>7. work.attempt # NoKey =>
        work.attempt \in Attempt \ {a} /\ retry'[work.attempt] = retry[work.attempt]
  BY <1>2, <1>5 DEF PipeInv, PipeType, WorkRow, OnceInv, ClaimInv
<1>8. \A h : For(h)' = For(h)
  BY <1>2, <1>7 DEF For
<1>9. ClaimInv'
  <2>1. (work.attempt # NoKey => LET w == retry[work.attempt] IN
           w.state = "claimed" /\ w.m = work.m /\ w.r = work.r)'
    BY <1>2, <1>7 DEF OnceInv, ClaimInv
  <2>2. ASSUME NEW b \in Attempt, NEW c \in Attempt, InPlay(b)', InPlay(c)', SameStage(b, c)'
        PROVE  b = c
    <3>1. CASE b # a /\ c # a
      BY <1>5, <2>2, <3>1 DEF OnceInv, ClaimInv, InPlay, SameStage
    <3>2. CASE b = a /\ c # a
      BY <1>2, <1>4, <1>5, <2>2, <3>2 DEF InFlight, InPlay, SameStage
    <3>3. CASE b # a /\ c = a
      BY <1>2, <1>4, <1>5, <2>2, <3>3 DEF InFlight, InPlay, SameStage
    <3> QED
      BY <3>1, <3>2, <3>3
  <2>3. ASSUME NEW b \in Attempt, InPlay(b)'
        PROVE  (MarkOf(retry[b].m, retry[b].r, retry[b].stage) # "none")'
    <3>1. CASE b = a
      <4>1. MarkOf(m, r, g)' # "none"
        BY <1>2 DEF MarkOf, Stopped
      <4> QED
        BY <1>4, <1>5, <3>1, <4>1 DEF MarkOf
    <3>2. CASE b # a
      BY <1>5, <1>6, <2>3, <3>2 DEF OnceInv, ClaimInv, InPlay, MarkOf, SameAnswers
    <3> QED
      BY <3>1, <3>2
  <2>4. ASSUME NEW b \in Attempt, retry'[b].state = "queued", retry'[b].stage = "task_router"
        PROVE  (MarkOf(retry[b].m, retry[b].r, "task_router") \in Stopped)'
    <3>1. CASE b = a
      <4>1. g = "task_router" /\ (MarkOf(m, r, "task_router") \in Stopped)'
        BY <1>2, <1>4, <1>5, <2>4, <3>1 DEF MarkOf
      <4> QED
        BY <1>4, <1>5, <3>1, <4>1 DEF MarkOf
    <3>2. CASE b # a
      BY <1>5, <1>6, <2>4, <3>2 DEF OnceInv, ClaimInv, MarkOf, SameAnswers
    <3> QED
      BY <3>1, <3>2
  <2> QED
    BY <2>1, <2>2, <2>3, <2>4 DEF ClaimInv
<1>10. AnswerInv'
  BY <1>2, <1>8 DEF OnceInv, AnswerInv, RouterWork, Pending, Routable, MarkOf, Handled
<1>11. ASSUME NEW n \in Message, NEW q \in Revision PROVE Trade(n, q)
  <2>1. /\ Mine(n, q)' = Mine(n, q) /\ Going' = Going /\ Closing' = Closing
        /\ Routable(n, q)' = Routable(n, q)
        /\ \A h : MarkOf(n, q, h)' = MarkOf(n, q, h)
    BY <1>2, <1>8 DEF Mine, Going, Closing, Pending, Routable, MarkOf
  <2>2. Answering(n, q)' = Answering(n, q) /\ Deciding(n, q)' = Deciding(n, q)
    BY <1>2, <2>1 DEF Answering, Deciding
  <2>3. Began(n, q)' = Began(n, q)
    BY <1>2, <1>4, <1>5 DEF Began
  <2>4. Unclaimed(n, q, "task_session")' =>
          Unclaimed(n, q, "task_session") \/ (n = m /\ q = r /\ g = "task_session")
    BY <1>4, <1>5 DEF Unclaimed
  <2>5. CASE n = m /\ q = r /\ g = "task_session"
    <3>1. ~(Mine(n, q) /\ For("task_session"))
      BY <1>2, <2>5 DEF OnceInv, ClaimInv, Mine, For, InFlight, PipeInv, PipeType, WorkRow
    <3>2. Opens(n, q)
      BY <1>2, <2>5, <3>1 DEF Opens
    <3> QED
      BY <1>2, <2>2, <2>3, <3>2 DEF Trade, Fair
  <2>6. CASE ~(n = m /\ q = r /\ g = "task_session")
    <3>1. Opens(n, q)' => Opens(n, q)
      BY <1>2, <1>8, <2>1, <2>4, <2>6 DEF Opens
    <3> QED
      BY <1>2, <2>2, <2>3, <3>1 DEF Trade, Fair
  <2> QED
    BY <2>5, <2>6
<1>12. BudgetInv'
  BY <1>11, Balanced DEF OnceInv
<1> QED
  BY <1>2, <1>9, <1>10, <1>12 DEF OnceInv

-------------------------------------------------------------------------------
(* A commit, for the count.                                                *)

Leaves(o) ==
  /\ Shaped(work'.todo) /\ (work' = NoWork => work.next = "idle")
  /\ \A p \in Pending' : RouterMark(p) => p.status = "processed"
  /\ o.do = "draft" \/ Marks(o) => \A p \in Pending' : p.do # "draft"
  /\ o.do = "draft" => \E p \in Pending' : SessionMark(p) /\ p.status = "processed"
Committed(o) == work.at = "write" /\ Commits(o) /\ CommitDb(o) /\ Leaves(o) /\ Stays

LEMMA ShapedTail ==
  ASSUME NEW q, Queue(q), Shaped(q)
  PROVE  /\ Shaped(Tail(q))
         /\ \A p \in ItemsOf(Tail(q)) : RouterMark(p) => p.status = "processed"
         /\ Head(q).do = "draft" \/ Marks(Head(q)) => \A p \in ItemsOf(Tail(q)) : p.do # "draft"
         /\ Head(q).do = "draft" =>
              \E p \in ItemsOf(Tail(q)) : SessionMark(p) /\ p.status = "processed"
<1>1. /\ q \in Seq(WriteRow) /\ Len(q) \in Nat \ {0} /\ DOMAIN q = 1..Len(q) /\ Head(q) = q[1]
  BY DEF Queue
<1>2. PICK u : u = Tail(q)
  OBVIOUS
<1>3. /\ u \in Seq(WriteRow) /\ Len(u) = Len(q) - 1 /\ DOMAIN u = 1..Len(u)
      /\ \A i \in 1..Len(u) : u[i] = q[i + 1]
  BY <1>1, <1>2
<1>4. \A i \in DOMAIN u : i \in Nat \ {0} /\ i + 1 \in DOMAIN q /\ i + 1 # 1 /\ u[i] = q[i + 1]
  BY <1>1, <1>3
<1>5. \A j \in DOMAIN q : j > 1 => j - 1 \in DOMAIN u /\ u[j - 1] = q[j]
  BY <1>1, <1>3
<1>6. \A i \in DOMAIN u : RouterMark(u[i]) => u[i].status = "processed"
  BY <1>4 DEF Shaped
<1>7. ASSUME NEW i \in DOMAIN u, u[i].do = "draft"
      PROVE  /\ \E j \in DOMAIN u : j > i /\ SessionMark(u[j]) /\ u[j].status = "processed"
             /\ \A j \in DOMAIN u : u[j].do = "draft" => j = i
             /\ q[1].do # "draft"
  <2>1. i + 1 \in DOMAIN q /\ q[i + 1].do = "draft" /\ i \in Nat \ {0} /\ 1 \in DOMAIN q
    BY <1>1, <1>4, <1>7
  <2>2. /\ \E j \in DOMAIN q : j > i + 1 /\ SessionMark(q[j]) /\ q[j].status = "processed"
        /\ \A j \in DOMAIN q : q[j].do = "draft" => j = i + 1
    BY <2>1 DEF Shaped
  <2>3. PICK k \in DOMAIN q : k > i + 1 /\ SessionMark(q[k]) /\ q[k].status = "processed"
    BY <2>2
  <2>4. k \in Nat /\ k > 1 /\ k - 1 > i
    BY <1>1, <2>1, <2>3
  <2>5. k - 1 \in DOMAIN u /\ SessionMark(u[k - 1]) /\ u[k - 1].status = "processed"
    BY <1>5, <2>3, <2>4
  <2>6. \A j \in DOMAIN u : u[j].do = "draft" => j = i
    <3> SUFFICES ASSUME NEW j \in DOMAIN u, u[j].do = "draft" PROVE j = i
      OBVIOUS
    <3>1. j \in Nat /\ j + 1 \in DOMAIN q /\ q[j + 1].do = "draft"
      BY <1>4
    <3>2. j + 1 = i + 1
      BY <2>2, <3>1
    <3> QED
      BY <2>1, <3>1, <3>2
  <2>7. q[1].do # "draft"
    BY <2>1, <2>2
  <2> QED
    BY <2>4, <2>5, <2>6, <2>7
<1>8. Shaped(u)
  BY <1>6, <1>7 DEF Shaped
<1>9. q[1].do = "draft" => \E j \in DOMAIN u : SessionMark(u[j]) /\ u[j].status = "processed"
  <2> SUFFICES ASSUME q[1].do = "draft"
               PROVE  \E j \in DOMAIN u : SessionMark(u[j]) /\ u[j].status = "processed"
    OBVIOUS
  <2>1. PICK k \in DOMAIN q : k > 1 /\ SessionMark(q[k]) /\ q[k].status = "processed"
    BY <1>1 DEF Shaped
  <2> QED
    BY <1>5, <2>1
<1>10. Marks(q[1]) => \A p \in ItemsOf(u) : ~Marks(p)
  BY <1>1, <1>2, TailOf
<1>11. q[1].do = "draft" \/ Marks(q[1]) => \A i \in DOMAIN u : u[i].do # "draft"
  BY <1>7, <1>10 DEF SessionMark, ItemsOf
<1> QED
  BY <1>1, <1>2, <1>6, <1>8, <1>9, <1>11 DEF ItemsOf

LEMMA CommitIs == ASSUME PipeInv, Shaped(work.todo), Commit PROVE \E o : Committed(o)
<1>1. PICK q, o : q = work.todo /\ o = Head(q)
  OBVIOUS
<1>2. /\ Commits(o) /\ db' = After(db, work, o) /\ Queue(q) /\ work.at = "write"
      /\ work' = NoWork \/ work'.todo = Tail(q)
  BY <1>1, CommitWork DEF Commit
<1>3. CommitDb(o)
  BY <1>2, CommitStore DEF PipeInv, PipeType, WorkInv, Commits
<1>4. /\ Shaped(Tail(q))
      /\ \A p \in ItemsOf(Tail(q)) : RouterMark(p) => p.status = "processed"
      /\ o.do = "draft" \/ Marks(o) => \A p \in ItemsOf(Tail(q)) : p.do # "draft"
      /\ o.do = "draft" =>
           \E p \in ItemsOf(Tail(q)) : SessionMark(p) /\ p.status = "processed"
  BY <1>1, <1>2, ShapedTail
<1>5. work' = NoWork => work.next = "idle" /\ o.do # "draft"
  <2> SUFFICES ASSUME work' = NoWork PROVE work.next = "idle" /\ o.do # "draft"
    OBVIOUS
  <2>1. work \in WorkRow /\ NoWork.at = "idle" /\ NoWork.todo = <<>> /\ Pending' = {}
    BY Idle DEF PipeInv, PipeType, NoWork
  <2>2. work.next = "idle"
    <3>1. CASE Len(q) > 1
      <4>1. work'.at = "write"
        BY <1>1, <1>2, <2>1, <3>1 DEF Commit, WorkRow
      <4> QED
        BY <2>1, <4>1
    <3>2. CASE ~(Len(q) > 1) /\ work.next # "idle"
      <4>1. PICK next : next = work.next
        OBVIOUS
      <4>2. work' = [work EXCEPT !.at = next, !.todo = <<>>, !.next = "idle"]
        BY <1>1, <3>2, <4>1 DEF Commit
      <4>3. work'.at = next
        BY <2>1, <4>2 DEF WorkRow
      <4> QED
        BY <2>1, <3>2, <4>1, <4>3
    <3> QED
      BY <3>1, <3>2
  <2>3. ItemsOf(q) = {o}
    BY <1>1, <1>2, <2>1 DEF Commits, Pending, ItemsOf
  <2>4. ItemsOf(q) = {o} \cup ItemsOf(Tail(q))
    BY <1>1, <1>2, TailOf
  <2> QED
    BY <1>4, <2>2, <2>3, <2>4 DEF SessionMark, Marks
<1>6. Leaves(o)
  <2>1. CASE work' = NoWork
    BY <1>5, <2>1, Idle DEF Leaves
  <2>2. CASE work' # NoWork
    <3>1. work'.todo = Tail(q) /\ Pending' = ItemsOf(Tail(q))
      BY <1>2, <2>2 DEF Pending, ItemsOf
    <3> QED
      BY <1>4, <2>2, <3>1 DEF Leaves
  <2> QED
    BY <2>1, <2>2
<1> QED
  BY <1>2, <1>3, <1>6 DEF Committed, Stays, Commit

(* What a commit may take its handler to.                                  *)
Goes(o) ==
  /\ o \in Pending /\ Pending' \subseteq Pending /\ Pending \subseteq Pending' \cup {o}
  /\ work.at = "write" /\ retry' = retry /\ faults' = faults
  /\ work.m \in Message /\ work.r \in Revision
  /\ work.next = "download" => o = Routed(work.then) /\ Handled = Undecided
  /\ \/ /\ work'.at = "write" /\ Keeps /\ work'.next = work.next
        /\ Len(work.todo) > 1 /\ work'.then = work.then
     \/ /\ work'.at \in {"routing", "download", "session", "finish"}
        /\ work'.at = work.next /\ Keeps /\ work'.next = "idle" /\ Pending' = {}
        /\ work'.then = work.then
     \/ work' = NoWork /\ Pending' = {} /\ work.next = "idle"

LEMMA CommitGoes == ASSUME PipeInv, NEW o, Committed(o) PROVE Goes(o)
<1>1. /\ Pending = {o} \cup Pending' /\ work.at = "write" /\ retry' = retry /\ faults' = faults
      /\ work.m \in Message /\ work.r \in Revision
  BY DEF Committed, Commits, Stays, PipeInv, PipeType, WorkInv
<1>2. work.next = "download" => o = Routed(work.then) /\ Handled = Undecided
  <2> SUFFICES ASSUME work.next = "download"
               PROVE  o = Routed(work.then) /\ Handled = Undecided
    OBVIOUS
  <2>1. work.todo = <<Routed(work.then)>> /\ Handled = Undecided
    BY DEF PipeInv, DecisionInv
  <2>2. PICK p : p = Routed(work.then)
    OBVIOUS
  <2>3. Pending = ItemsOf(<<p>>)
    BY <2>1, <2>2 DEF Pending, ItemsOf
  <2>4. Pending = {p}
    BY <2>3, Listed
  <2> QED
    BY <1>1, <2>1, <2>2, <2>4
<1> QED
  BY <1>1, <1>2, Idle DEF Goes, Committed, Commits, Leaves, Carries, Keeps

LEMMA CommitClaims == ASSUME PipeInv, OnceInv, NEW o, Committed(o) PROVE ClaimInv'
<1>1. /\ retry' = retry /\ CommitDb(o) /\ o \in Pending
      /\ work.m \in Message /\ work.r \in Revision
      /\ work'.attempt = NoKey \/ Keeps
  BY CommitGoes, Idle DEF Goes, Committed
<1>2. RetryInv /\ retry' = retry
  BY <1>1 DEF PipeInv, PipeType
<1>3. (work.attempt # NoKey => LET row == retry[work.attempt] IN
         row.state = "claimed" /\ row.m = work.m /\ row.r = work.r)'
  BY <1>1 DEF OnceInv, ClaimInv, Keeps
<1>4. \A a, b \in Attempt : InPlay(a)' /\ InPlay(b)' /\ SameStage(a, b)' => a = b
  BY <1>2 DEF OnceInv, ClaimInv, InPlay, SameStage
<1>5. ASSUME NEW a \in Attempt, InPlay(a)'
      PROVE  (MarkOf(retry[a].m, retry[a].r, retry[a].stage) # "none")'
  <2>1. PICK m, r, g : m = retry[a].m /\ r = retry[a].r /\ g = retry[a].stage
    OBVIOUS
  <2>2. m \in Message /\ r \in Revision /\ g \in Stage /\ MarkOf(m, r, g) # "none"
    BY <1>2, <1>5, <2>1 DEF RetryInv, InPlay, OnceInv, ClaimInv
  <2>3. MarkOf(m, r, g)' = MarkOf(m, r, g) \/ MarkOf(m, r, g)' \in Final
    BY <1>1, <2>2 DEF CommitDb
  <2>4. MarkOf(m, r, g)' # "none"
    BY <2>2, <2>3 DEF Final
  <2> QED
    BY <1>2, <2>1, <2>4 DEF MarkOf
<1>6. ASSUME NEW a \in Attempt, retry'[a].state = "queued", retry'[a].stage = "task_router"
      PROVE  (MarkOf(retry[a].m, retry[a].r, "task_router") \in Stopped)'
  <2>1. PICK m, r : m = retry[a].m /\ r = retry[a].r
    OBVIOUS
  <2>2. /\ m \in Message /\ r \in Revision /\ MarkOf(m, r, "task_router") \in Stopped
        /\ retry[a].state = "queued" /\ retry[a].stage = "task_router"
    BY <1>2, <1>6, <2>1 DEF RetryInv, OnceInv, ClaimInv
  <2>3. CASE m = work.m /\ r = work.r /\ RouterMark(o)
    <3>1. Owes("task_router") /\ (work.attempt = NoKey \/ For("task_router"))
      BY <1>1, <2>3 DEF Owes, RouterMark, OnceInv, AnswerInv
    <3>2. MarkOf(m, r, "task_router") \in Final
      BY <2>2 DEF Stopped, Final
    <3>3. work.attempt # NoKey /\ For("task_router")
      BY <2>3, <3>1, <3>2 DEF PipeInv, MarkInv
    <3>4. /\ work.attempt \in Attempt /\ InPlay(work.attempt) /\ InPlay(a)
          /\ SameStage(a, work.attempt) /\ retry[work.attempt].state = "claimed"
      BY <2>1, <2>2, <2>3, <3>3
         DEF PipeInv, PipeType, WorkRow, OnceInv, ClaimInv, For, InPlay, SameStage
    <3>5. a = work.attempt
      BY <3>4 DEF OnceInv, ClaimInv
    <3> QED
      BY <2>2, <3>4, <3>5
  <2>4. CASE ~(m = work.m /\ r = work.r /\ RouterMark(o))
    <3>1. MarkOf(m, r, "task_router")' = MarkOf(m, r, "task_router")
      BY <1>1, <2>2, <2>4 DEF CommitDb, RouterMark, Stage
    <3>2. MarkOf(m, r, "task_router")' \in Stopped
      BY <2>2, <3>1
    <3> QED
      BY <1>2, <2>1, <3>2 DEF MarkOf
  <2> QED
    BY <2>3, <2>4
<1> QED
  BY <1>3, <1>4, <1>5, <1>6 DEF ClaimInv

LEMMA CommitAnswers == ASSUME PipeInv, OnceInv, NEW o, Committed(o) PROVE AnswerInv'
<1>1. /\ o \in Pending /\ Pending' \subseteq Pending /\ Pending \subseteq Pending' \cup {o}
      /\ work.at = "write" /\ retry' = retry /\ work.m \in Message /\ work.r \in Revision
      /\ work.next = "download" => o = Routed(work.then) /\ Handled = Undecided
      /\ \/ /\ work'.at = "write" /\ Keeps /\ work'.next = work.next
            /\ Len(work.todo) > 1 /\ work'.then = work.then
         \/ /\ work'.at \in {"routing", "download", "session", "finish"}
            /\ work'.at = work.next /\ Keeps /\ work'.next = "idle" /\ Pending' = {}
            /\ work'.then = work.then
         \/ work' = NoWork /\ Pending' = {} /\ work.next = "idle"
  BY CommitGoes DEF Goes
<1>2. CASE work' = NoWork
  BY <1>2, RestAnswers
<1>3. CASE work' # NoWork
  <2>1. /\ Keeps /\ work'.then = work.then
        /\ work'.next = work.next \/ work'.next = "idle"
        /\ For("task_router")' = For("task_router")
    BY <1>1, <1>3 DEF Keeps, For
  <2>2. AnswerInv /\ CommitDb(o) /\ Leaves(o)
    BY DEF OnceInv, Committed
  <2>3. RouterWork' => /\ work.next = "download" /\ work.attempt = NoKey
                       /\ work.then.route \in Placeholders
    BY <1>1, <1>3, <2>1, <2>2 DEF RouterWork, AnswerInv
  <2>4. /\ RouterWork' \/ work'.next = "session" \/ (\E p \in Pending' : RouterMark(p)) =>
             work'.attempt = NoKey \/ For("task_router")'
    BY <1>1, <2>1, <2>2, <2>3 DEF AnswerInv, Keeps
  <2>5. work'.next = "download" => work'.attempt = NoKey
    BY <2>1, <2>2 DEF AnswerInv, Keeps
  <2>6. (\/ RouterWork \/ (work.at = "claimed" /\ For("task_router"))
         \/ \E p \in Pending : RouterMark(p) /\ p.status # "processed"
         => Routable(work.m, work.r))'
    <3>1. ~\E p \in Pending' : RouterMark(p) /\ p.status # "processed"
      BY <2>2 DEF Leaves
    <3>2. work'.at # "claimed"
      BY <1>1, <1>3
    <3>3. RouterWork' => Routable(work.m, work.r)'
      <4> SUFFICES ASSUME RouterWork' PROVE Routable(work.m, work.r)'
        OBVIOUS
      <4>1. o = Routed(work.then) /\ work.then.route \in Placeholders
        BY <1>1, <2>3
      <4>2. Decides(o) /\ o.what = work.then.route
        BY <4>1 DEF Decides, Routed, Write
      <4>3. db'.dec[work.m][work.r] = Decision(o.what, o.task)
        BY <1>1, <2>2, <4>2 DEF CommitDb, DecidedNow
      <4>4. db'.dec[work'.m][work'.r].route \in Placeholders
        BY <2>1, <4>1, <4>2, <4>3 DEF Keeps, Decision
      <4> QED
        BY <4>4 DEF Routable
    <3> QED
      BY <3>1, <3>2, <3>3
  <2>7. (work.next = "session" =>
           /\ \A p \in Pending : Marks(p) => RouterMark(p) /\ p.status = "processed"
           /\ \/ MarkOf(work.m, work.r, "task_router") = "processed"
              \/ \E p \in Pending : Marks(p))'
    <3> SUFFICES ASSUME work'.next = "session"
                 PROVE  /\ \A p \in Pending' : Marks(p) => RouterMark(p) /\ p.status = "processed"
                        /\ \/ (MarkOf(work.m, work.r, "task_router") = "processed")'
                           \/ \E p \in Pending' : Marks(p)
      BY DEF RouterMark
    <3>1. /\ \A p \in Pending : Marks(p) => RouterMark(p) /\ p.status = "processed"
          /\ \/ MarkOf(work.m, work.r, "task_router") = "processed"
             \/ \E p \in Pending : Marks(p)
      BY <2>1, <2>2 DEF AnswerInv
    <3>2. MarkOf(work.m, work.r, "task_router")' =
            (IF RouterMark(o) THEN o.status ELSE MarkOf(work.m, work.r, "task_router"))
      <4>1. \A g \in Stage : db'.mark[work.m][work.r][g].status =
              IF g = o.what /\ Marks(o) THEN o.status ELSE MarkOf(work.m, work.r, g)
        BY <1>1, <2>2 DEF CommitDb, MarkOf
      <4>2. db'.mark[work.m][work.r]["task_router"].status =
              IF RouterMark(o) THEN o.status ELSE MarkOf(work.m, work.r, "task_router")
        BY <4>1 DEF RouterMark, Stage
      <4> QED
        BY <2>1, <4>2 DEF MarkOf, Keeps
    <3>3. \A p \in Pending' : Marks(p) => RouterMark(p) /\ p.status = "processed"
      BY <1>1, <3>1
    <3>4. CASE Marks(o)
      <4>1. RouterMark(o) /\ o.status = "processed"
        BY <1>1, <3>1, <3>4
      <4> QED
        BY <3>2, <3>3, <4>1
    <3>5. CASE ~Marks(o)
      <4>1. MarkOf(work.m, work.r, "task_router")' = MarkOf(work.m, work.r, "task_router")
        BY <3>2, <3>5 DEF RouterMark
      <4>2. (\E p \in Pending : Marks(p)) => \E p \in Pending' : Marks(p)
        BY <1>1, <3>5
      <4> QED
        BY <3>1, <3>3, <4>1, <4>2
    <3> QED
      BY <3>4, <3>5
  <2>8. (\A p \in Pending : Decides(p) /\ p.what \in SessionRoutes =>
           work.next = "session" \/ (Handled = Undecided /\ Len(work.todo) = 1))'
    <3> SUFFICES ASSUME NEW p \in Pending', Decides(p), p.what \in SessionRoutes
                 PROVE  work'.next = "session"
      BY DEF Decides
    <3>1. PICK n : n = Len(work.todo)
      OBVIOUS
    <3>2. work'.next = work.next /\ n > 1 /\ p \in Pending
      BY <1>1, <3>1
    <3>3. n \in Nat
      BY <3>1 DEF PipeInv, PipeType, WorkRow
    <3>4. work.next = "session" \/ n = 1
      BY <2>2, <3>1, <3>2 DEF AnswerInv, Decides
    <3>5. n # 1
      BY <3>2, <3>3
    <3> QED
      BY <3>2, <3>4, <3>5
  <2> QED
    BY <2>4, <2>5, <2>6, <2>7, <2>8 DEF AnswerInv
<1> QED
  BY <1>2, <1>3

(* What a commit does to the handler's own revision.                       *)
Answers(o, m, r) ==
  /\ m = work.m /\ r = work.r /\ Fair(m, r)
  /\ Unclaimed(m, r, "task_session")' = Unclaimed(m, r, "task_session")
  /\ Keeps => \A g \in Stage : For(g)' = For(g)
  /\ work' # NoWork => Keeps /\ Mine(m, r)'
  /\ work' = NoWork => ~Mine(m, r)' /\ work'.next = "idle"
  /\ db'.dec[m][r] = IF Decides(o) THEN Decision(o.what, o.task) ELSE db.dec[m][r]
  /\ MarkOf(m, r, "task_router")' =
       IF RouterMark(o) THEN o.status ELSE MarkOf(m, r, "task_router")
  /\ MarkOf(m, r, "task_session")' =
       IF SessionMark(o) THEN o.status ELSE MarkOf(m, r, "task_session")
  /\ o.do # "draft" => db'.made[m][r] = db.made[m][r]
  /\ db'.made[m][r] \in db.made[m][r]..(db.made[m][r] + 1)

LEMMA CommitOwn ==
  ASSUME PipeInv, NEW o, Committed(o), NEW m \in Message, NEW r \in Revision, Mine(m, r)
  PROVE  Answers(o, m, r)
<1>1. Goes(o) /\ CommitDb(o) /\ m = work.m /\ r = work.r
  BY CommitGoes DEF Committed, Mine
<1>2. /\ Fair(m, r) /\ Unclaimed(m, r, "task_session")' = Unclaimed(m, r, "task_session")
      /\ Keeps => \A g \in Stage : For(g)' = For(g)
  BY <1>1 DEF Goes, Fair, Began, Unclaimed, For, Keeps
<1>3. /\ work' # NoWork => Keeps /\ Mine(m, r)'
      /\ work' = NoWork => ~Mine(m, r)' /\ work'.next = "idle"
  BY <1>1, Idle DEF Goes, Mine, Keeps
<1>5. /\ MarkOf(m, r, "task_router")' =
           IF RouterMark(o) THEN o.status ELSE MarkOf(m, r, "task_router")
      /\ MarkOf(m, r, "task_session")' =
           IF SessionMark(o) THEN o.status ELSE MarkOf(m, r, "task_session")
  BY <1>1 DEF CommitDb, RouterMark, SessionMark, Stage
<1>6. /\ db'.dec[m][r] = IF Decides(o) THEN Decision(o.what, o.task) ELSE db.dec[m][r]
      /\ o.do # "draft" => db'.made[m][r] = db.made[m][r]
      /\ db'.made[m][r] \in db.made[m][r]..(db.made[m][r] + 1)
  BY <1>1 DEF CommitDb, DecidedNow
<1> QED
  BY <1>1, <1>2, <1>3, <1>5, <1>6 DEF Answers

LEMMA CommitElse ==
  ASSUME PipeInv, NEW o, Committed(o), NEW m \in Message, NEW r \in Revision, ~Mine(m, r)
  PROVE  Trade(m, r)
<1>1. Goes(o) /\ CommitDb(o) /\ ~(m = work.m /\ r = work.r)
  BY CommitGoes DEF Committed, Goes, Mine
<1>2. /\ ~Mine(m, r)' /\ Fair(m, r)
      /\ Unclaimed(m, r, "task_session")' => Unclaimed(m, r, "task_session")
  BY <1>1 DEF Goes, Mine, Keeps, NoWork, Fair, Began, Unclaimed
<1>3. /\ db'.made[m][r] = db.made[m][r] /\ db'.dec[m][r] = db.dec[m][r]
      /\ MarkOf(m, r, "task_router")' = MarkOf(m, r, "task_router")
      /\ MarkOf(m, r, "task_session")' = MarkOf(m, r, "task_session")
  BY <1>1 DEF CommitDb, DecidedNow, Stage
<1> QED
  BY <1>2, <1>3, ElseTrade

(* A draft: its handler answers no more.                                   *)
LEMMA DraftTrade ==
  ASSUME PipeInv, NEW o, Committed(o), o.do = "draft",
         NEW m \in Message, NEW r \in Revision, Mine(m, r)
  PROVE  Trade(m, r)
<1>1. Goes(o) /\ Answers(o, m, r) /\ Leaves(o)
  BY CommitGoes, CommitOwn DEF Committed
<1>2. PICK p \in Pending' : SessionMark(p) /\ p.status = "processed"
  BY <1>1 DEF Leaves
<1>3. work.next \notin {"session", "routing", "download"} /\ ~Decides(o) /\ ~Marks(o)
  <2>1. p \in Pending /\ Marks(p) /\ p.what # "task_router"
    BY <1>1, <1>2 DEF Goes, SessionMark
  <2> QED
    BY <2>1 DEF PipeInv, DecisionInv, Decides, Marks
<1>4. work'.at = "write" /\ Keeps /\ work'.next = work.next
  BY <1>1, <1>2 DEF Goes
<1>5. ~Going'
  <2>1. \A x \in Pending' : Marks(x) => x = p
    BY <1>2 DEF Committed, Commits, OneMark, Pending, SessionMark
  <2>2. \A x \in Pending' : x.do # "draft" /\ ~(SessionMark(x) /\ x.status # "processed")
    BY <1>1, <1>2, <2>1 DEF Leaves, SessionMark
  <2> QED
    BY <1>3, <1>4, <2>2 DEF Going
<1>6. Going /\ Closing'
  BY <1>1, <1>2 DEF Goes, Going, Closing
<1>7. Answering(m, r) /\ ~Answering(m, r)'
  BY <1>5, <1>6 DEF Answering
<1>8. Mine(m, r)'
  BY <1>4 DEF Mine, Keeps
<1>9. db'.dec[m][r] = db.dec[m][r] /\ MarkOf(m, r, "task_router")' = MarkOf(m, r, "task_router")
      /\ MarkOf(m, r, "task_session")' = MarkOf(m, r, "task_session")
  BY <1>1, <1>3 DEF Answers, RouterMark, SessionMark
<1>10. Deciding(m, r)' => Deciding(m, r)
  BY <1>3, <1>4, <1>9 DEF Deciding, Routable
<1>11. Opens(m, r)' => Opens(m, r)
  <2>1. For("task_session")' = For("task_session") /\ For("resource_download")' = For("resource_download")
        /\ Unclaimed(m, r, "task_session")' = Unclaimed(m, r, "task_session")
    BY <1>1, <1>4 DEF Answers, Stage
  <2> QED
    BY <1>6, <1>8, <1>9, <2>1 DEF Opens
<1> QED
  BY <1>1, <1>7, <1>10, <1>11 DEF Answers, Trade

(* A session's marker: processed, nothing opens; stopped, its handler ends.*)
LEMMA SessionMarkTrade ==
  ASSUME PipeInv, NEW o, Committed(o), SessionMark(o),
         NEW m \in Message, NEW r \in Revision, Mine(m, r)
  PROVE  Trade(m, r)
<1>1. Goes(o) /\ Answers(o, m, r) /\ Leaves(o) /\ Commits(o)
  BY CommitGoes, CommitOwn DEF Committed
<1>2. /\ work.next \notin {"session", "routing", "download"} /\ ~Decides(o) /\ ~RouterMark(o)
      /\ o.do # "draft" /\ o.status \in Final
  BY <1>1 DEF Goes, PipeInv, DecisionInv, Decides, Marks, SessionMark, RouterMark,
              Committed, CommitDb
<1>3. \A p \in Pending' : p.do # "draft" /\ ~SessionMark(p)
  BY <1>1 DEF Leaves, Commits, SessionMark
<1>4. ~Going' /\ ~Closing' /\ work'.next # "session"
  <2>1. CASE work' = NoWork
    BY <2>1, Idle
  <2>2. CASE work' # NoWork
    BY <1>1, <1>2, <1>3, <2>2 DEF Goes, Going, Closing
  <2> QED
    BY <2>1, <2>2
<1>5. db'.dec[m][r] = db.dec[m][r] /\ MarkOf(m, r, "task_router")' = MarkOf(m, r, "task_router")
      /\ MarkOf(m, r, "task_session")' = o.status /\ db'.made[m][r] = db.made[m][r]
  BY <1>1, <1>2 DEF Answers
<1>6. Deciding(m, r)' => Deciding(m, r)
  BY <1>2, <1>5 DEF Deciding, Routable
<1>7. ~Answering(m, r)'
  BY <1>4 DEF Answering
<1>8. CASE o.status = "processed"
  <2>1. Opens(m, r)' => Opens(m, r)
    BY <1>1, <1>5, <1>8 DEF Opens, Stopped, Answers
  <2> QED
    BY <1>1, <1>5, <1>6, <1>7, <2>1 DEF Answers, Trade
<1>9. CASE o.status # "processed"
  <2>1. Answering(m, r)
    BY <1>1, <1>9 DEF Goes, Going, Answering
  <2> QED
    BY <1>1, <1>5, <1>6, <1>7, <2>1 DEF Answers, Trade
<1> QED
  BY <1>8, <1>9

(* The resource marker: no session runs and none is decided.               *)
LEMMA ResourceMarkTrade ==
  ASSUME PipeInv, NEW o, Committed(o), Marks(o), ~SessionMark(o), ~RouterMark(o),
         NEW m \in Message, NEW r \in Revision, Mine(m, r)
  PROVE  Trade(m, r)
<1>1. Goes(o) /\ Answers(o, m, r) /\ Leaves(o) /\ Commits(o)
  BY CommitGoes, CommitOwn DEF Committed
<1>2. /\ work.next \notin {"session", "routing", "download"} /\ ~Decides(o) /\ o.do # "draft"
  BY <1>1 DEF Goes, PipeInv, DecisionInv, Decides, Marks, RouterMark
<1>3. \A p \in Pending' : p.do # "draft" /\ ~SessionMark(p)
  BY <1>1 DEF Leaves, Commits, SessionMark
<1>4. ~Going' /\ ~Closing' /\ work'.next # "session"
  <2>1. CASE work' = NoWork
    BY <2>1, Idle
  <2>2. CASE work' # NoWork
    BY <1>1, <1>2, <1>3, <2>2 DEF Goes, Going, Closing
  <2> QED
    BY <2>1, <2>2
<1>5. ~Going /\ ~Closing
  BY <1>1, <1>2, <1>3 DEF Goes, Going, Closing
<1>6. db'.dec[m][r] = db.dec[m][r] /\ MarkOf(m, r, "task_router")' = MarkOf(m, r, "task_router")
      /\ MarkOf(m, r, "task_session")' = MarkOf(m, r, "task_session")
      /\ db'.made[m][r] = db.made[m][r]
  BY <1>1, <1>2 DEF Answers
<1>7. /\ Deciding(m, r)' => Deciding(m, r)
      /\ Opens(m, r)' => Opens(m, r)
      /\ ~Answering(m, r)'
  BY <1>1, <1>2, <1>4, <1>5, <1>6 DEF Deciding, Routable, Opens, Answering, Answers
<1> QED
  BY <1>1, <1>6, <1>7 DEF Answers, Trade

(* The router's marker: with a session to come the question is settled.    *)
LEMMA RouterMarkTrade ==
  ASSUME PipeInv, OnceInv, NEW o, Committed(o), RouterMark(o),
         NEW m \in Message, NEW r \in Revision, Mine(m, r)
  PROVE  Trade(m, r)
<1>1. Goes(o) /\ Answers(o, m, r) /\ Leaves(o) /\ Commits(o) /\ AnswerInv
  BY CommitGoes, CommitOwn DEF Committed, OnceInv
<1>2. ~Decides(o) /\ o.do # "draft" /\ ~SessionMark(o) /\ Marks(o)
  BY DEF Decides, Marks, RouterMark, SessionMark
<1>3. \A p \in Pending' : p.do # "draft" /\ ~SessionMark(p) /\ ~Marks(p)
  BY <1>1, <1>2 DEF Leaves, Commits, SessionMark
<1>4. work.next # "download"
  BY <1>1, <1>2 DEF Goes, Routed, Write, Decides
<1>5. db'.dec[m][r] = db.dec[m][r] /\ MarkOf(m, r, "task_router")' = o.status
      /\ MarkOf(m, r, "task_session")' = MarkOf(m, r, "task_session")
      /\ db'.made[m][r] = db.made[m][r]
  BY <1>1, <1>2 DEF Answers
<1>6. CASE work.next = "session"
  <2>1. Keeps /\ Mine(m, r)' /\ Going /\ Going'
    BY <1>1, <1>6, Idle DEF Goes, Answers, Going
  <2>2. o.status = "processed"
    BY <1>1, <1>2, <1>6 DEF AnswerInv, Goes
  <2>3. ~Deciding(m, r)'
    <3>1. CASE work'.next = "session"
      BY <2>1, <3>1 DEF Deciding
    <3>2. CASE work'.next # "session"
      <4>1. Pending = {o}
        BY <1>1, <1>6, <3>2 DEF Goes
      <4>2. db.dec[m][r].route \in SessionRoutes
        BY <1>1, <1>2, <1>6, <4>1 DEF PipeInv, DecisionInv, Handled, Answers
      <4>3. ~Routable(m, r)'
        BY <1>5, <2>2, <4>2
           DEF Routable, SessionRoutes, Placeholders, Stopped, Undecided, Decision
      <4> QED
        BY <4>3 DEF Deciding
    <3> QED
      BY <3>1, <3>2
  <2>4. Opens(m, r)' => Opens(m, r)
    BY <1>1, <1>5, <2>1 DEF Opens, Answers, Stage
  <2>5. Answering(m, r)
    BY <2>1 DEF Answering
  <2> QED
    BY <1>1, <1>5, <2>3, <2>4, <2>5 DEF Answers, Trade
<1>7. CASE work.next # "session"
  <2>1. ~Going /\ ~Closing
    BY <1>1, <1>2, <1>3, <1>7 DEF Goes, Going, Closing
  <2>2. ~Going' /\ ~Closing' /\ work'.next # "session"
    <3>1. CASE work' = NoWork
      BY <3>1, Idle
    <3>2. CASE work' # NoWork
      BY <1>1, <1>3, <1>4, <1>7, <3>2 DEF Goes, Going, Closing
    <3> QED
      BY <3>1, <3>2
  <2>3. Routable(m, r)' => Routable(m, r)
    <3>1. CASE o.status = "processed"
      BY <1>5, <3>1 DEF Routable, Stopped
    <3>2. CASE o.status # "processed"
      BY <1>1, <3>2 DEF AnswerInv, Goes, Answers
    <3> QED
      BY <3>1, <3>2
  <2>4. /\ Deciding(m, r)' => Deciding(m, r)
        /\ Opens(m, r)' => Opens(m, r)
        /\ ~Answering(m, r)'
    BY <1>1, <1>5, <1>7, <2>1, <2>2, <2>3 DEF Deciding, Opens, Answering, Answers
  <2> QED
    BY <1>1, <1>5, <2>4 DEF Answers, Trade
<1> QED
  BY <1>6, <1>7

(* A decision: the router's for its session, or a route's.                 *)
LEMMA DecisionTrade ==
  ASSUME PipeInv, OnceInv, NEW o, Committed(o), Decides(o),
         NEW m \in Message, NEW r \in Revision, Mine(m, r)
  PROVE  Trade(m, r)
<1>1. Goes(o) /\ Answers(o, m, r) /\ AnswerInv /\ ClaimInv /\ Shaped(work.todo) /\ work.at = "write"
  BY CommitGoes, CommitOwn DEF Committed, OnceInv
<1>2. ~Marks(o) /\ o.do # "draft" /\ o.what \in Routes /\ ~RouterMark(o) /\ ~SessionMark(o)
  BY DEF Decides, Marks, RouterMark, SessionMark, Committed, CommitDb
<1>3. \A p \in Pending : ~SessionMark(p) /\ p.do # "draft"
  <2>1. \A p \in Pending : ~SessionMark(p)
    BY <1>1 DEF Goes, PipeInv, DecisionInv, SessionMark
  <2> QED
    BY <1>1, <2>1 DEF Shaped, Pending
<1>4. ~Closing /\ ~Closing'
  BY <1>1, <1>3 DEF Closing, Goes
<1>5. /\ db'.dec[m][r] = Decision(o.what, o.task) /\ db'.made[m][r] = db.made[m][r]
      /\ MarkOf(m, r, "task_router")' = MarkOf(m, r, "task_router")
      /\ MarkOf(m, r, "task_session")' = MarkOf(m, r, "task_session")
      /\ Handled = db.dec[m][r] /\ db'.dec[m][r].route = o.what
  BY <1>1, <1>2 DEF Answers, Handled, Decision
<1>6. CASE work.next = "session"
  <2>1. Keeps /\ Mine(m, r)' /\ Going /\ Going'
    BY <1>1, <1>6, Idle DEF Goes, Answers, Going
  <2>2. o.what \in SessionRoutes
    BY <1>1, <1>6 DEF PipeInv, DecisionInv, Goes
  <2>3. ~Deciding(m, r)'
    <3>1. CASE work'.next = "session"
      BY <2>1, <3>1 DEF Deciding
    <3>2. CASE work'.next # "session"
      <4>1. \A p \in Pending : p = o
        BY <1>1, <1>6, <3>2 DEF Goes
      <4>2. MarkOf(m, r, "task_router") = "processed"
        BY <1>1, <1>2, <1>6, <4>1 DEF AnswerInv, Answers
      <4>3. ~Routable(m, r)'
        BY <1>5, <2>2, <4>2
           DEF Routable, SessionRoutes, Placeholders, Stopped, Undecided, Decision
      <4> QED
        BY <4>3 DEF Deciding
    <3> QED
      BY <3>1, <3>2
  <2>4. ~For("resource_download") /\ ~For("task_session")
    BY <1>1, <1>6 DEF AnswerInv, For
  <2>5. ~For("resource_download")' /\ ~For("task_session")'
    BY <1>1, <2>1, <2>4 DEF Answers, Stage
  <2>6. Opens(m, r)' => Opens(m, r)
    BY <1>1, <1>5, <2>1, <2>4, <2>5 DEF Opens, Answers
  <2>7. Answering(m, r)
    BY <2>1 DEF Answering
  <2> QED
    BY <1>1, <1>5, <2>3, <2>6, <2>7 DEF Answers, Trade
<1>7. CASE work.next # "session"
  <2>1. ~Going /\ ~Answering(m, r) /\ work'.next # "session"
    <3>1. ~Going
      BY <1>1, <1>3, <1>7 DEF Going
    <3>2. work'.next # "session"
      BY <1>1, <1>7, Idle DEF Goes
    <3> QED
      BY <3>1, <3>2 DEF Answering
  <2>2. Going' => /\ work'.at = "download" /\ work.next = "download" /\ work' # NoWork
                  /\ o.what \in SessionRoutes
    <3>1. CASE work' = NoWork
      BY <3>1, Idle
    <3>2. CASE work' # NoWork
      <4>1. \A p \in Pending' : ~SessionMark(p) /\ p.do # "draft"
        BY <1>1, <1>3 DEF Goes
      <4>2. work.next = "download" => o.what = work.then.route
        BY <1>1 DEF Goes, Routed, Write
      <4> QED
        BY <1>1, <1>7, <2>1, <3>2, <4>1, <4>2 DEF Goes, Going
    <3> QED
      BY <3>1, <3>2
  <2>3. CASE o.what \in SessionRoutes \cup Placeholders
    <3>1. Handled = Undecided /\ Len(work.todo) = 1
      BY <1>1, <1>7, <2>3 DEF Goes, AnswerInv, PipeInv, DecisionInv
    <3>2. \A g \in Stage : MarkOf(m, r, g) = "none"
      BY <1>5, <3>1 DEF PipeInv, BlankInv, Blank
    <3>3. Deciding(m, r)
      BY <1>5, <1>7, <3>1 DEF Deciding, Routable
    <3>4. ~Unclaimed(m, r, "task_session")'
      BY <1>1, <3>2, NoneUnclaimed DEF Answers, Stage
    <3>5. CASE o.what \in SessionRoutes
      <4>1. ~Deciding(m, r)'
        BY <1>5, <3>2, <3>5
           DEF Deciding, Routable, SessionRoutes, Placeholders, Stopped, Stage, Undecided,
               Decision
      <4>2. ASSUME Answering(m, r)' PROVE ~Opens(m, r)'
        <5>1. Mine(m, r)' /\ Going' /\ work.next = "download" /\ Keeps
          BY <1>1, <2>2, <4>2 DEF Answering, Answers
        <5>2. work.attempt = NoKey
          BY <1>1, <5>1 DEF AnswerInv
        <5>3. ~For("resource_download")'
          BY <5>1, <5>2 DEF For, Keeps
        <5> QED
          BY <1>5, <3>2, <3>4, <5>1, <5>3 DEF Opens, Stopped, Stage
      <4> QED
        BY <1>1, <1>5, <2>1, <3>3, <4>1, <4>2 DEF Answers, Trade
    <3>6. CASE o.what \in Placeholders
      <4>1. o.what \notin SessionRoutes
        BY <3>6 DEF SessionRoutes, Placeholders
      <4>2. ~Answering(m, r)'
        BY <2>2, <4>1 DEF Answering
      <4>3. ~Opens(m, r)'
        BY <1>5, <3>2, <3>4, <4>1 DEF Opens, Stopped, Stage
      <4> QED
        BY <1>1, <1>5, <3>3, <4>2, <4>3 DEF Answers, Trade
    <3> QED
      BY <2>3, <3>5, <3>6
  <2>4. CASE o.what \notin SessionRoutes \cup Placeholders
    <3>1. ~Answering(m, r)'
      BY <2>2, <2>4 DEF Answering
    <3>2. Deciding(m, r)' => Deciding(m, r)
      <4>1. o.what # "none"
        BY <1>2 DEF Routes, SessionRoutes, Placeholders
      <4>2. Decision(o.what, o.task) # Undecided
        BY <4>1 DEF Undecided, Decision
      <4> QED
        BY <1>5, <1>7, <2>4, <4>2 DEF Deciding, Routable
    <3>3. Opens(m, r)' => Opens(m, r)
      BY <1>1, <1>4, <1>5, <2>1, <2>4 DEF Opens, Answers
    <3> QED
      BY <1>1, <1>5, <3>1, <3>2, <3>3 DEF Answers, Trade
  <2> QED
    BY <2>3, <2>4
<1> QED
  BY <1>6, <1>7

(* Any other write.                                                        *)
LEMMA OtherTrade ==
  ASSUME PipeInv, OnceInv, NEW o, Committed(o), ~Decides(o), ~Marks(o), o.do # "draft",
         NEW m \in Message, NEW r \in Revision, Mine(m, r)
  PROVE  Trade(m, r)
<1>1. Goes(o) /\ Answers(o, m, r) /\ AnswerInv /\ ~RouterMark(o) /\ ~SessionMark(o)
  BY CommitGoes, CommitOwn DEF Committed, OnceInv, RouterMark, SessionMark
<1>2. /\ db'.dec[m][r] = db.dec[m][r] /\ db'.made[m][r] = db.made[m][r]
      /\ MarkOf(m, r, "task_router")' = MarkOf(m, r, "task_router")
      /\ MarkOf(m, r, "task_session")' = MarkOf(m, r, "task_session")
      /\ Handled = db.dec[m][r] /\ Routable(m, r)' = Routable(m, r)
  BY <1>1 DEF Answers, Handled, Routable
<1>3. work.next # "download"
  BY <1>1 DEF Goes, Routed, Write, Decides
<1>4. Closing' => Closing
  BY <1>1 DEF Goes, Closing
<1>5. Going' => Going
  <2>1. CASE work' = NoWork
    BY <2>1, Idle
  <2>2. CASE work' # NoWork
    BY <1>1, <1>3, <2>2 DEF Goes, Going
  <2> QED
    BY <2>1, <2>2
<1>6. CASE work' = NoWork
  <2>1. ~Going /\ ~Closing
    BY <1>1, <1>6, Idle DEF Goes, Going, Closing
  <2>2. /\ Deciding(m, r)' => Deciding(m, r)
        /\ Opens(m, r)' => Opens(m, r)
        /\ ~Answering(m, r)'
    BY <1>1, <1>2, <1>6, <2>1, Idle DEF Goes, Deciding, Opens, Answering, Answers
  <2> QED
    BY <1>1, <1>2, <2>2 DEF Answers, Trade
<1>7. CASE work' # NoWork
  <2>1. Keeps /\ Mine(m, r)'
    BY <1>1, <1>7 DEF Answers
  <2>2. Going \/ Closing => Going' \/ Closing'
    BY <1>1, <1>7 DEF Goes, Going, Closing, SessionMark
  <2>3. Opens(m, r)' => Opens(m, r)
    BY <1>1, <1>2, <2>1, <2>2 DEF Opens, Answers, Stage
  <2>4. Answering(m, r)' => Answering(m, r)
    BY <1>5 DEF Answering
  <2>5. Deciding(m, r)' => Deciding(m, r)
    <3>1. CASE work.next # "session" \/ work'.next = "session"
      BY <1>2, <2>1, <3>1 DEF Deciding
    <3>2. CASE work.next = "session" /\ work'.next # "session"
      <4>1. \A p \in Pending : p = o
        BY <1>1, <1>7, <3>2 DEF Goes
      <4>2. MarkOf(m, r, "task_router") = "processed"
        BY <1>1, <3>2, <4>1 DEF AnswerInv, Answers
      <4>3. db.dec[m][r].route \in SessionRoutes
        BY <1>2, <3>2, <4>1 DEF PipeInv, DecisionInv
      <4>4. ~Routable(m, r)
        BY <4>2, <4>3
           DEF Routable, SessionRoutes, Placeholders, Stopped, Undecided, Decision
      <4> QED
        BY <1>2, <4>4 DEF Deciding
    <3> QED
      BY <3>1, <3>2
  <2> QED
    BY <1>1, <1>2, <2>3, <2>4, <2>5 DEF Answers, Trade
<1> QED
  BY <1>6, <1>7

LEMMA CommitOnce == ASSUME PipeInv, PipeInv', OnceInv, Commit PROVE OnceInv'
<1>1. PICK o : Committed(o)
  BY CommitIs DEF OnceInv
<1>2. ASSUME NEW m \in Message, NEW r \in Revision PROVE Trade(m, r)
  <2>1. CASE ~Mine(m, r)
    BY <1>1, <2>1, CommitElse
  <2>2. CASE Mine(m, r) /\ o.do = "draft"
    BY <1>1, <2>2, DraftTrade
  <2>3. CASE Mine(m, r) /\ Decides(o)
    BY <1>1, <2>3, DecisionTrade
  <2>4. CASE Mine(m, r) /\ SessionMark(o)
    BY <1>1, <2>4, SessionMarkTrade
  <2>5. CASE Mine(m, r) /\ RouterMark(o)
    BY <1>1, <2>5, RouterMarkTrade
  <2>6. CASE Mine(m, r) /\ Marks(o) /\ ~SessionMark(o) /\ ~RouterMark(o)
    BY <1>1, <2>6, ResourceMarkTrade
  <2>7. CASE Mine(m, r) /\ ~Decides(o) /\ ~Marks(o) /\ o.do # "draft"
    BY <1>1, <2>7, OtherTrade
  <2> QED
    BY <2>1, <2>2, <2>3, <2>4, <2>5, <2>6, <2>7
<1>3. BudgetInv'
  BY <1>2, Balanced DEF OnceInv
<1>4. ClaimInv' /\ AnswerInv' /\ Shaped(work'.todo)
  BY <1>1, CommitClaims, CommitAnswers DEF Committed, Leaves
<1> QED
  BY <1>3, <1>4 DEF OnceInv

LEMMA OnceInit == ASSUME Init PROVE OnceInv
<1>1. /\ work = NoWork /\ work.at = "idle" /\ work.next = "idle" /\ work.attempt = NoKey
      /\ work.todo = <<>> /\ faults = 0 /\ retry = [a \in Attempt |-> NoAttempt]
      /\ NoAttempt.state = "free"
  BY DEF Init, NoWork, NoAttempt
<1>2. db.mark = [m \in Message |-> [r \in Revision |-> [g \in Stage |-> Unmarked]]]
      /\ db.dec = [m \in Message |-> [r \in Revision |-> Undecided]]
      /\ db.made = [m \in Message |-> [r \in Revision |-> 0]]
  BY DEF Init
<1>3. Pending = {} /\ Shaped(work.todo) /\ ~RouterWork
  BY <1>1 DEF Pending, Shaped, RouterWork
<1>4. ClaimInv
  BY <1>1 DEF ClaimInv, InPlay
<1>5. AnswerInv
  BY <1>1, <1>3 DEF AnswerInv
<1>6. BudgetInv
  <2> SUFFICES ASSUME NEW m \in Message, NEW r \in Revision
               PROVE  Spent(m, r) <= 1 + faults + Cardinality(Began(m, r))
    BY DEF BudgetInv
  <2>1. \A g \in Stage : MarkOf(m, r, g) = "none"
    BY <1>2 DEF MarkOf, Unmarked
  <2>2. ~Answering(m, r)
    BY <1>1 DEF Answering, Mine
  <2>3. ~Opens(m, r)
    <3>1. ~Unclaimed(m, r, "task_session")
      BY <1>1 DEF Unclaimed
    <3>2. db.dec[m][r].route \notin SessionRoutes
      BY <1>2 DEF Undecided, Decision, SessionRoutes
    <3> QED
      BY <2>1, <3>1, <3>2 DEF Opens, Stopped, Stage
  <2>4. PICK c : c = Cardinality(Began(m, r))
    OBVIOUS
  <2>5. c \in Nat
    BY <2>4, BeganIs
  <2>6. db.made[m][r] = 0
    BY <1>2
  <2>7. One01(Answering(m, r)) = 0 /\ One01(Opens(m, r)) = 0 /\ One01(Deciding(m, r)) \in {0, 1}
    BY <2>2, <2>3 DEF One01
  <2>8. Spent(m, r) \in {0, 1}
    BY <2>6, <2>7 DEF Spent
  <2> QED
    BY <1>1, <2>4, <2>5, <2>8
<1> QED
  BY <1>3, <1>4, <1>5, <1>6 DEF OnceInv

LEMMA OnceStep == ASSUME PipeInv, OnceInv, [Next]_vars PROVE OnceInv'
<1>1. PipeInv'
  BY PipeStep
<1>2. CASE UNCHANGED vars
  BY <1>1, <1>2, BesideOnce DEF vars, Calm, SameAnswers
<1>3. CASE Commit
  BY <1>1, <1>3, CommitOnce
<1>4. CASE Next /\ ~Commit
  <2>0. SameAnswers
    BY <1>4, RowsAndMarks
  <2>1. CASE Confirm \/ Restore \/ Accept
    BY <1>1, <2>0, <2>1, ReadbackOnce, AcceptOnce
  <2>2. CASE RouteIneligible \/ RouteDuplicate \/ RouteMessage
    BY <1>1, <2>2, RouteIneligibleOnce, RouteDuplicateOnce, RouteMessageOnce
  <2>3. CASE Download \/ Process
    BY <1>1, <2>3, DownloadOnce, ProcessOnce
  <2>4. CASE Router
    BY <1>1, <2>4, RouterRefusesOnce, RouterSendsOnce DEF Router
  <2>5. CASE Session
    BY <1>1, <2>5, SessionsOnce, AgentsOnce DEF Session
  <2>6. CASE BeginRetry \/ FinishRetry
    BY <1>1, <2>0, <2>6, BeginRetryOnce, FinishRetryOnce
  <2>7. CASE Faults
    BY <1>1, <2>7, FaultsOnce
  <2>8. CASE Environment
    <3>1. UNCHANGED <<retry, work, faults>>
      BY <2>8 DEF Environment, Publish, Send, EndTask
    <3> QED
      BY <1>1, <2>0, <3>1, BesideOnce DEF Calm
  <2>9. CASE Operator
    BY <1>1, <2>9, RequestRetryOnce DEF Operator
  <2>10. CASE Polls
    BY <1>1, <2>0, <2>10, DeliverOnce DEF Polls
  <2>11. CASE \E a \in Attempt : ClaimRetry(a)
    BY <1>1, <2>11, ClaimRetryOnce
  <2> QED
    BY <1>4, <2>1, <2>2, <2>3, <2>4, <2>5, <2>6, <2>7, <2>8, <2>9, <2>10, <2>11
       DEF Next, Work
<1> QED
  BY <1>2, <1>3, <1>4

(* However often a revision is delivered, routed again or retried: a second *)
(* draft for it takes a crash or an error between a draft and its marker,   *)
(* or a retry of its resources, and each of these allows one draft more.    *)
THEOREM AnsweredOnce == Spec => []OneAnswer
<1>1. Init => PipeInv /\ OnceInv
  BY PipeInit, OnceInit
<1>2. PipeInv /\ OnceInv /\ [Next]_vars => PipeInv' /\ OnceInv'
  BY PipeStep, OnceStep
<1>3. PipeInv /\ OnceInv => OneAnswer
  <2> SUFFICES ASSUME PipeInv, OnceInv, NEW m \in Message, NEW r \in Revision
               PROVE  db.made[m][r] <= 1 + faults
                        + Cardinality({a \in Attempt : /\ retry[a].m = m /\ retry[a].r = r
                                                       /\ retry[a].stage = "resource_download"})
    BY DEF OneAnswer
  <2>1. PICK asked : asked = {a \in Attempt : /\ retry[a].m = m /\ retry[a].r = r
                                              /\ retry[a].stage = "resource_download"}
    OBVIOUS
  <2>2. IsFiniteSet(asked) /\ Began(m, r) \subseteq asked
    <3>1. asked \subseteq Attempt /\ Began(m, r) \subseteq asked
      BY <2>1 DEF Began
    <3> QED
      BY <3>1, ScriptAssumption, FS_Subset
  <2>3. PICK c, e : c = Cardinality(Began(m, r)) /\ e = Cardinality(asked)
    OBVIOUS
  <2>4. c \in Nat /\ e \in Nat /\ c <= e
    BY <2>2, <2>3, FS_CardinalityType, FS_Subset
  <2>5. PICK x, p, q, s : /\ x = db.made[m][r] /\ p = One01(Answering(m, r))
                          /\ q = One01(Deciding(m, r)) /\ s = One01(Opens(m, r))
    OBVIOUS
  <2>6. x \in Nat /\ faults \in Nat /\ {p, q, s} \subseteq {0, 1}
    BY <2>5 DEF PipeInv, PipeType, DbType, One01
  <2>7. x + p + q + s <= 1 + faults + c
    BY <2>3, <2>5 DEF OnceInv, BudgetInv, Spent
  <2>8. x <= 1 + faults + e
    BY <2>4, <2>6, <2>7
  <2> QED
    BY <2>1, <2>3, <2>5, <2>8
<1> QED
  BY <1>1, <1>2, <1>3, PTL DEF Spec
===============================================================================
