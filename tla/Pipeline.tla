------------------------------ MODULE Pipeline ------------------------------
(* What happens to one delivered message: the revision upsert, the fence, the *)
(* route, resource download, Task Router, Task Session, the stage markers and *)
(* owner notices, and the operator's processing retries. One process ingests; *)
(* the provider, dispatch and the operator act between any two store writes.  *)
EXTENDS Routing

CONSTANTS
  Script,      \* Script[m]: the snapshots the provider publishes, in order
  Casts,       \* the one or two messages of a behaviour and its bounds: retried, faults
               \* (crashes and failed readbacks), ends (tasks closed or lapsed),
               \* late (polls return older snapshots too)
  Attempt,     \* retry attempt rows
  MaxRevision  \* bound: revisions the store may count

Snapshots == UNION {{Script[m][i] : i \in DOMAIN Script[m]} : m \in Message}

ASSUME ScriptAssumption ==
  /\ MaxRevision \in Nat \ {0} /\ NoKey \notin Attempt
  /\ IsFiniteSet(Task) /\ IsFiniteSet(Attempt)
  /\ \A s \in Snapshots : s.dead \in BOOLEAN
  /\ \A c \in Casts : /\ c.messages \in Message \X Message /\ c.retried \subseteq Message
                      /\ c.faults \in Nat /\ c.ends \in Nat /\ c.late \in BOOLEAN
  /\ \A m \in Message : Script[m] \in Seq(Snapshots) /\ Len(Script[m]) \in 1..MaxRevision

Stored == INSTANCE Revisions WITH Snapshot <- Snapshots, Unhashed <- NoKey

VARIABLES
  cast,    \* who acts in this behaviour
  shown,   \* shown[m]: snapshots published so far
  db,      \* the SQLite store
  retry,   \* processing_retry_attempts
  work,    \* the handler in progress
  faults,
  ends     \* tasks closed by the operator or lapsed

vars == <<cast, shown, db, retry, work, faults, ends>>

Present == {cast.messages[k] : k \in 1..2}
Stage == {"task_router", "task_session", "resource_download"}
SessionRoutes == {"new_task", "attach_task", "reopen_task"}
Placeholders == {"router_placeholder", "recall_placeholder"}
ResourceRoutes == SessionRoutes \cup Placeholders \cup {"ambiguous"}
Final == {"processed", "failed", "blocked"}
Undecided == Decision("none", NoTask)
Unmarked == [status |-> "none", task |-> NoTask]
Revision == 1..MaxRevision

NoWork == [at |-> "idle", m |-> NoKey, s |-> NoKey, src |-> NoKey, r |-> 0,
           since |-> 0, ins |-> FALSE, chg |-> FALSE, then |-> Undecided,
           allowed |-> {}, attempt |-> NoKey, todo |-> <<>>, next |-> "idle"]

NoAttempt == [state |-> "free", m |-> NoKey, r |-> 0, stage |-> NoKey, task |-> NoTask]

Init ==
  /\ cast \in Casts
  /\ shown = [m \in Message |-> 0]
  /\ db = [row |-> [m \in Message |-> Stored!NoRow],
           tasks |-> [t \in Task |-> NoTaskRow],
           dec |-> [m \in Message |-> [r \in Revision |-> Undecided]],
           asked |-> [m \in Message |-> [r \in Revision |-> NoKey]],
           mark |-> [m \in Message |-> [r \in Revision |-> [g \in Stage |-> Unmarked]]],
           res |-> [m \in Message |-> "none"],
           told |-> {}, drafts |-> {}, sent |-> {},
           made |-> [m \in Message |-> [r \in Revision |-> 0]],
           posted |-> [m \in Message |-> NoTask]]
  /\ retry = [a \in Attempt |-> NoAttempt]
  /\ work = NoWork
  /\ faults = 0 /\ ends = 0

-----------------------------------------------------------------------------
(* Store writes: each is one transaction, queued by a handler in its order.   *)

Write(do, what, status, task) ==
  [do |-> do, what |-> what, status |-> status, task |-> task]
Mark(stage, status, t) == Write("mark", stage, status, t)
Tell(what) == Write("tell", what, NoKey, NoTask)
Audit(route, t) == Write("audit", route, NoKey, t)
Attach(t) == Write("attach", NoKey, NoKey, t)
Open(t) == Write("route", "new_task", NoKey, t)
Routed(then) == Write("route", then.route, NoKey, then.task)
SetTask(t, status) == Write("task", NoKey, status, t)
Draft(t) == Write("draft", NoKey, NoKey, t)
Escalate(t) == Write("escalate", NoKey, NoKey, t)
Fence == Write("fence", NoKey, NoKey, NoTask)
Hang == Write("hang", NoKey, NoKey, NoTask)

SentBefore(d, m, r) == \E p \in d.sent : p.m = m /\ p.r < r
Decided(d, m, r, route, t) ==
  [d EXCEPT !.dec[m][r] = Decision(route, t),
            !.asked[m][r] = IF route \in Placeholders THEN route ELSE @]
Ended(d, t, status) ==
  [d EXCEPT !.tasks[t].status = status, !.drafts = {p \in @ : p.task # t}]

\* What a task write of the deterministic router does with its audit.
RouteWritten(d, w, o) ==
  LET audited == Decided(d, w.m, w.r, o.what, o.task) IN
  CASE o.what = "new_task" -> [audited EXCEPT !.tasks[o.task] = Created(w.m, w.s)]
    [] o.what = "attach_task" -> [audited EXCEPT !.tasks[o.task] = Attached(@, w.m, w.s)]
    [] o.what = "human_taken_over" -> Ended(audited, o.task, "human_taken_over")
    [] o.what = "ignore" /\ o.task # NoTask ->
         [audited EXCEPT !.tasks[o.task] = AgentSaid(@, w.m, w.s)]
    [] OTHER -> audited

After(d, w, o) ==
  CASE o.do = "mark" ->
         [d EXCEPT !.mark[w.m][w.r][o.what] =
            [status |-> o.status, task |-> IF o.task = NoTask THEN @.task ELSE o.task]]
    [] o.do = "tell" -> [d EXCEPT !.told = @ \cup {<<w.m, w.r, o.what>>}]
    [] o.do = "audit" -> Decided(d, w.m, w.r, o.what, o.task)
    [] o.do = "attach" -> [d EXCEPT !.tasks[o.task] = Attached(@, w.m, w.s)]
    [] o.do = "route" -> RouteWritten(d, w, o)
    [] o.do = "task" ->
         [d EXCEPT !.tasks[o.task].status = o.status,
                   !.tasks[o.task].lapsed = @ /\ o.status # "watching"]
    [] o.do = "draft" ->
         [d EXCEPT !.drafts = @ \cup {[m |-> w.m, r |-> w.r, task |-> o.task]},
                   !.made[w.m][w.r] = IF @ < 3 THEN @ + 1 ELSE @]
    [] o.do = "escalate" ->
         IF d.tasks[o.task].status # "watching" THEN d
         ELSE [Ended(d, o.task, "closed") EXCEPT !.told = @ \cup {<<w.m, w.r, "escalated">>}]
    [] o.do = "fence" ->
         [d EXCEPT !.drafts = {p \in @ : p.m # w.m \/ p.r = w.r},
                   !.told = {n \in @ : n[1] # w.m \/ n[2] = w.r}]
    [] o.do = "hang" ->
         IF SentBefore(d, w.m, w.r) /\ \E t \in Task : w.m \in d.tasks[t].holds
         THEN [d EXCEPT !.told = @ \cup {<<w.m, w.r, "hanging">>}] ELSE d

Step(next) == work' = [work EXCEPT !.at = next]
Writes(todo, next) == work' = [work EXCEPT !.at = "write", !.todo = todo, !.next = next]
Rests == IF work.attempt = NoKey THEN "idle" ELSE "finish"
Over == IF work.attempt = NoKey THEN work' = NoWork ELSE Step("finish")
ReadOnly == UNCHANGED <<cast, shown, db, retry, faults, ends>>

Commit ==
  /\ work.at = "write"
  /\ db' = After(db, work, Head(work.todo))
  /\ work' = IF Len(work.todo) > 1 THEN [work EXCEPT !.todo = Tail(@)]
             ELSE IF work.next = "idle" THEN NoWork
             ELSE [work EXCEPT !.at = work.next, !.todo = <<>>, !.next = "idle"]
  /\ UNCHANGED <<cast, shown, retry, faults, ends>>
-----------------------------------------------------------------------------
(* _process_raw_message                                                        *)

Upserts(u, m, next) ==
  /\ db' = [db EXCEPT !.row[m] = u.row]
  /\ work' = [work EXCEPT !.at = next, !.r = u.row.rev, !.ins = u.inserted,
                         !.chg = u.changed]

\* A poll returns any snapshot published so far: windows overlap and lag.
Deliver(m, i, src) ==
  LET s == Script[m][i]
      u == Stored!Upsert(db.row[m], s, s.dead, FALSE) IN
  /\ work.at = "idle" /\ m \in Present /\ i \in 1..shown[m]
  /\ cast.late \/ i = shown[m]
  /\ u.row.rev <= MaxRevision
  /\ src \in {"p2p", "group_at_me"} => (src = "p2p") = (ChatType(Chat[m]) = "p2p")
  /\ src = "active_watch" =>
       \E t \in Task : Active(db.tasks[t]) /\ db.tasks[t].chat = Chat[m]
  /\ db' = [db EXCEPT !.row[m] = u.row]
  /\ work' = [NoWork EXCEPT !.at = IF u.unsure THEN "confirm" ELSE "accepted",
               !.m = m, !.s = s, !.src = src, !.r = u.row.rev, !.since = shown[m],
               !.ins = u.inserted, !.chg = u.changed]
  /\ UNCHANGED <<cast, shown, retry, faults, ends>>

\* A seen snapshot that is not the stored one is read back before it counts.
Confirm ==
  /\ work.at = "confirm"
  /\ work' = [work EXCEPT !.at = "restore", !.s = Script[work.m][shown[work.m]]]
  /\ ReadOnly

ConfirmFails ==
  /\ work.at = "confirm" /\ faults < cast.faults
  /\ work' = NoWork /\ faults' = faults + 1
  /\ UNCHANGED <<cast, shown, db, retry, ends>>

Restore ==
  LET u == Stored!Upsert(db.row[work.m], work.s, work.s.dead, TRUE) IN
  /\ work.at = "restore" /\ u.row.rev <= MaxRevision
  /\ Upserts(u, work.m, "accepted")
  /\ UNCHANGED <<cast, shown, retry, faults, ends>>

Gone == db.row[work.m].gone

Accept ==
  /\ work.at = "accepted"
  /\ CASE Gone /\ work.chg -> Writes(<<Fence, Audit("ignore", NoTask), Hang>>, "idle")
       [] Gone /\ ~work.chg -> work' = NoWork
       [] ~Gone /\ work.chg /\ work.r > 1 -> Writes(<<Fence>>, "routing")
       [] ~Gone /\ ~(work.chg /\ work.r > 1) -> Step("routing")
  /\ ReadOnly

StageOf(then) ==
  IF then.route \in SessionRoutes THEN "task_session"
  ELSE IF then.route \in Placeholders THEN "task_router" ELSE NoKey

MarkOf(m, r, stage) == db.mark[m][r][stage].status

\* Variants of Resumes: whatever the marker says; failures too; never.
ResumesAnyway(m, r) == StageOf(db.dec[m][r]) # NoKey
ResumesFailures(m, r) ==
  StageOf(db.dec[m][r]) # NoKey /\ MarkOf(m, r, StageOf(db.dec[m][r])) # "processed"
ResumesNothing(m, r) == FALSE

\* A routed message whose next stage never reached a final marker is resumed.
Resumes(m, r) ==
  LET stage == StageOf(db.dec[m][r]) IN
  /\ stage # NoKey /\ MarkOf(m, r, stage) \notin Final
  /\ stage = "task_session" => MarkOf(m, r, "resource_download") \notin {"failed", "blocked"}

Duplicate(m, r) == ~work.ins /\ ~work.chg /\ db.dec[m][r] # Undecided

\* A new revision of an answered message is reviewed even when not eligible.
Admitted(m, s, r) ==
  Eligible(m, s, work.src) \/ (work.chg /\ r > 1 /\ SentBefore(db, m, r))

FreeTask == LET free == {t \in Task : db.tasks[t].status = "none"} IN
            IF free = {} THEN NoTask ELSE CHOOSE t \in free : TRUE

Fresh(m, s) ==
  LET then == Route(db.tasks, m, s, work.src, work.chg, db.posted[m]) IN
  IF then.route = "new_task" THEN Decision("new_task", FreeTask) ELSE then

NeverDownloads(m, s) == Role[m] # "other" \/ s.all

\* A dropped duplicate still fetches resources an earlier route was entitled to.
Entitled(m, r) ==
  db.asked[m][r] # NoKey \/ db.dec[m][r].route \in ResourceRoutes

\* A readback of the agent's own reply is only linked, never processed.
Readback(m) == Role[m] = "self_message" /\ db.posted[m] # NoTask

\* The source and the upsert's report are not looked at after routing.
Forgetful == [work EXCEPT !.src = NoKey, !.since = 0, !.ins = FALSE, !.chg = FALSE]

RouteIneligible ==
  /\ work.at = "routing" /\ ~Readback(work.m) /\ ~Admitted(work.m, work.s, work.r)
  /\ Writes(<<Audit("ignore", NoTask)>>, "idle")
  /\ ReadOnly

RouteDuplicate ==
  LET m == work.m  r == work.r IN
  /\ work.at = "routing" /\ Duplicate(m, r)
  /\ Readback(m) \/ Admitted(m, work.s, r)
  /\ work' = IF Readback(m) THEN NoWork
             ELSE [Forgetful EXCEPT !.at = "download",
                               !.then = IF Resumes(m, r) THEN db.dec[m][r]
                                        ELSE Decision("duplicate", NoTask)]
  /\ ReadOnly

RouteMessage ==
  LET m == work.m  then == Fresh(m, work.s) IN
  /\ work.at = "routing" /\ ~Duplicate(m, work.r)
  /\ Readback(m) \/ Admitted(m, work.s, work.r)
  /\ work' = [Forgetful EXCEPT !.at = "write", !.todo = <<Routed(then)>>, !.then = then,
                             !.next = IF Readback(m) THEN "idle" ELSE "download"]
  /\ ReadOnly

-----------------------------------------------------------------------------
(* ResourceProcessor.process and TaskProcessingService.process                *)

Outcomes(m) == IF db.res[m] = "ready" THEN {"ready"}
               ELSE {"ready", "failed", "needs_bot", "refused"}

Downloads ==
  /\ work.s.res /\ ~NeverDownloads(work.m, work.s)
  /\ \/ work.then.route \in ResourceRoutes
     \/ /\ work.then.route = "duplicate"
        /\ Entitled(work.m, work.r) /\ db.res[work.m] # "ready"

Download ==
  /\ work.at = "download"
  /\ IF Downloads THEN \E out \in Outcomes(work.m) : db' = [db EXCEPT !.res[work.m] = out]
     ELSE UNCHANGED db
  /\ Step("process")
  /\ UNCHANGED <<cast, shown, retry, faults, ends>>

\* The targets a Task Router answer may name are read before the call.
RouterTargets(m, s, then) ==
  {<<"attach_task", t>> : t \in Candidates(db.tasks, m, s)}
    \cup (IF then.route # "recall_placeholder" THEN {}
          ELSE {<<"reopen_task", t>> : t \in RelatedClosed(db.tasks, m, s)})

Process ==
  LET then == work.then IN
  /\ work.at = "process"
  /\ CASE then.route \in Placeholders ->
            work' = [work EXCEPT !.at = "router",
                                 !.allowed = RouterTargets(work.m, work.s, then)]
       [] then.route \in SessionRoutes -> Step("session")
       [] OTHER -> Over
  /\ ReadOnly

RouterDone(t) == Mark("task_router", "processed", t)

RouterFails ==
  /\ work.at = "router"
  /\ Writes(<<Mark("task_router", "failed", NoTask), Audit("ambiguous", NoTask),
              Tell("task_router")>>, Rests)
  /\ ReadOnly

\* The router cannot tell, or names a target or a route it may not use.
RouterUnsure ==
  /\ work.at = "router"
  /\ \/ Writes(<<Audit("ambiguous", NoTask), Tell("question"), RouterDone(NoTask)>>, Rests)
     \/ Writes(<<Tell("question"), Audit("ambiguous", NoTask), RouterDone(NoTask)>>, Rests)
  /\ ReadOnly

RouterIgnores ==
  /\ work.at = "router"
  /\ Writes(<<Audit("ignore", NoTask), RouterDone(NoTask)>>, Rests)
  /\ ReadOnly

ToSession(route, t, todo) ==
  work' = [work EXCEPT !.at = "write", !.todo = todo, !.next = "session",
                       !.then = Decision(route, t)]

RouterOpens ==
  /\ work.at = "router" /\ FreeTask # NoTask
  /\ ToSession("new_task", FreeTask, <<Open(FreeTask), RouterDone(FreeTask)>>)
  /\ ReadOnly

RouterAttaches(t) ==
  /\ work.at = "router" /\ <<"attach_task", t>> \in work.allowed
  /\ ToSession("attach_task", t, <<Attach(t), Audit("attach_task", t), RouterDone(t)>>)
  /\ ReadOnly

RouterReopens(t) ==
  /\ work.at = "router" /\ <<"reopen_task", t>> \in work.allowed
  /\ ToSession("reopen_task", t, <<Attach(t), Audit("reopen_task", t),
                                   SetTask(t, "watching"), RouterDone(t)>>)
  /\ ReadOnly
-----------------------------------------------------------------------------
(* _run_task_session                                                           *)

SessionDone(t) == Mark("task_session", "processed", t)

\* The task's working directory is gone.
SessionBlocked ==
  /\ work.at = "session"
  /\ Writes(<<Mark("task_session", "blocked", work.then.task), Tell("task_session")>>, Rests)
  /\ ReadOnly

Unavailable(out) == out = "needs_bot" /\ ChatType(Chat[work.m]) = "p2p"

\* Missing and failed downloads are tried again, refusals are not.
Preflight ==
  LET m == work.m  t == work.then.task IN
  /\ work.at = "session"
  /\ \E out \in IF ~work.s.res THEN {"ready"}
               ELSE IF db.res[m] \in {"none", "failed"} THEN Outcomes(m) ELSE {db.res[m]} :
       /\ db' = [db EXCEPT !.res[m] = IF work.s.res THEN out ELSE @]
       /\ CASE out = "ready" \/ (Unavailable(out) /\ work.s.text) -> Step("agent")
            [] Unavailable(out) /\ ~work.s.text ->
                 Writes(<<Mark("resource_download", "processed", t)>>, Rests)
            [] OTHER ->
                 Writes(<<Mark("resource_download",
                               IF out = "failed" THEN "failed" ELSE "blocked", t),
                          Tell("resource_download")>>, Rests)
  /\ UNCHANGED <<cast, shown, retry, faults, ends>>

AgentFails ==
  /\ work.at = "agent"
  /\ Writes(<<Mark("task_session", "failed", work.then.task), Tell("task_session")>>, Rests)
  /\ ReadOnly

AgentEscalates ==
  /\ work.at = "agent" /\ work.s.res /\ Unavailable(db.res[work.m])
  /\ Writes(<<Escalate(work.then.task), SessionDone(work.then.task)>>, Rests)
  /\ ReadOnly

\* Nothing to say, or nothing to correct in the reply already sent.
AgentQuiet(status) ==
  /\ work.at = "agent"
  /\ Writes(<<SetTask(work.then.task, status), SessionDone(work.then.task)>>, Rests)
  /\ ReadOnly

AgentAnswers(status) ==
  LET t == work.then.task IN
  /\ work.at = "agent"
  /\ status = "watching" \/ ~SentBefore(db, work.m, work.r)
  /\ Writes(<<SetTask(t, status), Draft(t), SessionDone(t)>>, Rests)
  /\ ReadOnly

AgentCorrects ==
  LET t == work.then.task IN
  /\ work.at = "agent" /\ SentBefore(db, work.m, work.r)
  /\ \/ Writes(<<Draft(t), SetTask(t, "watching"), SessionDone(t)>>, Rests)
     \/ Writes(<<SetTask(t, "watching"), Tell("review"), SessionDone(t)>>, Rests)
  /\ ReadOnly

-----------------------------------------------------------------------------
(* run_processing_retries and the operator's request                           *)

AttemptOf(m, r, stage, t) ==
  [state |-> "queued", m |-> m, r |-> r, stage |-> stage, task |-> t]

InFlight(m, r, stage) ==
  \E a \in Attempt : /\ retry[a].state \in {"queued", "claimed"}
                    /\ retry[a].m = m /\ retry[a].r = r /\ retry[a].stage = stage

RequestRetry(a, m, stage) ==
  LET r == db.row[m].rev  mark == db.mark[m][r][stage] IN
  /\ m \in cast.retried /\ retry[a].state = "free" /\ r > 0 /\ ~db.row[m].gone
  /\ mark.status \in {"failed", "blocked"}
  /\ mark.task # NoTask => db.tasks[mark.task].status = "watching"
  /\ ~\E p \in db.sent : p.m = m /\ p.r = r
  /\ ~InFlight(m, r, stage)
  /\ retry' = [retry EXCEPT ![a] = AttemptOf(m, r, stage, mark.task)]
  /\ UNCHANGED <<cast, shown, db, work, faults, ends>>

ClaimRetry(a) ==
  /\ work.at = "idle" /\ retry[a].state = "queued"
  /\ retry' = [retry EXCEPT ![a].state = "claimed"]
  /\ work' = [NoWork EXCEPT !.at = "claimed", !.attempt = a, !.m = retry[a].m, !.r = retry[a].r]
  /\ UNCHANGED <<cast, shown, db, faults, ends>>

Closes(a, state) ==
  /\ retry' = [retry EXCEPT ![a].state = state]
  /\ work' = NoWork

Starts(m, then, next) ==
  /\ work' = [work EXCEPT !.at = next, !.s = db.row[m].hash, !.then = then,
               !.src = IF ChatType(Chat[m]) = "p2p" THEN "p2p" ELSE "group_at_me"]
  /\ UNCHANGED retry

\* Variant: an edit since the request is not looked at.
Withdrawn(m, r) == db.row[m].gone

Superseded(m, r) == db.row[m].gone \/ db.row[m].rev # r

BeginRetry ==
  LET a == work.attempt  m == work.m  r == work.r
      asked == db.asked[m][r]  then == db.dec[m][r] IN
  /\ work.at = "claimed"
  /\ IF Superseded(m, r) THEN Closes(a, "cancelled")
     ELSE IF retry[a].stage = "task_router"
     THEN IF asked = NoKey THEN Closes(a, "failed")
          ELSE Starts(m, Decision(asked, NoTask), "process")
     ELSE IF then = Undecided \/ (retry[a].task # NoTask /\ then.task # retry[a].task)
     THEN Closes(a, "failed")
     ELSE IF then.task # NoTask /\ db.tasks[then.task].status # "watching"
     THEN Closes(a, "cancelled")
     ELSE Starts(m, then, IF retry[a].stage = "resource_download" THEN "download"
                          ELSE "process")
  /\ UNCHANGED <<cast, shown, db, faults, ends>>

\* Variant: the notice goes whatever the retry achieved.
FinishClearsNotice ==
  LET a == work.attempt  m == work.m  r == work.r  stage == retry[a].stage IN
  /\ work.at = "finish"
  /\ Closes(a, IF MarkOf(m, r, stage) = "processed" THEN "succeeded" ELSE "failed")
  /\ db' = [db EXCEPT !.told = @ \ {<<m, r, stage>>}]
  /\ UNCHANGED <<cast, shown, faults, ends>>

\* Success is what the retried stage's own marker says.
FinishRetry ==
  LET a == work.attempt  m == work.m  r == work.r  stage == retry[a].stage
      ok == MarkOf(m, r, stage) = "processed" IN
  /\ work.at = "finish"
  /\ Closes(a, IF ok THEN "succeeded" ELSE "failed")
  /\ db' = [db EXCEPT !.told = IF ok THEN @ \ {<<m, r, stage>>} ELSE @]
  /\ UNCHANGED <<cast, shown, faults, ends>>

\* An exception in a retry is caught and recorded.
RetryRaises ==
  /\ work.attempt # NoKey /\ faults < cast.faults
  /\ Closes(work.attempt, "failed")
  /\ faults' = faults + 1
  /\ UNCHANGED <<cast, shown, db, ends>>

\* The process dies, or an exception of a store or client ends the handler.
Crash ==
  /\ work.at # "idle" /\ faults < cast.faults
  /\ work' = NoWork /\ faults' = faults + 1
  /\ UNCHANGED <<cast, shown, db, retry, ends>>
-----------------------------------------------------------------------------
(* The provider, the dispatcher, the operator and the clock                    *)

\* An edit the handler cannot see yet may as well come when it is done.
Publish(m) ==
  /\ m \in Present /\ shown[m] < Len(Script[m])
  /\ work.at \in {"idle", "confirm"}
  /\ Role[m] = "self_message" => db.sent # {}
  /\ shown' = [shown EXCEPT ![m] = @ + 1]
  /\ UNCHANGED <<cast, db, retry, work, faults, ends>>

\* Dispatch posts a reply only for a current, live source.
Send(p) ==
  /\ p \in db.drafts /\ db.row[p.m].rev = p.r /\ ~db.row[p.m].gone
  /\ db' = [db EXCEPT !.drafts = @ \ {p}, !.sent = @ \cup {p},
       !.posted = [n \in Message |-> IF Role[n] = "self_message" /\ n \in Present
                                        /\ @[n] = NoTask THEN p.task ELSE @[n]]]
  /\ UNCHANGED <<cast, shown, retry, work, faults, ends>>

CloseTask(t) ==
  /\ db.tasks[t].status = "watching"
  /\ db' = Ended(db, t, "closed_by_owner")

Lapse(t) ==
  /\ Active(db.tasks[t])
  /\ db' = [db EXCEPT !.tasks[t].lapsed = TRUE]

EndTask(t) ==
  /\ ends < cast.ends /\ ends' = ends + 1
  /\ CloseTask(t) \/ Lapse(t)
  /\ UNCHANGED <<cast, shown, retry, work, faults>>

Router == RouterFails \/ RouterUnsure \/ RouterIgnores \/ RouterOpens
          \/ \E t \in Task : RouterAttaches(t) \/ RouterReopens(t)
Session == SessionBlocked \/ Preflight \/ AgentFails \/ AgentEscalates \/ AgentCorrects
           \/ \E status \in {"watching", "closed"} : AgentQuiet(status) \/ AgentAnswers(status)
Work == Confirm \/ Restore \/ Accept \/ RouteIneligible \/ RouteDuplicate \/ RouteMessage
        \/ Commit \/ Download \/ Process \/ Router \/ Session \/ BeginRetry \/ FinishRetry
Faults == ConfirmFails \/ RetryRaises \/ Crash
Environment == \/ \E m \in Message : Publish(m)
               \/ \E p \in db.drafts : Send(p)
               \/ \E t \in Task : EndTask(t)
Operator == \E a \in Attempt, m \in Message, g \in Stage : RequestRetry(a, m, g)
Polls == \E m \in Present, src \in Sources : \E i \in 1..shown[m] : Deliver(m, i, src)

Next == Work \/ Faults \/ Environment \/ Operator \/ Polls
        \/ \E a \in Attempt : ClaimRetry(a)

Spec == Init /\ [][Next]_vars

\* A handler that runs goes on; a message whose window is not saved is fetched
\* again from the source of its chat.
HomeSource(m) == IF ChatType(Chat[m]) = "p2p" THEN "p2p" ELSE "group_at_me"
Fairness ==
  /\ WF_vars(Work)
  /\ \A k \in 1..2 : LET m == cast.messages[k] IN
       SF_vars(Deliver(m, shown[m], HomeSource(m)))
FairSpec == Spec /\ Fairness

-----------------------------------------------------------------------------
(* Properties                                                                  *)

\* The agents are asked about the wording the store holds as current, for its
\* revision, and never about a withdrawn message: however late a poll's
\* snapshot is, and whether a poll, a resumption or a retry led to the call.
AgentSeesStored ==
  work.at \in {"router", "agent"} =>
    /\ db.row[work.m].hash = work.s /\ db.row[work.m].rev = work.r
    /\ ~db.row[work.m].gone

\* Redelivery never answers a revision twice: a second draft takes a fault
\* between draft and marker, or a retry of its resources.
OneAnswer ==
  \A m \in Message, r \in Revision :
    db.made[m][r] <= 1 + faults
      + Cardinality({a \in Attempt : /\ retry[a].m = m /\ retry[a].r = r
                                     /\ retry[a].stage = "resource_download"})

\* Without faults, whatever waits for the operator was announced: each failed
\* or blocked stage of a current revision has its owner notice.
FailuresAreTold ==
  work.at = "idle" /\ faults = 0 =>
    \A m \in Message, g \in Stage :
      LET r == db.row[m].rev IN
      r > 0 /\ ~db.row[m].gone /\ MarkOf(m, r, g) \in {"failed", "blocked"}
        => <<m, r, g>> \in db.told

\* A wording the store has replaced comes back only if the provider showed it
\* as current while the message was handled.
NoRollback ==
  [][\A m \in Message :
       LET old == db.row[m]  new == db'.row[m] IN
       new.hash # old.hash /\ new.hash \in old.seen =>
         \E i \in work'.since..shown[m] : Script[m][i] = new.hash]_vars

\* Redelivery, edits and crashes never undo a final router or session marker;
\* only a retry the operator asked for may.
FinalStaysFinal ==
  [][\A m \in Message, r \in Revision, g \in {"task_router", "task_session"} :
       MarkOf(m, r, g) \in Final /\ db'.mark[m][r][g].status # MarkOf(m, r, g)
         => work.attempt # NoKey]_vars

Settled(m) ==
  LET r == db.row[m].rev  stage == StageOf(db.dec[m][r]) IN
  \/ db.row[m].gone
  \/ db.dec[m][r] # Undecided
     /\ \/ stage = NoKey \/ MarkOf(m, r, stage) \in Final
        \/ MarkOf(m, r, "resource_download") \in Final

\* A stored message reaches a decision and a final stage marker, whatever
\* crashes, failed readbacks and edits come between: nothing half-routed is
\* taken for a duplicate that is done.
Settles == []<>(\A m \in Message : db.row[m].rev > 0 => Settled(m))
=============================================================================
