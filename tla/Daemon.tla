-------------------------------- MODULE Daemon --------------------------------
(***************************************************************************)
(* The daemon process: its main loop with the stages of a tick, the wait   *)
(* for the next tick and the ways it is cut short, the signal handler, the *)
(* thread that receives card actions, and the run row that says how the    *)
(* process is doing.                                                       *)
(*                                                                         *)
(* What a stage does is the business of other modules; here the stages are *)
(* told apart by what they do to replies: a card action or a session       *)
(* queues one, an owner command in the approval inbox withdraws one, and   *)
(* dispatch sends what is queued.                                          *)
(***************************************************************************)
EXTENDS Naturals, FiniteSets

CONSTANTS
  Reply,
  MaxSignal,   \* bound on the signals delivered
  MaxFault     \* bound on exceptions outside the stages' isolation

VARIABLES
  at,         \* where the main thread is
  exit,       \* how the process ended
  run,        \* the runs row: status and last tick
  results,    \* the outcomes of this tick's stages
  blocks,     \* the inbox stage of this tick did not complete
  stop,       \* _stop_requested
  generation, \* _wakeup_generation
  observed,   \* the generation the loop saw last
  notified,   \* the waiting thread's waiter was released
  reply,      \* [Reply -> status]
  posted,     \* replies an owner command in the inbox withdraws
  seen,       \* the commands that were there when this tick's inbox stage began
  applied,    \* the commands applied
  woken,      \* replies of card actions whose wake no tick has followed
  calling,    \* replies of card actions applied, wake() not yet called
  conn,       \* the card connection: its thread and its status
  signals, faults

tickVars == <<run, results, blocks>>
waitVars == <<stop, generation, observed, notified>>
replyVars == <<reply, posted, seen, applied>>
cardVars == <<woken, calling>>
vars == <<at, exit, tickVars, waitVars, replyVars, cardVars, conn, signals, faults>>

Stages == {"membership", "retries", "inbox", "draining", "ingestion", "dispatch",
           "retention"}
Ends == {"stopped", "health_failed", "crashed"}
Places == Stages \cup Ends \cup {"new", "recorded", "health", "starting", "late",
                                 "head", "wait", "decided", "asleep", "ended"}

Init ==
  /\ at = "new" /\ exit = "none"
  /\ run = [status |-> "none", tick |-> "none"] /\ results = {} /\ blocks = FALSE
  /\ stop = FALSE /\ generation = 0 /\ observed = 0 /\ notified = FALSE
  /\ reply = [r \in Reply |-> "proposed"]
  /\ posted = {} /\ seen = {} /\ applied = {}
  /\ woken = {} /\ calling = {}
  /\ conn = [thread |-> "none", status |-> "disabled"]
  /\ signals = MaxSignal /\ faults = MaxFault

Go(from, to) == at = from /\ at' = to

------------------------------------------------------------------------------
(* run_forever: the run row, the handlers, startup health, the connection. *)
RecordStart ==
  /\ Go("new", "recorded")
  /\ run' = [run EXCEPT !.status = "running"]
  /\ UNCHANGED <<exit, results, blocks, waitVars, replyVars, cardVars, conn,
                 signals, faults>>

InstallHandlers ==
  /\ Go("recorded", "health")
  /\ UNCHANGED <<exit, tickVars, waitVars, replyVars, cardVars, conn, signals, faults>>

StartupHealth ==
  /\ at = "health"
  /\ \/ at' = "health_failed" /\ UNCHANGED conn
     \/ at' = "starting"
        /\ conn' \in {conn, [thread |-> "connecting", status |-> "starting"]}
  /\ UNCHANGED <<exit, tickVars, waitVars, replyVars, cardVars, signals, faults>>

(* The health suite, or the connection's health row, raises. *)
StartRaises ==
  /\ at \in {"health", "starting", "late"} /\ faults > 0
  /\ faults' = faults - 1 /\ at' = "crashed"
  /\ UNCHANGED <<exit, tickVars, waitVars, replyVars, cardVars, conn, signals>>

(* The connection answered in time, or there is none, or its time is up. *)
Started ==
  /\ at = "starting"
  /\ IF conn.thread = "connecting" THEN at' = "late" /\ UNCHANGED observed
     ELSE at' = "head" /\ observed' = generation
  /\ UNCHANGED <<exit, tickVars, stop, generation, notified, replyVars, cardVars,
                 conn, signals, faults>>

(* The status is set after the event was tested: it may hit a connection   *)
(* that has come up in between.                                            *)
StartedLate ==
  /\ Go("late", "head")
  /\ conn' = [conn EXCEPT !.status = "unhealthy"]
  /\ observed' = generation
  /\ UNCHANGED <<exit, tickVars, stop, generation, notified, replyVars, cardVars,
                 signals, faults>>

(* The connection's thread: it connects or fails, drops and reconnects. *)
Connect ==
  /\ conn.thread = "connecting" /\ at # "ended"
  /\ conn' \in {[thread |-> "up", status |-> "healthy"],
                [thread |-> "gone", status |-> "unhealthy"]}
  /\ UNCHANGED <<at, exit, tickVars, waitVars, replyVars, cardVars, signals, faults>>

Flicker ==
  /\ conn.thread = "up" /\ at \notin Ends \cup {"ended"}
  /\ \E status \in {"healthy", "unhealthy"} \ {conn.status} :
       conn' = [conn EXCEPT !.status = status]
  /\ UNCHANGED <<at, exit, tickVars, waitVars, replyVars, cardVars, signals, faults>>

------------------------------------------------------------------------------
(* Variant: a tick that is refused is left open. *)
RefusedOpen == [run EXCEPT !.status = "running", !.tick = "running"]

Refused == [run EXCEPT !.status = "running", !.tick = "failed"]

(* The head of the loop: another tick, unless a stop was requested.  A     *)
(* tick starts its heartbeat; it ends at once when policy or health is bad.*)
BeginTick ==
  /\ at = "head" /\ ~stop
  /\ blocks' = FALSE /\ seen' = {} /\ woken' = {}
  /\ \/ /\ at' = "membership" /\ results' = {}
        /\ run' = [run EXCEPT !.status = "running", !.tick = "running"]
     \/ at' = "wait" /\ results' = {FALSE} /\ run' = Refused
  /\ UNCHANGED <<exit, waitVars, reply, posted, applied, calling, conn, signals, faults>>

StopLoop ==
  /\ at = "head" /\ stop /\ at' = "stopped"
  /\ UNCHANGED <<exit, tickVars, waitVars, replyVars, cardVars, conn, signals, faults>>

(* A stage of its own isolation: whatever it raises is a failed result. *)
Isolated(from, to) ==
  /\ Go(from, to)
  /\ \E ok \in BOOLEAN : results' = results \cup {ok}
  /\ UNCHANGED <<exit, run, blocks, waitVars, cardVars, conn, signals, faults>>

BotMembership == Isolated("membership", "retries") /\ UNCHANGED replyVars
ProcessingRetries == Isolated("retries", "inbox") /\ UNCHANGED replyVars

BeginInbox ==
  /\ Go("inbox", "draining")
  /\ seen' = posted
  /\ UNCHANGED <<exit, tickVars, waitVars, reply, posted, applied, cardVars, conn,
                 signals, faults>>

(* Variant: a deferred drain counts as a good one. *)
RaisedOnly(outcome) == outcome = "raised"

Incomplete(outcome) == outcome # "complete"

(* The inbox applies commands; it is complete only when it has drained all *)
(* that was there, and otherwise defers the rest or raises.                *)
EndInbox ==
  /\ Go("draining", "ingestion")
  /\ \E outcome \in {"complete", "deferred", "raised"},
        S \in {T \in SUBSET posted : applied \subseteq T} :
       /\ outcome = "complete" => seen \subseteq S
       /\ applied' = S
       /\ reply' = [r \in Reply |->
            IF r \in S /\ reply[r] \in {"proposed", "queued"} THEN "cancelled"
            ELSE reply[r]]
       /\ blocks' = Incomplete(outcome)
       /\ results' = results \cup {~Incomplete(outcome)}
  /\ UNCHANGED <<exit, run, waitVars, posted, seen, cardVars, conn, signals, faults>>

(* Ingestion: sessions queue automatic replies. *)
Ingest ==
  /\ Isolated("ingestion", "dispatch")
  /\ \E Q \in SUBSET {r \in Reply : reply[r] = "proposed"} :
       reply' = [r \in Reply |-> IF r \in Q THEN "queued" ELSE reply[r]]
  /\ UNCHANGED <<posted, seen, applied>>

(* Replies are sent only after an inbox stage that completed. *)
Send(r) ==
  /\ at = "dispatch" /\ ~blocks /\ reply[r] = "queued"
  /\ reply' = [reply EXCEPT ![r] = "sent"]
  /\ UNCHANGED <<at, exit, tickVars, waitVars, posted, seen, applied, cardVars, conn,
                 signals, faults>>

EndDispatch == Isolated("dispatch", "retention") /\ UNCHANGED replyVars

(* _run_tick_status *)
TickStatus(outcomes) ==
  IF FALSE \notin outcomes THEN "ok"
  ELSE IF TRUE \in outcomes THEN "partial_failed" ELSE "failed"

Retention ==
  /\ Go("retention", "wait")
  /\ \E ok \in BOOLEAN :
       /\ results' = results \cup {ok}
       /\ run' = [run EXCEPT !.tick = TickStatus(results')]
  /\ UNCHANGED <<exit, blocks, waitVars, replyVars, cardVars, conn, signals, faults>>

(* What no stage isolates, a write of the heartbeat or of a health result, *)
(* raises: the tick is finished as failed and the process crashes.         *)
TickRaises ==
  /\ at \in Stages /\ faults > 0
  /\ faults' = faults - 1 /\ at' = "crashed"
  /\ results' = results \cup {FALSE}
  /\ \/ run' = [run EXCEPT !.tick = TickStatus(results')]
     \/ UNCHANGED run
  /\ UNCHANGED <<exit, blocks, waitVars, replyVars, cardVars, conn, signals>>

------------------------------------------------------------------------------
(***************************************************************************)
(* _wait_for_next_tick: Condition.wait_for tests its predicate under the   *)
(* lock, then registers a waiter and releases the lock.  Other threads     *)
(* cannot get in between; the signal handler runs on this very thread and  *)
(* can, for the lock is re-entrant.                                        *)
(***************************************************************************)
Due == stop \/ generation # observed

(* Variant: the generation is read when the wait begins. *)
DueFromNow == stop

MustTick == Due

Decide ==
  /\ at = "wait"
  /\ IF MustTick THEN at' = "head" /\ observed' = generation
     ELSE at' = "decided" /\ UNCHANGED observed
  /\ UNCHANGED <<exit, tickVars, stop, generation, notified, replyVars, cardVars,
                 conn, signals, faults>>

Sleep ==
  /\ Go("decided", "asleep")
  /\ notified' = FALSE
  /\ UNCHANGED <<exit, tickVars, stop, generation, observed, replyVars, cardVars,
                 conn, signals, faults>>

(* Variant: the wait has no time limit. *)
AwakeNotified ==
  /\ notified
  /\ Go("asleep", "head")
  /\ observed' = generation
  /\ UNCHANGED <<exit, tickVars, stop, generation, notified, replyVars, cardVars,
                 conn, signals, faults>>

(* Notified, or the tick interval is over. *)
Awake ==
  /\ Go("asleep", "head")
  /\ observed' = generation
  /\ UNCHANGED <<exit, tickVars, stop, generation, notified, replyVars, cardVars,
                 conn, signals, faults>>

(* Variant: a flag instead of a counter. *)
NotifyFlag ==
  generation' = 1 - generation /\ notified' = (notified \/ at = "asleep")

Notify == generation' = generation + 1 /\ notified' = (notified \/ at = "asleep")

(* A card action applies the owner's decision, then calls wake(). *)
CardAction(r) ==
  /\ conn.thread = "up" /\ at # "ended"
  /\ reply[r] = "proposed"
  /\ reply' = [reply EXCEPT ![r] = "queued"] /\ calling' = calling \cup {r}
  /\ UNCHANGED <<at, exit, tickVars, waitVars, posted, seen, applied, woken, conn,
                 signals, faults>>

Wake(r) ==
  /\ r \in calling /\ at \notin {"decided", "ended"}
  /\ Notify
  /\ calling' = calling \ {r} /\ woken' = woken \cup {r}
  /\ UNCHANGED <<at, exit, tickVars, stop, observed, replyVars, conn, signals, faults>>

(* The handler of SIGINT and SIGTERM; without it a signal kills. *)
Signal ==
  /\ signals > 0 /\ signals' = signals - 1
  /\ IF at = "recorded"
     THEN at' = "ended" /\ exit' = "killed" /\ UNCHANGED waitVars
     ELSE /\ at \notin {"new", "ended"}
          /\ stop' = TRUE /\ Notify /\ UNCHANGED <<at, exit, observed>>
  /\ UNCHANGED <<tickVars, replyVars, cardVars, conn, faults>>

(* The owner writes a command. *)
Post(r) ==
  /\ r \notin posted /\ at # "ended"
  /\ posted' = posted \cup {r}
  /\ UNCHANGED <<at, exit, tickVars, waitVars, reply, seen, applied, cardVars, conn,
                 signals, faults>>

------------------------------------------------------------------------------
Code == [stopped |-> "0", health_failed |-> "2", crashed |-> "raised"]

(* The way out: the row says how the run ended, or cannot be written; the  *)
(* connection is stopped either way.                                       *)
Finish ==
  /\ at \in Ends /\ at' = "ended"
  /\ \/ /\ run' = [run EXCEPT !.status = at]
        /\ exit' = Code[at] /\ UNCHANGED faults
     \/ /\ faults > 0 /\ faults' = faults - 1
        /\ exit' = "raised" /\ UNCHANGED run
  /\ conn' = IF conn.status = "disabled" THEN conn ELSE [conn EXCEPT !.status = "stopped"]
  /\ UNCHANGED <<results, blocks, waitVars, replyVars, cardVars, signals>>

(* The process is killed where it stands. *)
Kill ==
  /\ at \notin {"new", "ended"} /\ faults > 0
  /\ faults' = faults - 1
  /\ at' = "ended" /\ exit' = "killed"
  /\ UNCHANGED <<tickVars, waitVars, replyVars, cardVars, conn, signals>>

(* The main thread; its calls come back and its waits time out. *)
Loop ==
  \/ RecordStart \/ InstallHandlers \/ StartupHealth \/ Started \/ StartedLate
  \/ BeginTick \/ StopLoop \/ BotMembership \/ ProcessingRetries \/ BeginInbox
  \/ EndInbox \/ Ingest \/ EndDispatch \/ Retention \/ Decide \/ Sleep \/ Awake
  \/ Finish

Next ==
  \/ Loop \/ StartRaises \/ TickRaises \/ Kill \/ Signal \/ Connect \/ Flicker
  \/ \E r \in Reply : Send(r) \/ CardAction(r) \/ Wake(r) \/ Post(r)

Spec == Init /\ [][Next]_vars
FairSpec == Spec /\ WF_vars(Loop)

------------------------------------------------------------------------------
(* The process, the rows, the replies and the connection have their types. *)
TypeOK ==
  /\ at \in Places /\ exit \in {"none", "0", "2", "raised", "killed"}
  /\ run \in [status : Ends \cup {"none", "running"},
             tick : {"none", "running", "ok", "partial_failed", "failed"}]
  /\ results \subseteq BOOLEAN /\ blocks \in BOOLEAN
  /\ stop \in BOOLEAN /\ notified \in BOOLEAN
  /\ generation \in Nat /\ observed \in 0..generation
  /\ reply \in [Reply -> {"proposed", "queued", "cancelled", "sent"}]
  /\ posted \subseteq Reply /\ seen \subseteq posted /\ applied \subseteq posted
  /\ woken \subseteq Reply /\ calling \subseteq Reply
  /\ conn \in [thread : {"none", "connecting", "up", "gone"},
              status : {"disabled", "starting", "healthy", "unhealthy", "stopped"}]

(***************************************************************************)
(* A wake() is never lost: the loop does not sleep, with nothing to wake   *)
(* it, over a card action that no tick has followed - whether it came      *)
(* before the first tick, in a tick, or between a tick and the wait.       *)
(***************************************************************************)
WakeServed == at = "asleep" /\ ~notified => woken = {}

(***************************************************************************)
(* Owner commands are the safety valve of outgoing replies: what a tick    *)
(* sends, no command withdraws that was there when its inbox stage began,  *)
(* however much of the inbox it managed to read.                           *)
(***************************************************************************)
ReplyHeedsInbox ==
  [][\A r \in Reply : (reply[r] # "sent" /\ reply'[r] = "sent")
                         => r \notin seen \ applied]_vars

(***************************************************************************)
(* The run row tells how the process ended: what a return code says, it    *)
(* says too, and a run that stopped is not left in the middle of a tick.   *)
(***************************************************************************)
RunRowTells ==
  /\ exit = "0" => run.status = "stopped" /\ run.tick # "running"
  /\ exit = "2" => run.status = "health_failed" /\ run.tick = "none"
  /\ run.status \in Ends => at = "ended"

(* A stop that is requested ends the process, at the latest when the wait  *)
(* of a tick interval that it did not interrupt is over.                   *)
StopEnds == stop ~> (at = "ended")
=============================================================================
