---------------------------- MODULE DaemonProofs ----------------------------
(***************************************************************************)
(* Proofs about Daemon for every value of its constants: any number of     *)
(* replies, signals and faults; and about Health, for every configuration  *)
(* and interval.  Every invariant is proved by one step per action; what   *)
(* each needs besides the types is said where it is defined.               *)
(***************************************************************************)
EXTENDS Daemon, Health, SequenceTheorems, TLAPS

------------------------------------------------------------------------------
LEMMA InitType == Init => TypeOK
  <1> SUFFICES ASSUME Init PROVE TypeOK OBVIOUS
  <1>1. results \subseteq BOOLEAN /\ blocks \in BOOLEAN /\ stop \in BOOLEAN
        /\ notified \in BOOLEAN
    BY DEF Init
  <1>2. generation \in Nat /\ observed \in 0..generation BY DEF Init
  <1>3. reply \in [Reply -> {"proposed", "queued", "cancelled", "sent"}] BY DEF Init
  <1>4. at \in Places /\ run.status \in Ends \cup {"none", "running"}
    BY DEF Init, Places, Stages, Ends
  <1>5. /\ run \in [status : Ends \cup {"none", "running"},
                  tick : {"none", "running", "ok", "partial_failed", "failed"}]
        /\ conn \in [thread : {"none", "connecting", "up", "gone"},
                  status : {"disabled", "starting", "healthy", "unhealthy", "stopped"}]
    BY DEF Init, Ends
  <1>6. exit \in {"none", "0", "2", "raised", "killed"} BY DEF Init
  <1>7. /\ posted \subseteq Reply /\ seen \subseteq posted /\ applied \subseteq posted
        /\ woken \subseteq Reply /\ calling \subseteq Reply
    BY DEF Init
  <1> QED BY <1>1, <1>2, <1>3, <1>4, <1>5, <1>6, <1>7 DEF TypeOK

LEMMA TickStatusType == \A S : TickStatus(S) \in {"ok", "partial_failed", "failed"}
  BY DEF TickStatus

LEMMA NotifyType ==
  ASSUME TypeOK, Notify
  PROVE  /\ notified' \in BOOLEAN
         /\ generation' = generation + 1
  BY DEF TypeOK, Notify

LEMMA StepType ==
  ASSUME TypeOK, [Next]_vars
  PROVE  TypeOK'
  <1> USE DEF TypeOK, Places, Stages, Ends, tickVars, waitVars, replyVars, cardVars
  <1>1. CASE RecordStart BY <1>1 DEF RecordStart, Go
  <1>2. CASE InstallHandlers BY <1>2 DEF InstallHandlers, Go
  <1>3. CASE StartupHealth BY <1>3 DEF StartupHealth
  <1>4. CASE Started BY <1>4 DEF Started
  <1>5. CASE StartedLate BY <1>5 DEF StartedLate, Go
  <1>6. CASE BeginTick
    <2>1. /\ blocks' = FALSE /\ seen' = {} /\ woken' = {}
          /\ UNCHANGED <<exit, stop, notified, generation, observed, reply, posted, applied,
                         calling, conn>>
      BY <1>6 DEF BeginTick
    <2>2. at' \in Places /\ results' \subseteq BOOLEAN
      BY <1>6 DEF BeginTick
    <2>3. run' \in [status : Ends \cup {"none", "running"},
                   tick : {"none", "running", "ok", "partial_failed", "failed"}]
      BY <1>6 DEF BeginTick, Refused
    <2> QED BY <2>1, <2>2, <2>3
  <1>7. CASE StopLoop BY <1>7 DEF StopLoop
  <1>8. CASE BotMembership BY <1>8 DEF BotMembership, Isolated, Go
  <1>9. CASE ProcessingRetries BY <1>9 DEF ProcessingRetries, Isolated, Go
  <1>10. CASE BeginInbox BY <1>10 DEF BeginInbox, Go
  <1>11. CASE EndInbox
    <2>1. PICK outcome \in {"complete", "deferred", "raised"},
               S \in {T \in SUBSET posted : applied \subseteq T} :
            /\ applied' = S
            /\ reply' = [r \in Reply |->
                 IF r \in S /\ reply[r] \in {"proposed", "queued"} THEN "cancelled"
                 ELSE reply[r]]
            /\ blocks' = Incomplete(outcome)
            /\ results' = results \cup {~Incomplete(outcome)}
      BY <1>11 DEF EndInbox
    <2>2. /\ at' = "ingestion"
          /\ UNCHANGED <<exit, run, waitVars, posted, seen, cardVars, conn>>
      BY <1>11 DEF EndInbox, Go
    <2>3. reply' \in [Reply -> {"proposed", "queued", "cancelled", "sent"}] BY <2>1
    <2>4. blocks' \in BOOLEAN /\ results' \subseteq BOOLEAN BY <2>1 DEF Incomplete
    <2>5. applied' \subseteq posted BY <2>1
    <2> QED BY <2>2, <2>3, <2>4, <2>5
  <1>12. CASE Ingest BY <1>12 DEF Ingest, Isolated, Go
  <1>13. CASE EndDispatch BY <1>13 DEF EndDispatch, Isolated, Go
  <1>14. CASE Retention
    <2>1. PICK ok \in BOOLEAN : /\ results' = results \cup {ok}
                               /\ run' = [run EXCEPT !.tick = TickStatus(results')]
      BY <1>14 DEF Retention
    <2>2. results' \subseteq BOOLEAN BY <2>1
    <2> QED BY <1>14, <2>1, <2>2, TickStatusType DEF Retention, Go
  <1>15. CASE Decide BY <1>15 DEF Decide, MustTick, Due
  <1>16. CASE Sleep
    <2>1. notified' \in BOOLEAN BY <1>16 DEF Sleep
    <2>2. /\ at' = "asleep"
          /\ UNCHANGED <<exit, tickVars, stop, generation, observed, replyVars, cardVars,
                         conn>>
      BY <1>16 DEF Sleep, Go
    <2> QED BY <2>1, <2>2
  <1>17. CASE Awake BY <1>17 DEF Awake, Go
  <1>18. CASE Finish BY <1>18 DEF Finish, Code
  <1>19. CASE StartRaises BY <1>19 DEF StartRaises
  <1>20. CASE TickRaises
    <2>1. results' \subseteq BOOLEAN BY <1>20 DEF TickRaises
    <2>2. run' \in [status : Ends \cup {"none", "running"},
                   tick : {"none", "running", "ok", "partial_failed", "failed"}]
      BY <1>20, TickStatusType DEF TickRaises
    <2>3. /\ at' = "crashed"
          /\ UNCHANGED <<exit, blocks, waitVars, replyVars, cardVars, conn>>
      BY <1>20 DEF TickRaises
    <2> QED BY <2>1, <2>2, <2>3
  <1>21. CASE Kill BY <1>21 DEF Kill
  <1>22. CASE Signal
    <2>1. UNCHANGED <<tickVars, replyVars, cardVars, conn>> BY <1>22 DEF Signal
    <2>2. CASE at = "recorded" BY <1>22, <2>1, <2>2 DEF Signal
    <2>3. CASE at # "recorded"
      <3>1. Notify /\ stop' = TRUE /\ UNCHANGED <<at, exit, observed>>
        BY <1>22, <2>3 DEF Signal
      <3>2. stop' \in BOOLEAN BY <3>1
      <3> QED BY <2>1, <3>1, <3>2, NotifyType
    <2> QED BY <2>2, <2>3
  <1>23. CASE Connect BY <1>23 DEF Connect
  <1>24. CASE Flicker BY <1>24 DEF Flicker
  <1>25. ASSUME NEW r \in Reply, Send(r) PROVE TypeOK'
    BY <1>25 DEF Send
  <1>26. ASSUME NEW r \in Reply, CardAction(r) PROVE TypeOK'
    BY <1>26 DEF CardAction
  <1>27. ASSUME NEW r \in Reply, Wake(r) PROVE TypeOK'
    <2>1. Notify /\ UNCHANGED <<at, exit, tickVars, stop, observed, replyVars, conn>>
      BY <1>27 DEF Wake
    <2>2. calling' \subseteq Reply /\ woken' \subseteq Reply BY <1>27 DEF Wake
    <2> QED BY <2>1, <2>2, NotifyType
  <1>28. ASSUME NEW r \in Reply, Post(r) PROVE TypeOK'
    BY <1>28 DEF Post
  <1>29. CASE UNCHANGED vars BY <1>29 DEF vars
  <1> QED BY <1>1, <1>2, <1>3, <1>4, <1>5, <1>6, <1>7, <1>8, <1>9, <1>10,
       <1>11, <1>12, <1>13, <1>14, <1>15, <1>16, <1>17, <1>18, <1>19, <1>20,
       <1>21, <1>22, <1>23, <1>24, <1>25, <1>26, <1>27, <1>28, <1>29 DEF
       Next, Loop

\* Type correctness of Daemon; above all, the loop has never seen more
\* wake-ups than there were, which the wait's test relies on.
THEOREM TypeCorrect == Spec => []TypeOK
  BY InitType, StepType, PTL DEF Spec

------------------------------------------------------------------------------
(***************************************************************************)
(* A wake-up no tick has followed leaves a trace the wait will find: while *)
(* the tick runs, a generation the loop has not observed; once the wait is *)
(* decided there is none, for only a signal can come in between; asleep,   *)
(* the release of the waiter.                                              *)
(***************************************************************************)
WakeTraced ==
  /\ at \in Stages \cup {"wait"} /\ woken # {} => generation > observed
  /\ at = "decided" => woken = {}
  /\ WakeServed

LEMMA StepWake ==
  ASSUME TypeOK, WakeTraced, [Next]_vars
  PROVE  WakeTraced'
  <1> USE DEF WakeTraced, WakeServed, TypeOK, Places, Stages, Ends,
              tickVars, waitVars, replyVars, cardVars
  <1>1. CASE RecordStart BY <1>1 DEF RecordStart, Go
  <1>2. CASE InstallHandlers BY <1>2 DEF InstallHandlers, Go
  <1>3. CASE StartupHealth BY <1>3 DEF StartupHealth
  <1>4. CASE Started BY <1>4 DEF Started
  <1>5. CASE StartedLate BY <1>5 DEF StartedLate, Go
  <1>6. CASE BeginTick BY <1>6 DEF BeginTick, Refused
  <1>7. CASE StopLoop BY <1>7 DEF StopLoop
  <1>8. CASE BotMembership BY <1>8 DEF BotMembership, Isolated, Go
  <1>9. CASE ProcessingRetries BY <1>9 DEF ProcessingRetries, Isolated, Go
  <1>10. CASE BeginInbox BY <1>10 DEF BeginInbox, Go
  <1>11. CASE EndInbox BY <1>11 DEF EndInbox, Go, Incomplete
  <1>12. CASE Ingest BY <1>12 DEF Ingest, Isolated, Go
  <1>13. CASE EndDispatch BY <1>13 DEF EndDispatch, Isolated, Go
  <1>14. CASE Retention BY <1>14 DEF Retention, Go, TickStatus
  <1>15. CASE Decide BY <1>15 DEF Decide, MustTick, Due
  <1>16. CASE Sleep BY <1>16 DEF Sleep, Go
  <1>17. CASE Awake BY <1>17 DEF Awake, Go
  <1>18. CASE Finish BY <1>18 DEF Finish, Code
  <1>19. CASE StartRaises BY <1>19 DEF StartRaises
  <1>20. CASE TickRaises BY <1>20 DEF TickRaises, TickStatus
  <1>21. CASE Kill BY <1>21 DEF Kill
  <1>22. CASE Signal BY <1>22 DEF Signal, Notify
  <1>23. CASE Connect BY <1>23 DEF Connect
  <1>24. CASE Flicker BY <1>24 DEF Flicker
  <1>25. ASSUME NEW r \in Reply, Send(r) PROVE WakeTraced'
    BY <1>25 DEF Send
  <1>26. ASSUME NEW r \in Reply, CardAction(r) PROVE WakeTraced'
    BY <1>26 DEF CardAction
  <1>27. ASSUME NEW r \in Reply, Wake(r) PROVE WakeTraced'
    <2>1. /\ at \notin {"decided", "ended"} /\ at' = at
          /\ observed' = observed /\ generation' = generation + 1
      BY <1>27 DEF Wake, Notify
    <2>2. generation' > observed' BY <2>1
    <2>3. at' = "asleep" => notified' BY <1>27, <2>1 DEF Wake, Notify
    <2> QED BY <2>1, <2>2, <2>3
  <1>28. ASSUME NEW r \in Reply, Post(r) PROVE WakeTraced'
    BY <1>28 DEF Post
  <1>29. CASE UNCHANGED vars BY <1>29 DEF vars
  <1> QED BY <1>1, <1>2, <1>3, <1>4, <1>5, <1>6, <1>7, <1>8, <1>9, <1>10,
       <1>11, <1>12, <1>13, <1>14, <1>15, <1>16, <1>17, <1>18, <1>19, <1>20,
       <1>21, <1>22, <1>23, <1>24, <1>25, <1>26, <1>27, <1>28, <1>29 DEF
       Next, Loop

\* No wake() is lost, wherever it comes between two ticks: the main thread is
\* not asleep and unnotified while a card action waits for its tick.
THEOREM WakeNeverLost == Spec => []WakeServed
  <1>1. Init => WakeTraced BY DEF Init, WakeTraced, WakeServed, Stages
  <1>2. WakeTraced => WakeServed BY DEF WakeTraced
  <1> QED BY <1>1, <1>2, InitType, StepType, StepWake, PTL DEF Spec

------------------------------------------------------------------------------
(***************************************************************************)
(* Between the inbox and the end of dispatch, a tick that does not block   *)
(* replies has applied every command that was there when its inbox began.  *)
(***************************************************************************)
InboxHeeded ==
  at \in {"ingestion", "dispatch"} /\ ~blocks => seen \subseteq applied

LEMMA StepInbox ==
  ASSUME TypeOK, InboxHeeded, [Next]_vars
  PROVE  InboxHeeded'
  <1> USE DEF InboxHeeded, TypeOK, Places, Stages, Ends,
              tickVars, waitVars, replyVars, cardVars
  <1>1. CASE RecordStart BY <1>1 DEF RecordStart, Go
  <1>2. CASE InstallHandlers BY <1>2 DEF InstallHandlers, Go
  <1>3. CASE StartupHealth BY <1>3 DEF StartupHealth
  <1>4. CASE Started BY <1>4 DEF Started
  <1>5. CASE StartedLate BY <1>5 DEF StartedLate, Go
  <1>6. CASE BeginTick BY <1>6 DEF BeginTick, Refused
  <1>7. CASE StopLoop BY <1>7 DEF StopLoop
  <1>8. CASE BotMembership BY <1>8 DEF BotMembership, Isolated, Go
  <1>9. CASE ProcessingRetries BY <1>9 DEF ProcessingRetries, Isolated, Go
  <1>10. CASE BeginInbox BY <1>10 DEF BeginInbox, Go
  <1>11. CASE EndInbox
    <2>1. PICK outcome \in {"complete", "deferred", "raised"}, S \in SUBSET posted :
            /\ outcome = "complete" => seen \subseteq S
            /\ applied' = S /\ blocks' = Incomplete(outcome)
      BY <1>11 DEF EndInbox
    <2>2. CASE outcome = "complete" BY <1>11, <2>1, <2>2 DEF EndInbox
    <2>3. CASE outcome # "complete"
      <3>1. blocks' BY <2>1, <2>3 DEF Incomplete
      <3> QED BY <3>1
    <2> QED BY <2>2, <2>3
  <1>12. CASE Ingest BY <1>12 DEF Ingest, Isolated, Go
  <1>13. CASE EndDispatch BY <1>13 DEF EndDispatch, Isolated, Go
  <1>14. CASE Retention BY <1>14 DEF Retention, Go, TickStatus
  <1>15. CASE Decide BY <1>15 DEF Decide, MustTick, Due
  <1>16. CASE Sleep BY <1>16 DEF Sleep, Go
  <1>17. CASE Awake BY <1>17 DEF Awake, Go
  <1>18. CASE Finish BY <1>18 DEF Finish, Code
  <1>19. CASE StartRaises BY <1>19 DEF StartRaises
  <1>20. CASE TickRaises BY <1>20 DEF TickRaises, TickStatus
  <1>21. CASE Kill BY <1>21 DEF Kill
  <1>22. CASE Signal BY <1>22 DEF Signal, Notify
  <1>23. CASE Connect BY <1>23 DEF Connect
  <1>24. CASE Flicker BY <1>24 DEF Flicker
  <1>25. ASSUME NEW r \in Reply, Send(r) PROVE InboxHeeded'
    BY <1>25 DEF Send
  <1>26. ASSUME NEW r \in Reply, CardAction(r) PROVE InboxHeeded'
    BY <1>26 DEF CardAction
  <1>27. ASSUME NEW r \in Reply, Wake(r) PROVE InboxHeeded'
    BY <1>27 DEF Wake, Notify
  <1>28. ASSUME NEW r \in Reply, Post(r) PROVE InboxHeeded'
    BY <1>28 DEF Post
  <1>29. CASE UNCHANGED vars BY <1>29 DEF vars
  <1> QED BY <1>1, <1>2, <1>3, <1>4, <1>5, <1>6, <1>7, <1>8, <1>9, <1>10,
       <1>11, <1>12, <1>13, <1>14, <1>15, <1>16, <1>17, <1>18, <1>19, <1>20,
       <1>21, <1>22, <1>23, <1>24, <1>25, <1>26, <1>27, <1>28, <1>29 DEF
       Next, Loop

LEMMA SendsHeed ==
  ASSUME TypeOK, InboxHeeded, [Next]_vars, NEW r \in Reply,
         reply[r] # "sent", reply'[r] = "sent"
  PROVE  r \notin seen \ applied
  <1> USE DEF InboxHeeded, TypeOK, tickVars, waitVars, replyVars, cardVars
  <1>1. CASE RecordStart BY <1>1 DEF RecordStart, Go
  <1>2. CASE InstallHandlers BY <1>2 DEF InstallHandlers, Go
  <1>3. CASE StartupHealth BY <1>3 DEF StartupHealth
  <1>4. CASE Started BY <1>4 DEF Started
  <1>5. CASE StartedLate BY <1>5 DEF StartedLate, Go
  <1>6. CASE BeginTick BY <1>6 DEF BeginTick, Refused
  <1>7. CASE StopLoop BY <1>7 DEF StopLoop
  <1>8. CASE BotMembership BY <1>8 DEF BotMembership, Isolated, Go
  <1>9. CASE ProcessingRetries BY <1>9 DEF ProcessingRetries, Isolated, Go
  <1>10. CASE BeginInbox BY <1>10 DEF BeginInbox, Go
  <1>11. CASE EndInbox BY <1>11 DEF EndInbox, Go, Incomplete
  <1>12. CASE Ingest BY <1>12 DEF Ingest, Isolated, Go
  <1>13. CASE EndDispatch BY <1>13 DEF EndDispatch, Isolated, Go
  <1>14. CASE Retention BY <1>14 DEF Retention, Go, TickStatus
  <1>15. CASE Decide BY <1>15 DEF Decide, MustTick, Due
  <1>16. CASE Sleep BY <1>16 DEF Sleep, Go
  <1>17. CASE Awake BY <1>17 DEF Awake, Go
  <1>18. CASE Finish BY <1>18 DEF Finish, Code
  <1>19. CASE StartRaises BY <1>19 DEF StartRaises
  <1>20. CASE TickRaises BY <1>20 DEF TickRaises, TickStatus
  <1>21. CASE Kill BY <1>21 DEF Kill
  <1>22. CASE Signal BY <1>22 DEF Signal, Notify
  <1>23. CASE Connect BY <1>23 DEF Connect
  <1>24. CASE Flicker BY <1>24 DEF Flicker
  <1>25. ASSUME NEW q \in Reply, Send(q) PROVE r \notin seen \ applied
    BY <1>25 DEF Send
  <1>26. ASSUME NEW q \in Reply, CardAction(q) PROVE r \notin seen \ applied
    BY <1>26 DEF CardAction
  <1>27. ASSUME NEW q \in Reply, Wake(q) PROVE r \notin seen \ applied
    BY <1>27 DEF Wake, Notify
  <1>28. ASSUME NEW q \in Reply, Post(q) PROVE r \notin seen \ applied
    BY <1>28 DEF Post
  <1>29. CASE UNCHANGED vars BY <1>29 DEF vars
  <1> QED BY <1>1, <1>2, <1>3, <1>4, <1>5, <1>6, <1>7, <1>8, <1>9, <1>10,
       <1>11, <1>12, <1>13, <1>14, <1>15, <1>16, <1>17, <1>18, <1>19, <1>20,
       <1>21, <1>22, <1>23, <1>24, <1>25, <1>26, <1>27, <1>28, <1>29 DEF
       Next, Loop

\* What a tick sends, no owner command withdraws that was in the inbox when
\* the tick began to read it, however the reading ended.
THEOREM InboxFirst == Spec => ReplyHeedsInbox
  <1>1. Init => InboxHeeded BY DEF Init, InboxHeeded
  <1>2. TypeOK /\ InboxHeeded /\ [Next]_vars
        => [\A r \in Reply : (reply[r] # "sent" /\ reply'[r] = "sent")
                              => r \notin seen \ applied]_vars
    BY SendsHeed
  <1>3. TypeOK /\ [Next]_vars => TypeOK' BY StepType
  <1>4. TypeOK /\ InboxHeeded /\ [Next]_vars => InboxHeeded' BY StepInbox
  <1> QED BY <1>1, <1>2, <1>3, <1>4, InitType, PTL DEF Spec, ReplyHeedsInbox

------------------------------------------------------------------------------
(***************************************************************************)
(* Where the main thread is tells what the run row says: no tick before    *)
(* the loop, none in progress outside the stages, and a final status and   *)
(* an exit only at the end.                                                *)
(***************************************************************************)
RowFollows ==
  /\ at \in {"new", "recorded", "health", "starting", "late", "health_failed"}
       => run.tick = "none"
  /\ at \in {"head", "wait", "decided", "asleep", "stopped"} => run.tick # "running"
  /\ at # "ended" => exit = "none"
  /\ RunRowTells

LEMMA StepRow ==
  ASSUME TypeOK, RowFollows, [Next]_vars
  PROVE  RowFollows'
  <1> USE DEF RowFollows, RunRowTells, TypeOK, Places, Stages, Ends,
              tickVars, waitVars, replyVars, cardVars
  <1>1. CASE RecordStart BY <1>1 DEF RecordStart, Go
  <1>2. CASE InstallHandlers BY <1>2 DEF InstallHandlers, Go
  <1>3. CASE StartupHealth BY <1>3 DEF StartupHealth
  <1>4. CASE Started BY <1>4 DEF Started
  <1>5. CASE StartedLate BY <1>5 DEF StartedLate, Go
  <1>6. CASE BeginTick BY <1>6 DEF BeginTick, Refused
  <1>7. CASE StopLoop BY <1>7 DEF StopLoop
  <1>8. CASE BotMembership BY <1>8 DEF BotMembership, Isolated, Go
  <1>9. CASE ProcessingRetries BY <1>9 DEF ProcessingRetries, Isolated, Go
  <1>10. CASE BeginInbox BY <1>10 DEF BeginInbox, Go
  <1>11. CASE EndInbox BY <1>11 DEF EndInbox, Go, Incomplete
  <1>12. CASE Ingest BY <1>12 DEF Ingest, Isolated, Go
  <1>13. CASE EndDispatch BY <1>13 DEF EndDispatch, Isolated, Go
  <1>14. CASE Retention BY <1>14 DEF Retention, Go, TickStatus
  <1>15. CASE Decide BY <1>15 DEF Decide, MustTick, Due
  <1>16. CASE Sleep BY <1>16 DEF Sleep, Go
  <1>17. CASE Awake BY <1>17 DEF Awake, Go
  <1>18. CASE Finish BY <1>18 DEF Finish, Code
  <1>19. CASE StartRaises BY <1>19 DEF StartRaises
  <1>20. CASE TickRaises BY <1>20 DEF TickRaises, TickStatus
  <1>21. CASE Kill BY <1>21 DEF Kill
  <1>22. CASE Signal BY <1>22 DEF Signal, Notify
  <1>23. CASE Connect BY <1>23 DEF Connect
  <1>24. CASE Flicker BY <1>24 DEF Flicker
  <1>25. ASSUME NEW r \in Reply, Send(r) PROVE RowFollows'
    BY <1>25 DEF Send
  <1>26. ASSUME NEW r \in Reply, CardAction(r) PROVE RowFollows'
    BY <1>26 DEF CardAction
  <1>27. ASSUME NEW r \in Reply, Wake(r) PROVE RowFollows'
    BY <1>27 DEF Wake, Notify
  <1>28. ASSUME NEW r \in Reply, Post(r) PROVE RowFollows'
    BY <1>28 DEF Post
  <1>29. CASE UNCHANGED vars BY <1>29 DEF vars
  <1> QED BY <1>1, <1>2, <1>3, <1>4, <1>5, <1>6, <1>7, <1>8, <1>9, <1>10,
       <1>11, <1>12, <1>13, <1>14, <1>15, <1>16, <1>17, <1>18, <1>19, <1>20,
       <1>21, <1>22, <1>23, <1>24, <1>25, <1>26, <1>27, <1>28, <1>29 DEF
       Next, Loop

\* The run row and the exit code agree on every way a run can end.
THEOREM RowTells == Spec => []RunRowTells
  <1>1. Init => RowFollows BY DEF Init, RowFollows, RunRowTells, Ends
  <1>2. RowFollows => RunRowTells BY DEF RowFollows
  <1> QED BY <1>1, <1>2, InitType, StepType, StepRow, PTL DEF Spec
------------------------------------------------------------------------------
(***************************************************************************)
(* Health.  What a result vouches for: nothing the system cannot work      *)
(* without has been broken for longer than the result is old.  During a    *)
(* run of the checks, what was broken when it began has failed it or its   *)
(* check is still to come.                                                 *)
(***************************************************************************)
Broke(t) == <<"wrong", t>>

Detector(f) ==
  CASE f \in PathFaults -> "storage_paths"
    [] f \in Wrong(AuthThings \cup {"policy", "working_dir", "version", "login"}) -> f[2]
    [] f = Broke("database") -> "sqlite"
    [] f \in Wrong({"lark_path", "lark"}) -> "lark"
    [] f \in Wrong({"api_key", "http"}) -> "reachable"
    [] f \in Wrong({"help", "flags", "resume"}) ->
         IF setup.provider = "codex" THEN "codex"
         ELSE IF setup.provider = "claude_code" THEN "claude" ELSE "permissions"

Check == {"storage_paths", "sqlite", "policy", "lark", "working_dir", "auth", "scopes", "bot",
          "version", "login", "codex", "claude", "status", "permissions", "reachable"}
Needed == Critical \cap MayBreak
Ahead(checks) == {checks[i] : i \in DOMAIN checks}

(* What the answer of the auth check says of its fault is not cleared yet. *)
Noted(f) == f \in Wrong({"scopes", "bot"}) => f[2] \in auth

HealthInv ==
  /\ broken \subseteq MayBreak /\ since \in [MayBreak -> Nat]
  /\ begun \in 0..Lag /\ stamp \in Nat /\ fine \in BOOLEAN /\ failed \in BOOLEAN
  /\ \A f \in MayBreak : since[f] > 0 => f \in broken
  /\ fine /\ stamp # Unchecked => \A f \in Needed : since[f] <= stamp
  /\ daemon = "checking" /\ ~failed =>
       /\ todo \in Seq(Check)
       /\ \A f \in Needed : since[f] > begun => Detector(f) \in Ahead(todo) /\ Noted(f)

(* What a critical check is there for does fail it. *)
LEMMA Detected ==
  ASSUME NEW f \in Critical, f \in broken, Noted(f)
  PROVE  ~Passes(Detector(f)) /\ Detector(f) \notin Warnings
<1>1. CASE f \in PathFaults
  <2>1. PICK k \in {"link", "type", "parent", "file"}, p \in Paths : f = <<k, p>>
    BY <1>1 DEF PathFaults
  <2>2. f[2] = p /\ f[1] = k
    BY <2>1
  <2>3. f \notin Wrong(AuthThings \cup Things)
    BY <2>1 DEF Wrong
  <2>4. Configured(p) /\ f # <<"file", "resources">>
    BY <2>1, <2>2 DEF Critical, Wrong
  <2>5. ~PathSafe(p)
    <3>1. CASE k = "file"
      BY <2>1, <2>4, <3>1 DEF PathSafe
    <3>2. CASE k # "file"
      <4>1. f \in {"link", "type", "parent"} \X {p}
        BY <2>1, <3>2
      <4> QED
        BY <4>1 DEF PathSafe
    <3> QED
      BY <3>1, <3>2
  <2>6. Detector(f) = "storage_paths"
    BY <1>1, <2>1 DEF Detector, Wrong, Broke
  <2> QED
    BY <2>4, <2>5, <2>6 DEF Passes, StoragePathsSafe, Warnings
<1>2. CASE f \notin PathFaults
  <2>1. PICK t : /\ f = <<"wrong", t>>
                 /\ t \in AuthThings \cup {"version", "login", "help", "flags", "resume", "api_key",
                                           "http", "database", "policy", "lark_path", "lark",
                                           "working_dir"}
    BY <1>2 DEF Critical, Wrong
  <2>2. \A T : t \in T => ~Fine(T)
    BY <2>1 DEF Fine, Wrong
  <2>3. f[2] = t /\ f[1] = "wrong" /\ \A T : f \in Wrong(T) <=> t \in T
    BY <2>1 DEF Wrong
  <2>4. CASE t \in AuthThings
    <3>1. Detector(f) = t
      <4>1. f \in Wrong(AuthThings \cup {"policy", "working_dir", "version", "login"})
        BY <2>3, <2>4
      <4>2. f # Broke("database") /\ f \notin Wrong({"lark_path", "lark"})
            /\ f \notin Wrong({"api_key", "http"}) /\ f \notin Wrong({"help", "flags", "resume"})
        BY <2>1, <2>3, <2>4 DEF AuthThings, Broke
      <4> QED
        BY <1>2, <2>3, <4>1, <4>2 DEF Detector
    <3>2. CASE t = "auth"
      BY <2>2, <3>1, <3>2 DEF Passes, Warnings
    <3>3. CASE t \in {"scopes", "bot"}
      BY <2>3, <3>1, <3>3 DEF Passes, Warnings, Noted, ScopesGranted, BotAvailable
    <3> QED
      BY <2>4, <3>2, <3>3 DEF AuthThings
  <2>5. CASE t \in {"policy", "working_dir", "version", "login"}
    <3>1. Detector(f) = t
      <4>1. f \in Wrong(AuthThings \cup {"policy", "working_dir", "version", "login"})
        BY <2>3, <2>5
      <4>2. f # Broke("database") /\ f \notin Wrong({"lark_path", "lark"})
            /\ f \notin Wrong({"api_key", "http"}) /\ f \notin Wrong({"help", "flags", "resume"})
        BY <2>1, <2>3, <2>5 DEF Broke
      <4> QED
        BY <1>2, <2>3, <4>1, <4>2 DEF Detector
    <3> QED
      BY <2>2, <2>5, <3>1 DEF Passes, Warnings
  <2>6. CASE t = "database"
    <3>1. Detector(f) = "sqlite"
      BY <1>2, <2>1, <2>3, <2>6 DEF Detector, Broke, AuthThings
    <3> QED
      BY <2>2, <2>6, <3>1 DEF Passes, Warnings
  <2>7. CASE t \in {"lark_path", "lark"}
    <3>1. Detector(f) = "lark"
      BY <1>2, <2>1, <2>3, <2>7 DEF Detector, Broke, AuthThings
    <3> QED
      BY <2>2, <2>7, <3>1 DEF Passes, Warnings, LarkAnswers
  <2>8. CASE t \in {"api_key", "http"}
    <3>1. Detector(f) = "reachable"
      BY <1>2, <2>1, <2>3, <2>8 DEF Detector, Broke, AuthThings
    <3> QED
      BY <2>2, <2>8, <3>1 DEF Passes, Warnings, HermesReachable
  <2>9. CASE t \in {"help", "flags", "resume"}
    <3>1. Detector(f) = IF setup.provider = "codex" THEN "codex"
                        ELSE IF setup.provider = "claude_code" THEN "claude" ELSE "permissions"
      BY <1>2, <2>1, <2>3, <2>9 DEF Detector, Broke, AuthThings
    <3>2. setup.provider # "codex" => t # "resume"
      BY <1>2, <2>3, <2>9 DEF Critical, AuthThings
    <3> QED
      BY <2>2, <2>9, <3>1, <3>2
         DEF Passes, Warnings, CodexCapable, ClaudeCapable, HermesPermits
  <2> QED
    BY <2>1, <2>4, <2>5, <2>6, <2>7, <2>8, <2>9
<1> QED
  BY <1>1, <1>2

LEMMA EightChecks ==
  ASSUME NEW S, NEW a \in S, NEW b \in S, NEW c \in S, NEW d \in S,
         NEW e \in S, NEW f \in S, NEW g \in S, NEW h \in S
  PROVE  <<a, b, c, d, e, f, g, h>> \in Seq(S)
OBVIOUS

LEMMA ThreeAndOne ==
  ASSUME NEW a, NEW b, NEW c, NEW d
  PROVE  <<a, b, c>> \o <<d>> = <<a, b, c, d>> /\ <<a, b, c>> \o <<>> = <<a, b, c>>
<1>1. PICK s, t, u, S : s = <<a, b, c>> /\ t = <<d>> /\ u = <<a, b, c, d>> /\ S = {a, b, c, d}
  OBVIOUS
<1>2. s \in Seq(S) /\ t \in Seq(S) /\ u \in Seq(S) /\ Len(s) = 3 /\ Len(t) = 1 /\ Len(u) = 4
  BY <1>1
<1>3. /\ s[1] = a /\ s[2] = b /\ s[3] = c /\ t[1] = d
      /\ u[1] = a /\ u[2] = b /\ u[3] = c /\ u[4] = d
  BY <1>1
<1>4. /\ s \o t \in Seq(S) /\ Len(s \o t) = 4
      /\ \A i \in 1..4 : (s \o t)[i] = IF i <= 3 THEN s[i] ELSE t[i - 3]
  <2>1. /\ s \o t \in Seq(S) /\ Len(s \o t) = Len(s) + Len(t)
        /\ \A i \in 1..(Len(s) + Len(t)) :
             (s \o t)[i] = IF i <= Len(s) THEN s[i] ELSE t[i - Len(s)]
    BY ONLY <1>2, ConcatProperties
  <2> QED
    BY ONLY <1>2, <2>1
<1>5. \A i \in 1..4 : (s \o t)[i] = u[i]
  BY <1>3, <1>4
<1>6. s \o t = u
  BY ONLY <1>2, <1>4, <1>5, SeqEqual
<1> QED
  BY <1>1, <1>6

LEMMA ChecksType ==
  /\ Always \in Seq(Check) /\ Len(Always) = 8
  /\ Backend \in Seq(Check)
<1>1. /\ "storage_paths" \in Check /\ "sqlite" \in Check /\ "policy" \in Check /\ "lark" \in Check
      /\ "working_dir" \in Check /\ "auth" \in Check /\ "scopes" \in Check /\ "bot" \in Check
      /\ "version" \in Check /\ "login" \in Check /\ "codex" \in Check /\ "claude" \in Check
      /\ "status" \in Check /\ "permissions" \in Check /\ "reachable" \in Check
  BY DEF Check
<1> HIDE DEF Check
<1>2. Always \in Seq(Check)
  BY <1>1, EightChecks DEF Always
<1>3. Len(Always) = 8
  BY DEF Always
<1>4. Backend \in {<<"version", "login", "codex">>, <<"version", "login", "claude">>,
                   <<"version", "status", "permissions">>,
                   <<"version", "status", "permissions", "reachable">>}
  BY ThreeAndOne DEF Backend
<1>5. Backend \in Seq(Check)
  <2>1. CASE Backend = <<"version", "login", "codex">>
    BY <1>1, <2>1
  <2>2. CASE Backend = <<"version", "login", "claude">>
    BY <1>1, <2>2
  <2>3. CASE Backend = <<"version", "status", "permissions">>
    BY <1>1, <2>3
  <2>4. CASE Backend = <<"version", "status", "permissions", "reachable">>
    BY <1>1, <2>4
  <2> QED
    BY <1>4, <2>1, <2>2, <2>3, <2>4
<1> QED
  BY <1>2, <1>3, <1>5

(* Every one of these checks is among those that run before a tick. *)
LEMMA Covered ==
  ASSUME NEW f \in Critical
  PROVE  RuntimeCritical \in Seq(Check) /\ Detector(f) \in Ahead(RuntimeCritical)
<1>1. Always \in Seq(Check) /\ Len(Always) = 8
  BY ChecksType
<1>2. Backend \in Seq(Check)
  BY ChecksType
<1>3. /\ RuntimeCritical \in Seq(Check) /\ Len(RuntimeCritical) = 8 + Len(Backend)
      /\ DOMAIN RuntimeCritical = 1..(8 + Len(Backend))
      /\ \A i \in 1..8 : RuntimeCritical[i] = Always[i]
      /\ \A i \in 1..Len(Backend) : RuntimeCritical[8 + i] = Backend[i]
  <2>1. PICK s, t : s = Always /\ t = Backend
    OBVIOUS
  <2>2. /\ s \o t \in Seq(Check) /\ Len(s \o t) = Len(s) + Len(t)
        /\ \A i \in 1..(Len(s) + Len(t)) :
             (s \o t)[i] = IF i <= Len(s) THEN s[i] ELSE t[i - Len(s)]
    BY <1>1, <1>2, <2>1, ConcatProperties
  <2>3. Len(s) = 8 /\ Len(t) \in Nat
    BY <1>1, <1>2, <2>1
  <2>4. /\ Len(s \o t) = 8 + Len(t) /\ DOMAIN (s \o t) = 1..(8 + Len(t))
        /\ \A i \in 1..8 : (s \o t)[i] = s[i]
        /\ \A i \in 1..Len(t) : (s \o t)[8 + i] = t[i]
    BY ONLY <2>2, <2>3
  <2> QED
    BY <2>1, <2>2, <2>4 DEF RuntimeCritical
<1>4. \A c \in {"storage_paths", "sqlite", "policy", "lark", "working_dir", "auth", "scopes",
                "bot"} : c \in Ahead(RuntimeCritical)
  <2>1. \A i \in 1..8 : Always[i] \in Ahead(RuntimeCritical)
    <3>1. PICK n, q : n = Len(Backend) /\ q = RuntimeCritical
      OBVIOUS
    <3>2. n \in Nat /\ DOMAIN q = 1..(8 + n) /\ \A i \in 1..8 : q[i] = Always[i]
      BY <1>2, <1>3, <3>1
    <3>3. \A i \in 1..8 : i \in DOMAIN q
      BY ONLY <3>2
    <3> QED
      BY <3>1, <3>2, <3>3 DEF Ahead
  <2>2. /\ Always[1] = "storage_paths" /\ Always[2] = "sqlite" /\ Always[3] = "policy"
        /\ Always[4] = "lark" /\ Always[5] = "working_dir" /\ Always[6] = "auth"
        /\ Always[7] = "scopes" /\ Always[8] = "bot"
    BY DEF Always
  <2> QED
    BY <2>1, <2>2
<1>5. \A i \in 1..Len(Backend) : Backend[i] \in Ahead(RuntimeCritical)
  <2>1. PICK n, q : n = Len(Backend) /\ q = RuntimeCritical
    OBVIOUS
  <2>2. /\ n \in Nat /\ DOMAIN q = 1..(8 + n)
        /\ \A i \in 1..n : q[8 + i] = Backend[i]
    BY <1>2, <1>3, <2>1
  <2>3. \A i \in 1..n : 8 + i \in DOMAIN q
    BY ONLY <2>2
  <2> QED
    BY <2>1, <2>2, <2>3 DEF Ahead
<1>6. CASE f \in PathFaults
  <2>1. Detector(f) = "storage_paths"
    BY <1>6 DEF Detector, Wrong, Broke, PathFaults, AuthThings
  <2> QED
    BY <1>3, <1>4, <2>1
<1>7. CASE f \notin PathFaults
  <2>1. PICK t : /\ f = <<"wrong", t>>
                 /\ t \in AuthThings \cup {"version", "login", "help", "flags", "resume", "api_key",
                                           "http", "database", "policy", "lark_path", "lark",
                                           "working_dir"}
    BY <1>7 DEF Critical, Wrong
  <2>2. f[2] = t /\ f[1] = "wrong" /\ \A T : f \in Wrong(T) <=> t \in T
    BY <2>1 DEF Wrong
  <2>3. CASE t \in AuthThings \cup {"policy", "working_dir", "database", "lark_path", "lark"}
    <3>1. Detector(f) \in AuthThings \cup {"policy", "working_dir", "sqlite", "lark"}
      BY <1>7, <2>1, <2>2, <2>3 DEF Detector, Broke, AuthThings
    <3> QED
      BY <1>3, <1>4, <3>1 DEF AuthThings
  <2>4. CASE t \in {"version", "login", "help", "flags", "resume", "api_key", "http"}
    <3>1. Detector(f) = CASE t \in {"version", "login"} -> t
                          [] t \in {"api_key", "http"} -> "reachable"
                          [] OTHER -> IF setup.provider = "codex" THEN "codex"
                                      ELSE IF setup.provider = "claude_code" THEN "claude"
                                      ELSE "permissions"
      BY <1>7, <2>1, <2>2, <2>4 DEF Detector, Broke, AuthThings
    <3>2. CASE setup.provider = "codex"
      <4>1. Backend = <<"version", "login", "codex">>
        BY <3>2 DEF Backend
      <4>2. t \in {"version", "login", "help", "flags", "resume"}
        BY <1>7, <2>2, <2>4, <3>2 DEF Critical, AuthThings
      <4>3. Detector(f) \in {"version", "login", "codex"}
        BY <3>1, <3>2, <4>2
      <4> QED
        BY <1>3, <1>5, <4>1, <4>3
    <3>3. CASE setup.provider = "claude_code"
      <4>1. Backend = <<"version", "login", "claude">>
        BY <3>3 DEF Backend
      <4>2. t \in {"version", "login", "help", "flags"}
        BY <1>7, <2>2, <2>4, <3>3 DEF Critical, AuthThings
      <4>3. Detector(f) \in {"version", "login", "claude"}
        BY <3>1, <3>3, <4>2
      <4> QED
        BY <1>3, <1>5, <4>1, <4>3
    <3>4. CASE setup.provider \notin {"codex", "claude_code"}
      <4>1. CASE setup.http
        <5>1. Backend = <<"version", "status", "permissions", "reachable">>
          BY <3>4, <4>1, ThreeAndOne DEF Backend
        <5>2. t # "login"
          BY <1>7, <2>2, <2>4, <3>4 DEF Critical, AuthThings
        <5>3. Detector(f) \in {"version", "reachable", "permissions"}
          BY <2>4, <3>1, <3>4, <5>2
        <5> QED
          BY <1>3, <1>5, <5>1, <5>3
      <4>2. CASE ~setup.http
        <5>1. Backend = <<"version", "status", "permissions">>
          BY <3>4, <4>2, ThreeAndOne DEF Backend
        <5>2. t \in {"version", "help", "flags"}
          BY <1>7, <2>2, <2>4, <3>4, <4>2 DEF Critical, AuthThings
        <5>3. Detector(f) \in {"version", "permissions"}
          BY <3>1, <3>4, <5>2
        <5> QED
          BY <1>3, <1>5, <5>1, <5>3
      <4> QED
        BY <4>1, <4>2
    <3> QED
      BY <3>2, <3>3, <3>4
  <2> QED
    BY <2>1, <2>3, <2>4
<1> QED
  BY <1>6, <1>7

LEMMA InitHealth == HealthInit => HealthInv
<1> SUFFICES ASSUME HealthInit PROVE HealthInv
  OBVIOUS
<1>1. Unchecked \in Nat /\ Lag \in Nat
  BY HealthAssumption DEF Unchecked, Longest
<1>2. /\ broken \subseteq MayBreak /\ since \in [MayBreak -> Nat]
      /\ \A f \in MayBreak : since[f] = 0
  BY DEF HealthInit
<1>3. begun \in 0..Lag /\ stamp = Unchecked /\ daemon # "checking"
  BY <1>1 DEF HealthInit
<1>4. fine \in BOOLEAN /\ failed \in BOOLEAN
  BY DEF HealthInit
<1> QED
  BY <1>1, <1>2, <1>3, <1>4 DEF HealthInv

(* Time passing ages the faults and the result alike. *)
LEMMA ElapseHealth ==
  ASSUME HealthInv, Elapse
  PROVE  HealthInv'
<1>1. Longest \in Nat /\ Lag \in Nat /\ Unchecked = Longest + Lag + 1
  BY HealthAssumption DEF Longest, Unchecked
<1>2. since' \in [MayBreak -> Nat] /\ begun' \in 0..Lag /\ stamp' \in Nat
  BY <1>1 DEF HealthInv, Elapse, Older
<1>3. \A f \in MayBreak : since'[f] = IF f \in broken THEN Older(since[f]) ELSE 0
  BY DEF Elapse
<1>4. Needed' = Needed /\ Unchecked' = Unchecked
  BY DEF Elapse, Needed, Critical, Configured, Unchecked, Longest
<1>5. \A f \in MayBreak : since'[f] > 0 => f \in broken'
  BY <1>2, <1>3 DEF Elapse
<1>6. ASSUME fine', stamp' # Unchecked, NEW f \in Needed PROVE since'[f] <= stamp'
  <2>1. f \in MayBreak
    BY DEF Needed
  <2>2. stamp # Unchecked /\ stamp' = Older(stamp)
    BY <1>6 DEF Elapse
  <2>3. since[f] <= stamp
    BY <1>6, <2>2 DEF HealthInv, Elapse
  <2>4. since[f] \in Nat /\ stamp \in Nat
    BY <2>1 DEF HealthInv
  <2> QED
    BY <1>1, <1>3, <2>1, <2>2, <2>3, <2>4 DEF Older
<1>7. ASSUME daemon' = "checking", ~failed'
      PROVE  /\ todo' \in Seq(Check)
             /\ \A f \in Needed : since'[f] > begun' => Detector(f)' \in Ahead(todo') /\ Noted(f)'
  <2>1. daemon = "checking" /\ ~failed /\ begun' = begun + 1
    BY <1>7 DEF Elapse
  <2>2. todo' = todo /\ auth' = auth /\ setup' = setup
    BY DEF Elapse
  <2>3. ASSUME NEW f \in Needed, since'[f] > begun' PROVE since[f] > begun
    <3>1. f \in MayBreak /\ since[f] \in Nat /\ begun \in Nat
      BY DEF Needed, HealthInv
    <3> QED
      BY <1>1, <1>3, <2>1, <2>3, <3>1 DEF Older
  <2> QED
    BY <2>1, <2>2, <2>3 DEF HealthInv, Detector, Noted
<1> QED
  BY <1>2, <1>4, <1>5, <1>6, <1>7 DEF HealthInv, Elapse

LEMMA RunCheckHealth ==
  ASSUME HealthInv, RunCheck
  PROVE  HealthInv'
<1>1. PICK check : check = Head(todo)
  OBVIOUS
<1>2. /\ UNCHANGED <<setup, broken, since, daemon, begun, stamp, fine>>
      /\ failed' = (failed \/ (~Passes(check) /\ check \notin Warnings))
      /\ auth' = (IF check = "auth" THEN AuthSeen ELSE auth) /\ todo # <<>>
      /\ todo' = IF check = "version" /\ ~Passes(check) THEN AfterVersion(Tail(todo))
                 ELSE Tail(todo)
  BY <1>1 DEF RunCheck
<1>3. Needed' = Needed /\ Unchecked' = Unchecked
  BY <1>2 DEF Needed, Critical, Configured, Unchecked, Longest
<1>4. ASSUME daemon' = "checking", ~failed'
      PROVE  /\ todo' \in Seq(Check)
             /\ \A f \in Needed : since'[f] > begun' => Detector(f)' \in Ahead(todo') /\ Noted(f)'
  <2>1. daemon = "checking" /\ ~failed /\ (Passes(check) \/ check \in Warnings)
    BY <1>2, <1>4
  <2>2. todo' = Tail(todo)
    BY <1>2, <2>1 DEF Warnings
  <2>3. todo \in Seq(Check)
    BY <2>1 DEF HealthInv
  <2>4. todo' \in Seq(Check) /\ Ahead(todo) \subseteq Ahead(todo') \cup {check}
    <3>1. Len(todo') = Len(todo) - 1 /\ todo' \in Seq(Check)
          /\ \A i \in 1..Len(todo') : todo'[i] = todo[i + 1]
      BY <1>2, <2>2, <2>3, HeadTailProperties
    <3>2. ASSUME NEW i \in DOMAIN todo PROVE todo[i] \in Ahead(todo') \cup {check}
      <4>1. CASE i = 1
        BY <1>1, <2>3, <4>1
      <4>2. CASE i # 1
        <5>1. i - 1 \in 1..Len(todo') /\ todo[i] = todo'[i - 1]
          BY <2>3, <3>1, <3>2, <4>2
        <5> QED
          BY <3>1, <5>1 DEF Ahead
      <4> QED
        BY <4>1, <4>2
    <3> QED
      BY <3>1, <3>2 DEF Ahead
  <2>5. ASSUME NEW f \in Needed, since'[f] > begun'
        PROVE  Detector(f) \in Ahead(todo') /\ Noted(f)'
    <3>1. f \in Critical /\ f \in MayBreak
      BY DEF Needed
    <3>2. since[f] > begun
      BY <1>2, <2>5
    <3>3. f \in broken
      BY <3>1, <3>2 DEF HealthInv
    <3>4. Detector(f) \in Ahead(todo) /\ Noted(f)
      BY <2>1, <3>2 DEF HealthInv
    <3>5. Detector(f) # check
      BY <2>1, <3>1, <3>3, <3>4, Detected
    <3>6. Noted(f)'
      <4>1. CASE f \in Wrong({"scopes", "bot"}) /\ check = "auth"
        <5>1. PICK t \in {"scopes", "bot"} : f = <<"wrong", t>>
          BY <4>1 DEF Wrong
        <5>2. t \in AuthSeen
          BY <3>3, <5>1 DEF AuthSeen, AuthThings, Fine, Wrong
        <5> QED
          BY <1>2, <4>1, <5>1, <5>2 DEF Noted
      <4>2. CASE ~(f \in Wrong({"scopes", "bot"}) /\ check = "auth")
        BY <1>2, <3>4, <4>2 DEF Noted
      <4> QED
        BY <4>1, <4>2
    <3> QED
      BY <2>4, <3>4, <3>5, <3>6
  <2>6. \A f : Detector(f)' = Detector(f)
    BY <1>2 DEF Detector
  <2> QED
    BY <2>4, <2>5, <2>6
<1>5. failed' \in BOOLEAN
  BY <1>2 DEF HealthInv
<1> QED
  BY <1>2, <1>3, <1>4, <1>5 DEF HealthInv

LEMMA TickHealth ==
  ASSUME HealthInv, Tick
  PROVE  HealthInv'
<1>1. /\ UNCHANGED <<setup, broken, since, fine>> /\ daemon = "waiting"
      /\ stamp' = stamp
  BY DEF Tick, Reused
<1>2. Needed' = Needed /\ Unchecked' = Unchecked
  BY <1>1 DEF Needed, Critical, Configured, Unchecked, Longest
<1>3. \A f : Detector(f)' = Detector(f)
  BY <1>1 DEF Detector
<1>4. CASE daemon' = "checking" /\ Begins(RuntimeCritical)
  <2>1. todo' = RuntimeCritical /\ failed' = FALSE /\ auth' = AuthThings /\ begun' = 0
    BY <1>4 DEF Begins
  <2>2. todo' \in Seq(Check)
    <3>1. PICK s, t : s = Always /\ t = Backend
      OBVIOUS
    <3>2. s \o t \in Seq(Check)
      BY <3>1, ChecksType, ConcatProperties
    <3> QED
      BY <2>1, <3>1, <3>2 DEF RuntimeCritical
  <2>3. ASSUME NEW f \in Needed PROVE Detector(f) \in Ahead(todo') /\ Noted(f)'
    <3>1. Detector(f) \in Ahead(todo')
      BY <2>1, Covered DEF Needed
    <3>2. Noted(f)'
      BY <2>1 DEF Noted, Wrong, AuthThings
    <3> QED
      BY <3>1, <3>2
  <2>4. begun' \in 0..Lag
    BY <2>1, HealthAssumption
  <2> QED
    BY <1>1, <1>2, <1>3, <2>1, <2>2, <2>3, <2>4 DEF HealthInv
<1>5. CASE daemon' # "checking" /\ UNCHANGED <<failed, begun>>
  BY <1>1, <1>2, <1>5 DEF HealthInv
<1> QED
  BY <1>1, <1>4, <1>5 DEF Tick

LEMMA EndChecksHealth ==
  ASSUME HealthInv, EndChecks
  PROVE  HealthInv'
<1>1. /\ UNCHANGED <<setup, broken, since, todo, failed, auth, begun>>
      /\ daemon = "checking" /\ todo = <<>> /\ daemon' # "checking"
  BY DEF EndChecks
<1>2. Needed' = Needed /\ Unchecked' = Unchecked
  BY <1>1 DEF Needed, Critical, Configured, Unchecked, Longest
<1>3. stamp' \in Nat /\ fine' \in BOOLEAN
  <2>1. begun \in Nat /\ stamp \in Nat /\ fine \in BOOLEAN /\ failed \in BOOLEAN
    BY HealthAssumption DEF HealthInv
  <2>2. CASE Fine({"database"})
    BY <2>1, <2>2 DEF EndChecks, Taken
  <2>3. CASE ~Fine({"database"})
    BY <2>1, <2>3 DEF EndChecks
  <2> QED
    BY <2>2, <2>3
<1>4. ASSUME fine', stamp' # Unchecked, NEW f \in Needed PROVE since[f] <= stamp'
  <2>1. CASE Fine({"database"})
    <3>1. stamp' = begun /\ ~failed
      BY <1>4, <2>1 DEF EndChecks, Taken
    <3>2. Ahead(todo) = {}
      BY <1>1 DEF Ahead
    <3>3. ~(since[f] > begun)
      BY <1>1, <3>1, <3>2 DEF HealthInv
    <3>4. since[f] \in Nat /\ begun \in Nat
      BY DEF HealthInv, Needed
    <3> QED
      BY <3>1, <3>3, <3>4
  <2>2. CASE ~Fine({"database"})
    BY <1>4, <2>2 DEF EndChecks, HealthInv
  <2> QED
    BY <2>1, <2>2
<1> QED
  BY <1>1, <1>2, <1>3, <1>4 DEF HealthInv

LEMMA HealthStep ==
  ASSUME HealthInv, [HealthNext]_healthVars
  PROVE  HealthInv'
<1>1. CASE Start
  <2>1. daemon' = "starting" /\ begun' = 0 /\ failed' = FALSE /\ stamp' = Unchecked /\ fine' = TRUE
        /\ UNCHANGED <<setup, broken, since>>
    BY <1>1 DEF Start, Begins
  <2>2. Needed' = Needed /\ Unchecked' = Unchecked /\ Unchecked \in Nat /\ Lag \in Nat
    BY <2>1, HealthAssumption DEF Needed, Critical, Configured, Unchecked, Longest
  <2>3. begun' \in 0..Lag /\ stamp' \in Nat /\ fine' \in BOOLEAN /\ failed' \in BOOLEAN
    <3>1. begun' \in 0..Lag /\ stamp' \in Nat
      BY <2>1, <2>2
    <3>2. fine' \in BOOLEAN /\ failed' \in BOOLEAN
      BY <2>1
    <3> QED
      BY <3>1, <3>2
  <2>4. stamp' = Unchecked' /\ daemon' # "checking"
    BY <2>1, <2>2
  <2> QED
    BY <2>1, <2>3, <2>4 DEF HealthInv
<1>2. CASE EndStartup \/ EndTick
  <2>1. daemon' # "checking" /\ UNCHANGED <<setup, broken, since, failed, begun, stamp, fine>>
    BY <1>2 DEF EndStartup, EndTick
  <2>2. Needed' = Needed /\ Unchecked' = Unchecked
    BY <2>1 DEF Needed, Critical, Configured, Unchecked, Longest
  <2> QED
    BY <2>1, <2>2 DEF HealthInv
<1>3. CASE \E f \in MayBreak : Break(f)
  <2>1. PICK f \in MayBreak : Break(f)
    BY <1>3
  <2>2. broken' = broken \cup {f}
        /\ UNCHANGED <<setup, since, daemon, todo, failed, auth, begun, stamp, fine>>
    BY <2>1 DEF Break
  <2>3. Needed' = Needed /\ Unchecked' = Unchecked
    BY <2>2 DEF Needed, Critical, Configured, Unchecked, Longest
  <2>4. \A g : Detector(g)' = Detector(g) /\ Noted(g)' = Noted(g)
    BY <2>2 DEF Detector, Noted
  <2> QED
    BY <2>2, <2>3, <2>4 DEF HealthInv
<1>4. CASE \E f \in MayBreak : Repair(f)
  <2>1. PICK f \in MayBreak : Repair(f)
    BY <1>4
  <2>2. broken' = broken \ {f} /\ since' = [since EXCEPT ![f] = 0]
        /\ UNCHANGED <<setup, daemon, todo, failed, auth, begun, stamp, fine>>
    BY <2>1 DEF Repair
  <2>3. since' \in [MayBreak -> Nat] /\ \A g \in MayBreak : since'[g] = IF g = f THEN 0 ELSE since[g]
    BY <2>2 DEF HealthInv
  <2>4. Needed' = Needed /\ Unchecked' = Unchecked
    BY <2>2 DEF Needed, Critical, Configured, Unchecked, Longest
  <2>5. \A g : Detector(g)' = Detector(g) /\ Noted(g)' = Noted(g)
    BY <2>2 DEF Detector, Noted
  <2>6. \A g \in Needed : since'[g] = 0 \/ since'[g] = since[g]
    BY <2>3 DEF Needed
  <2>7. \A g \in MayBreak : since'[g] > 0 => g \in broken'
    BY <2>2, <2>3 DEF HealthInv
  <2>8. begun \in Nat /\ stamp \in Nat
    BY DEF HealthInv
  <2>9. fine /\ stamp # Unchecked => \A g \in Needed : since'[g] <= stamp
    BY <2>6, <2>8 DEF HealthInv
  <2>10. daemon = "checking" /\ ~failed => 
           \A g \in Needed : since'[g] > begun => Detector(g) \in Ahead(todo) /\ Noted(g)
    BY <2>6, <2>8 DEF HealthInv
  <2> QED
    BY <2>2, <2>3, <2>4, <2>5, <2>7, <2>9, <2>10 DEF HealthInv
<1>5. CASE UNCHANGED healthVars
  <2>1. Needed' = Needed /\ Unchecked' = Unchecked
    BY <1>5 DEF healthVars, Needed, Critical, Configured, Unchecked, Longest
  <2>2. \A g : Detector(g)' = Detector(g) /\ Noted(g)' = Noted(g)
    BY <1>5 DEF healthVars, Detector, Noted
  <2> QED
    BY <1>5, <2>1, <2>2 DEF healthVars, HealthInv
<1> QED
  BY <1>1, <1>2, <1>3, <1>4, <1>5, ElapseHealth, RunCheckHealth, TickHealth, EndChecksHealth
     DEF HealthNext, Turns

\* For every configuration, set of faults and intervals: a tick acts only when
\* the database answers and nothing the system cannot work without has been
\* broken for a whole interval, although results are reused and the world
\* changes between and during the checks.
THEOREM FitToAct == HealthSpec => ActsHealthy
<1>1. ASSUME HealthInv, [HealthNext]_healthVars, daemon # "acting", daemon' = "acting"
      PROVE  (\A f \in Critical \cap MayBreak : since[f] < Interval) /\ Fine({"database"})
  <2>1. Lag < Interval /\ Lag \in Nat /\ Interval \in Nat /\ RetryInterval \in Nat
    BY HealthAssumption
  <2>2. \A f \in Needed : since[f] \in Nat
    BY <1>1 DEF HealthInv, Needed
  <2>3. CASE Tick
    <3>1. fine /\ stamp < Interval /\ Fine({"database", "policy"})
      BY <1>1, <2>3 DEF Tick, Valid
    <3>2. stamp # Unchecked /\ stamp \in Nat
      BY <1>1, <2>1, <3>1 DEF Unchecked, Longest, HealthInv
    <3>3. \A f \in Needed : since[f] <= stamp
      BY <1>1, <3>1, <3>2 DEF HealthInv
    <3>4. Fine({"database"})
      BY <3>1 DEF Fine, Wrong
    <3> QED
      BY <2>1, <2>2, <3>1, <3>2, <3>3, <3>4 DEF Needed
  <2>4. CASE EndChecks
    <3>1. Fine({"database"}) /\ ~failed /\ todo = <<>> /\ daemon = "checking"
      BY <1>1, <2>4 DEF EndChecks
    <3>2. Ahead(todo) = {}
      BY <3>1 DEF Ahead
    <3>3. \A f \in Needed : ~(since[f] > begun)
      BY <1>1, <3>1, <3>2 DEF HealthInv
    <3>4. begun \in 0..Lag
      BY <1>1 DEF HealthInv
    <3> QED
      BY <2>1, <2>2, <3>1, <3>3, <3>4 DEF Needed
  <2> QED
    BY <1>1, <2>3, <2>4 DEF HealthNext, Turns, Start, RunCheck, EndStartup, EndTick, Elapse,
                            Break, Repair, healthVars
<1>2. HealthSpec => []HealthInv
  BY InitHealth, HealthStep, PTL DEF HealthSpec
<1>3. HealthInv /\ [HealthNext]_healthVars =>
        [daemon # "acting" /\ daemon' = "acting" =>
           /\ \A f \in Critical \cap MayBreak : since[f] < Interval
           /\ Fine({"database"})]_healthVars
  BY <1>1
<1> QED
  BY <1>2, <1>3, PTL DEF HealthSpec, ActsHealthy
=============================================================================
