------------------------------ MODULE Ingestion ------------------------------
(***************************************************************************)
(* Acquisition of messages: every tick of the daemon polls the approval    *)
(* inbox and then, in rotating order, the ingestion stages; every source   *)
(* has a checkpoint with the end of its last complete window and, when a   *)
(* window could not be finished, the backlog that resumes it.  A window is *)
(* fetched page by page and processed message by message under caps and    *)
(* under one time budget for the tick, which keeps a reserve for           *)
(* processing what was fetched.                                            *)
(*                                                                         *)
(* A snapshot is a pair <<message, version>>; version 0 is a message the   *)
(* platform does not return yet.  `handled` is the version whose           *)
(* processing returned; what processing does is module Pipeline.           *)
(*                                                                         *)
(* Time is counted in Overlap's unit for windows and in budget units for   *)
(* the tick: a page costs one unit, a message not handled before costs     *)
(* one, and a replay of a handled one is free.                             *)
(***************************************************************************)
EXTENDS Integers, Sequences, FiniteSets, SequencesExt

CONSTANTS
  Message,     \* what people write
  Source,      \* checkpoint keys: inbox, searches, watched chats and threads
  At,          \* [Message -> Nat]: when a message was sent
  Rank,        \* [Message -> Nat]: when it was sent, then its id
  Homes,       \* [Message -> SUBSET Source]: where it can be polled
  Editable,    \* messages that may be edited once
  Inbox,       \* the stage of the approval inbox
  Stages,      \* the rotating stages, a sequence
  Targets,     \* [stages -> Seq(Source)]: the sources a stage drains
  Overlap,     \* daemon.overlap_seconds
  PageSize, MaxPages, MaxMessages,   \* the caps of a drain
  Budget,      \* ingest_tick_budget_seconds
  MaxReserve,  \* MAX_PROCESSING_RESERVE_SECONDS
  MaxTime, MaxFault,   \* bounds on the clock and on failures
  Failing,     \* the sets of sources that may answer no fetch at all
  Whole,       \* no page token: the window from its first page
  NoBacklog, NoSource

AllStages == {Inbox} \cup ToSet(Stages)

(* Tokens of pages and saved windows with the cursor of a batch cut short. *)
Version == 0..2
Snapshots == Message \X Version
Token == {Whole} \cup SUBSET Message
Window == [start: Int, end: Nat, token: Token, cursor: SUBSET Snapshots]

ASSUME MessageAssumption ==
  /\ At \in [Message -> Nat] /\ Rank \in [Message -> Nat]
  /\ Homes \in [Message -> SUBSET Source]
  /\ \A m, n \in Message : (At[m] < At[n] => Rank[m] < Rank[n])
                           /\ (Rank[m] = Rank[n] => m = n)
ASSUME StageAssumption ==
  /\ Stages # <<>> /\ Stages \in Seq(AllStages) /\ Targets \in [AllStages -> Seq(Source)]
ASSUME WindowAssumption ==
  /\ Overlap \in Nat /\ PageSize \in Nat \ {0}
  /\ (\A some \in SUBSET Message : some # Whole) /\ NoBacklog \notin Window
ASSUME BudgetAssumption == Budget \in Nat /\ MaxReserve \in Nat

VARIABLES
  clock,     \* wall clock
  ver,       \* [Message -> 0..2]: the version the platform returns
  broken,    \* the sources whose fetches never succeed
  handled,   \* [Message -> 0..2]: the version last processed
  point,     \* [Source -> checkpoint]
  turn,      \* the rotation checkpoints: of the stages, and of each stage
  tick,      \* the tick in memory
  faults     \* failures left

vars == <<clock, ver, broken, handled, point, turn, tick, faults>>

Idle == [on |-> FALSE, stages |-> <<>>, left |-> <<>>, source |-> NoSource,
         win |-> NoBacklog, step |-> "between", items |-> {}, done |-> {},
         token |-> Whole, pages |-> 0, complete |-> FALSE, fuel |-> 0]

(* Variant: the same source always gets the first opportunity. *)
FixedOrder(s, i) == s

Rotate(s, i) ==
  IF s = <<>> THEN s
  ELSE SubSeq(s, (i % Len(s)) + 1, Len(s)) \o SubSeq(s, 1, i % Len(s))

(***************************************************************************)
(* The order in which a batch is processed, its prefixes, and the cursor   *)
(* that remembers a processed prefix by the identity of its snapshots.     *)
(***************************************************************************)
Prefix(items, k) ==
  {i \in items : Cardinality({j \in items : Rank[j[1]] < Rank[i[1]]}) < k}

(* Variant: the cursor is trusted by its count alone. *)
CountedPrefix(items, cursor) == Prefix(items, Cardinality(cursor))

(* _validated_processing_prefix: what a replayed batch may skip. *)
ValidatedPrefix(items, cursor) ==
  IF Prefix(items, Cardinality(cursor)) = cursor THEN cursor ELSE {}

FirstOf(items) == CHOOSE i \in items :
                    \A j \in items : Rank[i[1]] <= Rank[j[1]]

(* The part of the budget no further page may use. *)
Reserve == IF MaxReserve <= Budget \div 2 THEN MaxReserve ELSE Budget \div 2

(* Variant: a resumed window runs up to the present. *)
SlidingWindow(s) ==
  IF point[s].backlog # NoBacklog THEN [point[s].backlog EXCEPT !.end = clock]
  ELSE [start |-> point[s].last - Overlap, end |-> clock,
        token |-> Whole, cursor |-> {}]

(* _window: resume the backlog, or start Overlap before the last success. *)
WindowOf(s) ==
  IF point[s].backlog # NoBacklog THEN point[s].backlog
  ELSE [start |-> point[s].last - Overlap, end |-> clock,
        token |-> Whole, cursor |-> {}]

(* What the platform has still to return for a window. *)
Remaining(s, win, token) ==
  {m \in Message :
     /\ ver[m] > 0 /\ s \in Homes[m]
     /\ win.start <= At[m] /\ At[m] <= win.end
     /\ token # Whole => m \in token}

------------------------------------------------------------------------------
Init ==
  /\ clock = 0 /\ ver = [m \in Message |-> 0]
  /\ broken \in Failing
  /\ handled = [m \in Message |-> 0]
  /\ point = [s \in Source |-> [last |-> 0, backlog |-> NoBacklog]]
  /\ turn = [g \in AllStages \cup {NoSource} |-> 0]
  /\ tick = Idle /\ faults = MaxFault

(***************************************************************************)
(* The platform: time passes, and a message becomes visible, or is edited, *)
(* at most Overlap after it was sent.  A change that no fetch under way    *)
(* could return is the same change made later: it waits for the next       *)
(* moment at which one could, and the clock for the end of the tick.       *)
(***************************************************************************)
Pass ==
  /\ ~tick.on /\ clock < MaxTime
  /\ clock' = clock + 1
  /\ UNCHANGED <<ver, broken, handled, point, turn, tick, faults>>

Show(m) ==
  /\ At[m] <= clock /\ clock <= At[m] + Overlap
  /\ ~tick.on \/ (tick.step = "fetch" /\ tick.source \in Homes[m])
  /\ ver[m] = 0 \/ (ver[m] = 1 /\ m \in Editable)
  /\ ver' = [ver EXCEPT ![m] = @ + 1]
  /\ UNCHANGED <<clock, broken, handled, point, turn, tick, faults>>

------------------------------------------------------------------------------
(* A tick: the inbox first, then the stages, each tick another one first. *)
BeginTick ==
  /\ ~tick.on
  /\ tick' = [Idle EXCEPT !.on = TRUE, !.fuel = Budget,
                          !.stages = <<Inbox>> \o Rotate(Stages, turn[NoSource])]
  /\ turn' = [turn EXCEPT ![NoSource] = (@ + 1) % Len(Stages)]
  /\ UNCHANGED <<clock, ver, broken, handled, point, faults>>

(* A stage starts with its targets rotated in the same way. *)
BeginStage ==
  /\ tick.on /\ tick.step = "between" /\ tick.left = <<>> /\ tick.stages # <<>>
  /\ LET g == Head(tick.stages) IN
       /\ tick' = [tick EXCEPT !.stages = Tail(@),
                               !.left = Rotate(Targets[g], turn[g])]
       /\ turn' = IF Targets[g] = <<>> THEN turn
                  ELSE [turn EXCEPT ![g] = (@ + 1) % Len(Targets[g])]
  /\ UNCHANGED <<clock, ver, broken, handled, point, faults>>

EndTick ==
  /\ tick.on /\ tick.step = "between" /\ tick.left = <<>> /\ tick.stages = <<>>
  /\ tick' = Idle
  /\ UNCHANGED <<clock, ver, broken, handled, point, turn, faults>>

OpenWindow ==
  /\ tick.on /\ tick.step = "between" /\ tick.left # <<>>
  /\ LET s == Head(tick.left) IN
       tick' = [tick EXCEPT !.left = Tail(@), !.source = s, !.step = "fetch",
                            !.win = WindowOf(s), !.token = WindowOf(s).token,
                            !.items = {}, !.done = {}, !.pages = 0]
  /\ UNCHANGED <<clock, ver, broken, handled, point, turn, faults>>

------------------------------------------------------------------------------
(* Nothing more is fetched: the batch is processed after the prefix that a *)
(* cursor of an earlier tick vouches for.                                  *)
Fetched(t, complete) ==
  [t EXCEPT !.step = "process", !.complete = complete,
            !.done = ValidatedPrefix(t.items, t.win.cursor)]

MayFetch ==
  /\ tick.pages < MaxPages
  /\ Cardinality(tick.items) < MaxMessages
  /\ tick.fuel > 0
  /\ tick.items # {} => tick.fuel > Reserve

(* The platform returns the messages of a window in an order of its own. *)
FetchPage ==
  /\ tick.step = "fetch" /\ MayFetch /\ tick.source \notin broken
  /\ LET left == Remaining(tick.source, tick.win, tick.token)
         room == MaxMessages - Cardinality(tick.items)
         size == IF PageSize <= room THEN PageSize ELSE room
     IN \E page \in SUBSET left :
          /\ Cardinality(page) = IF Cardinality(left) <= size
                                 THEN Cardinality(left) ELSE size
          /\ LET got == [tick EXCEPT
                           !.items = @ \cup {<<m, ver[m]>> : m \in page},
                           !.pages = @ + 1, !.fuel = @ - 1,
                           !.token = IF page = left THEN Whole ELSE left \ page]
             IN tick' = IF page = left THEN Fetched(got, TRUE) ELSE got
  /\ UNCHANGED <<clock, ver, broken, handled, point, turn, faults>>

(* A cap or the budget ends the drain: it is never taken for complete. *)
StopFetching ==
  /\ tick.step = "fetch" /\ ~MayFetch
  /\ tick' = Fetched(tick, FALSE)
  /\ UNCHANGED <<clock, ver, broken, handled, point, turn, faults>>

(* The exception ends the stage with the targets it had left. *)
Abandon(t, fuel) ==
  [Idle EXCEPT !.on = TRUE, !.stages = t.stages, !.fuel = fuel]

(* _reset_resumed_token: the saved token failed; the window starts again. *)
ResetBacklog(p) ==
  [p EXCEPT !.backlog = [@ EXCEPT !.token = Whole, !.cursor = {}]]

(* A fetch fails, perhaps only when the whole budget has gone by. *)
FetchFails ==
  /\ tick.step = "fetch" /\ MayFetch
  /\ \/ tick.source \in broken /\ UNCHANGED faults
     \/ faults > 0 /\ faults' = faults - 1
  /\ point' = IF tick.pages = 0 /\ tick.win.token # Whole
              THEN [point EXCEPT ![tick.source] = ResetBacklog(@)]
              ELSE point
  /\ \E fuel \in {0, tick.fuel - 1} : tick' = Abandon(tick, fuel)
  /\ UNCHANGED <<clock, ver, broken, handled, turn>>

(* One message of the batch; processing a version again changes nothing. *)
ProcessNext ==
  /\ tick.step = "process" /\ tick.items # tick.done /\ tick.fuel > 0
  /\ LET i == FirstOf(tick.items \ tick.done) IN
       /\ handled' = [handled EXCEPT ![i[1]] = i[2]]
       /\ tick' = [tick EXCEPT !.done = @ \cup {i},
                               !.fuel = IF handled[i[1]] = i[2] THEN @ ELSE @ - 1]
  /\ UNCHANGED <<clock, ver, broken, point, turn, faults>>

(* Processing raises: the stage fails and records nothing. *)
ProcessFails ==
  /\ tick.step = "process" /\ tick.items # tick.done /\ tick.fuel > 0
  /\ faults > 0 /\ faults' = faults - 1
  /\ tick' = Abandon(tick, tick.fuel - 1)
  /\ UNCHANGED <<clock, ver, broken, handled, point, turn>>

(* A batch cut short by the budget is replayed from its own token. *)
Backlog(t) ==
  IF t.items # t.done
  THEN [t.win EXCEPT !.cursor = t.done]
  ELSE [t.win EXCEPT !.token = t.token, !.cursor = {}]

(* _record_drain; a stage out of budget gives up its other targets. *)
Record ==
  /\ tick.step = "process" /\ (tick.items = tick.done \/ tick.fuel = 0)
  /\ LET s == tick.source
         processed == tick.items = tick.done
         exhausted == ~processed \/ (~tick.complete /\ tick.pages < MaxPages
                                     /\ Cardinality(tick.items) < MaxMessages)
     IN /\ point' = [point EXCEPT ![s] =
              IF processed /\ tick.complete
              THEN [last |-> tick.win.end, backlog |-> NoBacklog]
              ELSE [@ EXCEPT !.backlog = Backlog(tick)]]
        /\ tick' = [Abandon(tick, tick.fuel) EXCEPT
                      !.left = IF exhausted THEN <<>> ELSE tick.left]
  /\ UNCHANGED <<clock, ver, broken, handled, turn, faults>>

(* The process dies and starts again: the checkpoints are what is left. *)
Crash ==
  /\ tick.on /\ faults > 0
  /\ faults' = faults - 1 /\ tick' = Idle
  /\ UNCHANGED <<clock, ver, broken, handled, point, turn>>

Work == \/ BeginTick \/ BeginStage \/ EndTick \/ OpenWindow
        \/ FetchPage \/ StopFetching \/ ProcessNext \/ Record
        \/ (tick.source \in broken /\ FetchFails)

Next == Pass \/ (\E m \in Message : Show(m)) \/ Work \/ FetchFails
        \/ ProcessFails \/ Crash

Spec == Init /\ [][Next]_vars

(* The daemon's loop calls one tick after the other. *)
FairSpec == Spec /\ WF_vars(Work)

------------------------------------------------------------------------------
(***************************************************************************)
(* What a source's checkpoint has left behind for good - sent before any   *)
(* window it can still poll - has been processed in its last version, over *)
(* page caps, budgets, replays, failed fetches and crashes.                *)
(***************************************************************************)
Behind(s) == {m \in Message : s \in Homes[m] /\ ver[m] > 0
                                /\ At[m] < WindowOf(s).start}

NothingSkipped ==
  \A s \in Source : \A m \in Behind(s) : handled[m] = ver[m]

(***************************************************************************)
(* A backlog keeps its window: until a complete drain replaces it, neither *)
(* failures, crashes nor later ticks move its start or its end, and the    *)
(* end of the last success never goes back.                                *)
(***************************************************************************)
WindowsStay ==
  [][\A s \in Source :
       LET old == point[s].backlog  new == point'[s].backlog IN
       /\ point'[s].last >= point[s].last
       /\ (old # NoBacklog /\ new # old) =>
            \/ new = NoBacklog /\ point'[s].last = old.end
            \/ new # NoBacklog /\ new.start = old.start /\ new.end = old.end]_vars

(***************************************************************************)
(* Every message that some answering source returns is processed in its    *)
(* last version, whatever the load of the other sources and even when one  *)
(* of them takes all of a tick's budget to fail.                           *)
(***************************************************************************)
EventuallyHandled ==
  \A m \in Message :
    []<>(ver[m] = 0 \/ Homes[m] \subseteq broken \/ handled[m] = ver[m])
=============================================================================
