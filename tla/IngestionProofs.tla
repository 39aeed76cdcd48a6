---------------------------- MODULE IngestionProofs ----------------------------
(***************************************************************************)
(* Proofs about acquisition: no message is left behind by a checkpoint     *)
(* before it was processed in its last version, and a backlog keeps its    *)
(* window.  Both rest on what a saved window still vouches for: a message  *)
(* that can change no more is processed, or still ahead of its page token. *)
(***************************************************************************)
EXTENDS Ingestion, SequenceTheorems, WellFoundedInduction, TLAPS

TickRow == [on: BOOLEAN, stages: Seq(AllStages), left: Seq(Source),
            source: Source \cup {NoSource}, win: {NoBacklog} \cup Window,
            step: {"between", "fetch", "process"}, items: SUBSET Snapshots,
            done: SUBSET Snapshots, token: Token, pages: Nat,
            complete: BOOLEAN, fuel: Int]

IngestionType ==
  /\ clock \in Nat /\ ver \in [Message -> Version] /\ handled \in [Message -> Version]
  /\ point \in [Source -> [last: Nat, backlog: {NoBacklog} \cup Window]]
  /\ turn \in [AllStages \cup {NoSource} -> Nat]
  /\ tick \in TickRow

(* A window starts Overlap before the last success and ends in the past.   *)
WindowInv ==
  \A s \in Source :
    /\ point[s].last <= clock
    /\ point[s].backlog # NoBacklog =>
         /\ point[s].backlog.start = point[s].last - Overlap
         /\ point[s].last <= point[s].backlog.end /\ point[s].backlog.end <= clock

(* The messages of a window that can change no more by its end ...         *)
Settled(s, win) ==
  {m \in Message : /\ s \in Homes[m] /\ ver[m] > 0
                   /\ win.start <= At[m] /\ At[m] + Overlap < win.end}

(* ... are processed, in the batch, or among those still to be fetched.    *)
Ahead(token) == IF token = Whole THEN Message ELSE token

Kept(s, win, ahead, items) ==
  \A m \in Settled(s, win) : handled[m] = ver[m] \/ <<m, ver[m]>> \in items \/ m \in ahead

BacklogInv ==
  \A s \in Source : point[s].backlog # NoBacklog =>
    /\ Kept(s, point[s].backlog, Ahead(point[s].backlog.token), {})
    /\ \A c \in point[s].backlog.cursor : handled[c[1]] >= c[2]

(* The batch of a drain holds each message once, newer than what is        *)
(* processed, and its token is ahead of it.                                *)
BatchInv ==
  /\ tick.step # "between" =>
       /\ tick.on /\ tick.source \in Source /\ tick.win = WindowOf(tick.source)
       /\ \A i, j \in tick.items : i[1] = j[1] => i = j
       /\ \A i \in tick.items : handled[i[1]] <= i[2] /\ i[2] <= ver[i[1]]
       /\ Kept(tick.source, tick.win, IF tick.complete THEN {} ELSE Ahead(tick.token),
               tick.items)
  /\ tick.step = "fetch" =>
       IF tick.token = Whole THEN tick.items = {}
       ELSE \A i \in tick.items : i[1] \notin tick.token
  /\ tick.step = "process" =>
       tick.done \subseteq tick.items /\ \A i \in tick.done : handled[i[1]] = i[2]
  /\ tick.step # "process" => ~tick.complete

VersionInv == \A m \in Message : handled[m] <= ver[m]

(* What was sent before every window to come is processed.                 *)
BehindInv ==
  \A s \in Source, m \in Message :
    s \in Homes[m] /\ ver[m] > 0 /\ At[m] < point[s].last - Overlap => handled[m] = ver[m]

IngestionInv ==
  /\ IngestionType /\ WindowInv /\ VersionInv /\ BacklogInv /\ BatchInv /\ BehindInv

--------------------------------------------------------------------------------
(* Windows, rotation and the order of a batch.                             *)

LEMMA WindowFacts ==
  ASSUME IngestionType, WindowInv, NEW s \in Source
  PROVE  /\ WindowOf(s) \in Window
         /\ WindowOf(s).start = point[s].last - Overlap
         /\ point[s].last <= WindowOf(s).end /\ WindowOf(s).end <= clock
         /\ point[s].last \in Nat /\ point[s].last <= clock
<1>1. point[s] \in [last: Nat, backlog: {NoBacklog} \cup Window] /\ clock \in Nat
  BY DEF IngestionType
<1>2. CASE point[s].backlog # NoBacklog
  BY <1>1, <1>2 DEF WindowInv, WindowOf
<1>3. CASE point[s].backlog = NoBacklog
  <2>1. WindowOf(s) = [start |-> point[s].last - Overlap, end |-> clock,
                       token |-> Whole, cursor |-> {}]
    BY <1>3 DEF WindowOf
  <2>2. point[s].last - Overlap \in Int
    BY <1>1, WindowAssumption
  <2> QED
    BY <1>1, <2>1, <2>2 DEF WindowInv, Window, Token
<1> QED
  BY <1>2, <1>3

LEMMA RotateSeq ==
  ASSUME NEW S, NEW s \in Seq(S), NEW i \in Nat
  PROVE  Rotate(s, i) \in Seq(S)
<1>1. CASE s = <<>>
  BY <1>1 DEF Rotate
<1>2. CASE s # <<>>
  <2> DEFINE n == Len(s)
             k == i % n
  <2>1. n \in Nat \ {0}
    BY <1>2
  <2>2. k \in 0..(n - 1)
    BY <2>1
  <2> HIDE DEF n, k
  <2>3. k + 1 \in 1..(n + 1) /\ k \in 0..n /\ n \in 0..n
    BY <2>1, <2>2
  <2>4. SubSeq(s, k + 1, n) \in Seq(S) /\ SubSeq(s, 1, k) \in Seq(S)
    BY <2>1, <2>2, <2>3, SubSeqProperties DEF n
  <2>5. SubSeq(s, k + 1, n) \o SubSeq(s, 1, k) \in Seq(S)
    BY <2>4, ConcatProperties
  <2> QED
    BY <1>2, <2>5 DEF Rotate, n, k
<1> QED
  BY <1>1, <1>2

(* A batch that is not done has a message to process next.                 *)
LEMMA FirstIsThere ==
  ASSUME NEW items \in SUBSET Snapshots, items # {}
  PROVE  FirstOf(items) \in items
<1> DEFINE Ranks == {Rank[i[1]] : i \in items}
<1>1. Ranks \in SUBSET Nat /\ Ranks # {}
  BY MessageAssumption DEF Snapshots
<1>2. PICK n \in Ranks : \A k \in Ranks : n <= k
  <2> HIDE DEF Ranks
  <2>1. PICK n \in Ranks : \A k \in Ranks : <<k, n>> \notin OpToRel(<, Nat)
    BY <1>1, NatLessThanWellFounded, WFMin
  <2>2. \A k \in Ranks : ~(k < n)
    BY <1>1, <2>1 DEF OpToRel
  <2> QED
    BY <1>1, <2>2
<1>3. PICK i \in items : n = Rank[i[1]]
  BY <1>2
<1>4. \A j \in items : Rank[i[1]] <= Rank[j[1]]
  BY <1>2, <1>3
<1> QED
  BY <1>4 DEF FirstOf

--------------------------------------------------------------------------------
(* Steps that change the tick alone.                                       *)

LEMMA TickAlone ==
  ASSUME IngestionInv, clock' = clock, ver' = ver, handled' = handled, point' = point,
         IngestionType', BatchInv'
  PROVE  IngestionInv'
BY DEF IngestionInv, WindowInv, VersionInv, BacklogInv, BehindInv, Kept, Settled, Ahead

(* Between two drains nothing is in flight.                                *)
LEMMA BetweenDrains ==
  ASSUME IngestionInv, clock' = clock, ver' = ver, handled' = handled, point' = point,
         turn' \in [AllStages \cup {NoSource} -> Nat], tick' \in TickRow,
         tick'.step = "between", ~tick'.complete
  PROVE  IngestionInv'
<1>1. BatchInv'
  BY DEF BatchInv
<1>2. IngestionType'
  BY DEF IngestionInv, IngestionType
<1> QED
  BY <1>1, <1>2, TickAlone

LEMMA IdleRow == Idle \in TickRow /\ Idle.step = "between" /\ ~Idle.complete
BY DEF Idle, TickRow, Token

LEMMA BeginRow ==
  ASSUME NEW t \in TickRow, NEW fuel \in Int, NEW order \in Seq(AllStages),
         tick' = [t EXCEPT !.on = TRUE, !.fuel = fuel, !.stages = order]
  PROVE  tick' \in TickRow /\ tick'.step = t.step /\ tick'.complete = t.complete
BY DEF TickRow

LEMMA StageRow ==
  ASSUME NEW t \in TickRow, NEW rest \in Seq(AllStages), NEW order \in Seq(Source),
         tick' = [t EXCEPT !.stages = rest, !.left = order]
  PROVE  tick' \in TickRow /\ tick'.step = t.step /\ tick'.complete = t.complete
BY DEF TickRow

LEMMA AbandonRow ==
  ASSUME NEW t \in TickRow, NEW fuel \in Int
  PROVE  /\ Abandon(t, fuel) \in TickRow /\ Abandon(t, fuel).step = "between"
         /\ ~Abandon(t, fuel).complete
BY IdleRow DEF Abandon, TickRow

LEMMA TickBegins ==
  ASSUME IngestionInv, BeginTick \/ BeginStage \/ EndTick \/ Crash
  PROVE  IngestionInv'
<1> USE StageAssumption
<1>1. /\ tick \in TickRow /\ turn \in [AllStages \cup {NoSource} -> Nat]
      /\ clock' = clock /\ ver' = ver /\ handled' = handled /\ point' = point
  BY DEF IngestionInv, IngestionType, BeginTick, BeginStage, EndTick, Crash
<1>2. CASE BeginTick
  <2> DEFINE order == <<Inbox>> \o Rotate(Stages, turn[NoSource])
  <2>1. turn[NoSource] \in Nat /\ Len(Stages) \in Nat \ {0} /\ Inbox \in AllStages
    BY <1>1 DEF AllStages
  <2>2. order \in Seq(AllStages)
    <3>1. Rotate(Stages, turn[NoSource]) \in Seq(AllStages)
      BY <2>1, RotateSeq
    <3>2. <<Inbox>> \in Seq(AllStages)
      BY <2>1
    <3> QED
      BY <3>1, <3>2, ConcatProperties
  <2>3. tick' = [Idle EXCEPT !.on = TRUE, !.fuel = Budget, !.stages = order]
    BY <1>2 DEF BeginTick
  <2> DEFINE k == (turn[NoSource] + 1) % Len(Stages)
  <2>4. k \in Nat
    BY <2>1
  <2>5. turn' = [turn EXCEPT ![NoSource] = k]
    BY <1>2 DEF BeginTick
  <2> HIDE DEF order, k
  <2>6. tick' \in TickRow /\ tick'.step = "between" /\ ~tick'.complete
    <3>1. Idle \in TickRow /\ Budget \in Int
      BY IdleRow, BudgetAssumption
    <3>2. tick' \in TickRow /\ tick'.step = Idle.step /\ tick'.complete = Idle.complete
      BY ONLY <2>2, <2>3, <3>1, BeginRow
    <3> QED
      BY <3>2, IdleRow
  <2> QED
    BY <1>1, <2>4, <2>5, <2>6, BetweenDrains
<1>3. CASE BeginStage
  <2> DEFINE g == Head(tick.stages)
             order == Rotate(Targets[g], turn[g])
             k == (turn[g] + 1) % Len(Targets[g])
  <2>1. tick.stages \in Seq(AllStages) /\ tick.stages # <<>> /\ tick.step = "between"
    BY <1>1, <1>3 DEF BeginStage, TickRow
  <2>2. g \in AllStages /\ Tail(tick.stages) \in Seq(AllStages)
    BY <2>1, HeadTailProperties
  <2>3. turn[g] \in Nat /\ Targets[g] \in Seq(Source)
    BY <1>1, <2>2
  <2>4. order \in Seq(Source)
    BY <2>3, RotateSeq
  <2>5. Targets[g] # <<>> => k \in Nat
    BY <2>3
  <2>6. tick' = [tick EXCEPT !.stages = Tail(tick.stages), !.left = order]
    BY <1>3 DEF BeginStage
  <2>10. turn' = IF Targets[g] = <<>> THEN turn ELSE [turn EXCEPT ![g] = k]
    BY <1>1, <1>3, <2>2 DEF BeginStage
  <2>7. ~tick.complete
    BY <2>1 DEF IngestionInv, BatchInv
  <2> HIDE DEF g, order, k
  <2>8. tick' \in TickRow /\ tick'.step = "between" /\ ~tick'.complete
    <3>1. tick' \in TickRow /\ tick'.step = tick.step /\ tick'.complete = tick.complete
      BY ONLY <1>1, <2>2, <2>4, <2>6, StageRow
    <3> QED
      BY <2>1, <2>7, <3>1
  <2>9. turn' \in [AllStages \cup {NoSource} -> Nat]
    BY <1>1, <2>2, <2>5, <2>10
  <2> QED
    BY <1>1, <2>8, <2>9, BetweenDrains
<1>4. CASE EndTick \/ Crash
  BY <1>1, <1>4, IdleRow, BetweenDrains DEF EndTick, Crash
<1> QED
  BY <1>2, <1>3, <1>4

(* A window is opened: what its backlog vouches for holds of the drain.    *)
LEMMA WindowOpens ==
  ASSUME IngestionInv, OpenWindow
  PROVE  IngestionInv'
<1>1. tick \in TickRow /\ tick.on /\ tick.step = "between" /\ tick.left # <<>> /\ ~tick.complete
  BY DEF IngestionInv, IngestionType, OpenWindow, BatchInv
<1>2. Head(tick.left) \in Source /\ Tail(tick.left) \in Seq(Source)
  BY <1>1, HeadTailProperties DEF TickRow
<1>3. PICK s \in Source : s = Head(tick.left)
  BY <1>2
<1>4. PICK w \in Window : w = WindowOf(s)
  BY <1>3, WindowFacts DEF IngestionInv
<1>5. tick' = [tick EXCEPT !.left = Tail(tick.left), !.source = s, !.step = "fetch",
                           !.win = w, !.token = w.token,
                           !.items = {}, !.done = {}, !.pages = 0]
  BY <1>3, <1>4 DEF OpenWindow
<1>6. clock' = clock /\ ver' = ver /\ handled' = handled /\ point' = point /\ turn' = turn
  BY DEF OpenWindow
<1>7. Kept(s, w, Ahead(w.token), {})
  <2>1. CASE point[s].backlog # NoBacklog
    BY <1>4, <2>1 DEF IngestionInv, BacklogInv, WindowOf
  <2>2. CASE point[s].backlog = NoBacklog
    <3>1. w.token = Whole
      BY <1>4, <2>2 DEF WindowOf
    <3> QED
      BY <3>1 DEF Kept, Settled, Ahead
  <2> QED
    BY <2>1, <2>2
<1>8. /\ tick' \in TickRow /\ tick'.on /\ tick'.source = s /\ tick'.win = w
      /\ tick'.step = "fetch" /\ tick'.items = {} /\ tick'.token = w.token
      /\ tick'.complete = FALSE
  BY <1>1, <1>2, <1>5 DEF TickRow, Window
<1>9. Kept(s, w, Ahead(w.token), {})'
  BY <1>6, <1>7 DEF Kept, Settled
<1>10. WindowOf(s)' = w
  BY <1>4, <1>6 DEF WindowOf
<1>11. BatchInv'
  BY <1>8, <1>9, <1>10 DEF BatchInv
<1>12. IngestionType'
  BY <1>6, <1>8 DEF IngestionInv, IngestionType
<1> QED
  BY <1>6, <1>11, <1>12, TickAlone

--------------------------------------------------------------------------------
(* Fetching: a page moves messages from ahead of the token into the batch. *)

(* What a cursor lets a replay skip was processed, and is in the batch.    *)
LEMMA PrefixIsDone ==
  ASSUME handled \in [Message -> Version],
         NEW items \in SUBSET Snapshots, NEW cursor \in SUBSET Snapshots,
         \A i \in items : handled[i[1]] <= i[2],
         \A c \in cursor : handled[c[1]] >= c[2]
  PROVE  /\ ValidatedPrefix(items, cursor) \subseteq items
         /\ \A i \in ValidatedPrefix(items, cursor) : handled[i[1]] = i[2]
<1>1. Prefix(items, Cardinality(cursor)) \subseteq items
  BY DEF Prefix
<1> DEFINE done == ValidatedPrefix(items, cursor)
<1>2. done \subseteq items /\ (done = cursor \/ done = {})
  BY <1>1 DEF ValidatedPrefix
<1> HIDE DEF done
<1>3. ASSUME NEW i \in done PROVE handled[i[1]] = i[2]
  <2>1. i \in items /\ i \in cursor /\ i \in Snapshots
    BY <1>2
  <2>2. i[1] \in Message /\ i[2] \in Version
    BY <2>1 DEF Snapshots
  <2>3. handled[i[1]] \in Nat /\ i[2] \in Nat
    BY <2>2 DEF Version
  <2> QED
    BY <2>1, <2>3
<1> QED
  BY <1>2, <1>3 DEF done

LEMMA CursorIsDone ==
  ASSUME IngestionInv, NEW s \in Source
  PROVE  /\ WindowOf(s).cursor \in SUBSET Snapshots
         /\ \A c \in WindowOf(s).cursor : handled[c[1]] >= c[2]
<1>1. WindowOf(s) \in Window
  BY WindowFacts DEF IngestionInv
<1>2. WindowOf(s).cursor \in SUBSET Snapshots
  BY <1>1 DEF Window
<1>3. CASE point[s].backlog # NoBacklog
  BY <1>2, <1>3 DEF IngestionInv, BacklogInv, WindowOf
<1>4. CASE point[s].backlog = NoBacklog
  BY <1>2, <1>4 DEF WindowOf
<1> QED
  BY <1>3, <1>4

(* A batch as it is while it is fetched.                                   *)
Fetching(t) ==
  /\ t \in TickRow /\ t.on /\ t.step = "fetch" /\ t.source \in Source
  /\ t.win = WindowOf(t.source) /\ ~t.complete
  /\ \A i, j \in t.items : i[1] = j[1] => i = j
  /\ \A i \in t.items : handled[i[1]] <= i[2] /\ i[2] <= ver[i[1]]

(* What is processed next: a complete batch, or one cut off by a cap.      *)
LEMMA FetchEnds ==
  ASSUME IngestionInv, NEW t, Fetching(t), NEW c \in BOOLEAN, tick' = Fetched(t, c),
         Kept(t.source, t.win, IF c THEN {} ELSE Ahead(t.token), t.items),
         clock' = clock, ver' = ver, handled' = handled, point' = point, turn' = turn
  PROVE  IngestionInv'
<1>1. t \in TickRow /\ t.items \in SUBSET Snapshots /\ handled \in [Message -> Version]
  BY DEF Fetching, TickRow, IngestionInv, IngestionType
<1>2. PICK done : done = ValidatedPrefix(t.items, t.win.cursor)
  OBVIOUS
<1>3. done \subseteq t.items /\ \A i \in done : handled[i[1]] = i[2]
  <2>1. /\ t.win.cursor \in SUBSET Snapshots
        /\ \A k \in t.win.cursor : handled[k[1]] >= k[2]
    BY CursorIsDone DEF Fetching
  <2>2. \A i \in t.items : handled[i[1]] <= i[2]
    BY DEF Fetching
  <2> QED
    BY <1>1, <1>2, <2>1, <2>2, PrefixIsDone
<1>4. tick' = [t EXCEPT !.step = "process", !.complete = c, !.done = done]
  BY <1>2 DEF Fetched
<1>5. /\ tick' \in TickRow /\ tick'.step = "process" /\ tick'.complete = c
      /\ tick'.done = done /\ tick'.on = t.on /\ tick'.source = t.source
      /\ tick'.win = t.win /\ tick'.items = t.items /\ tick'.token = t.token
  BY <1>1, <1>3, <1>4 DEF TickRow
<1>6. Kept(t.source, t.win, IF c THEN {} ELSE Ahead(t.token), t.items)'
  BY DEF Kept, Settled
<1>7. WindowOf(t.source)' = WindowOf(t.source)
  BY DEF WindowOf
<1>8. BatchInv'
  BY <1>3, <1>5, <1>6, <1>7 DEF BatchInv, Fetching
<1>9. IngestionType'
  BY <1>5 DEF IngestionInv, IngestionType
<1> QED
  BY <1>8, <1>9, TickAlone

LEMMA FetchGoesOn ==
  ASSUME IngestionInv, Fetching(tick)', tick'.token # Whole,
         \A i \in tick'.items : i[1] \notin tick'.token,
         Kept(tick'.source, tick'.win, tick'.token, tick'.items),
         clock' = clock, ver' = ver, handled' = handled, point' = point, turn' = turn
  PROVE  IngestionInv'
<1>1. PICK t : t = tick'
  OBVIOUS
<1>2. Kept(t.source, t.win, t.token, t.items)'
  BY <1>1 DEF Kept, Settled
<1>3. BatchInv'
  BY <1>1, <1>2 DEF BatchInv, Fetching, Ahead
<1>4. IngestionType'
  BY DEF IngestionInv, IngestionType, Fetching
<1> QED
  BY <1>3, <1>4, TickAlone

LEMMA DrainStops ==
  ASSUME IngestionInv, StopFetching
  PROVE  IngestionInv'
<1>1. /\ Fetching(tick) /\ tick' = Fetched(tick, FALSE)
      /\ clock' = clock /\ ver' = ver /\ handled' = handled /\ point' = point /\ turn' = turn
  BY DEF StopFetching, Fetching, IngestionInv, IngestionType, BatchInv
<1>2. Kept(tick.source, tick.win, Ahead(tick.token), tick.items)
  BY DEF StopFetching, IngestionInv, BatchInv
<1> QED
  BY <1>1, <1>2, FetchEnds

(* A page: what it returned is in the batch, the rest stays ahead.         *)
LEMMA PageFetched ==
  ASSUME IngestionInv, FetchPage
  PROVE  IngestionInv'
<1>1. /\ tick \in TickRow /\ tick.step = "fetch" /\ tick.source \in Source /\ Fetching(tick)
      /\ clock' = clock /\ ver' = ver /\ handled' = handled /\ point' = point /\ turn' = turn
  BY DEF FetchPage, Fetching, IngestionInv, IngestionType, BatchInv
<1>2. /\ tick.items \in SUBSET Snapshots /\ tick.token \in Token /\ tick.win \in Window
      /\ tick.fuel \in Int /\ tick.pages \in Nat
      /\ ver \in [Message -> Version] /\ handled \in [Message -> Version]
  BY <1>1, WindowFacts DEF TickRow, IngestionInv, IngestionType, Fetching
<1>3. PICK left : left = Remaining(tick.source, tick.win, tick.token)
  OBVIOUS
<1>4. PICK page \in SUBSET left :
        LET got == [tick EXCEPT
                      !.items = @ \cup {<<m, ver[m]>> : m \in page},
                      !.pages = @ + 1, !.fuel = @ - 1,
                      !.token = IF page = left THEN Whole ELSE left \ page]
        IN tick' = IF page = left THEN Fetched(got, TRUE) ELSE got
  BY <1>3 DEF FetchPage
<1>5. /\ left \in SUBSET Message /\ page \in SUBSET Message
      /\ tick.token # Whole => left \subseteq tick.token
  BY <1>3 DEF Remaining
<1>6. PICK items : items = tick.items \cup {<<m, ver[m]>> : m \in page}
  OBVIOUS
<1>7. PICK token : token = IF page = left THEN Whole ELSE left \ page
  OBVIOUS
<1>8. PICK fuel \in Int : fuel = tick.fuel - 1
  BY <1>2
<1>9. PICK pages \in Nat : pages = tick.pages + 1
  BY <1>2
<1>10. PICK got : got = [tick EXCEPT !.items = items, !.pages = pages, !.fuel = fuel,
                                     !.token = token]
  OBVIOUS
<1>11. tick' = IF page = left THEN Fetched(got, TRUE) ELSE got
  BY <1>4, <1>6, <1>7, <1>8, <1>9, <1>10
<1>12. items \in SUBSET Snapshots /\ token \in Token
  BY <1>2, <1>5, <1>6, <1>7 DEF Snapshots, Token
<1>13. /\ got \in TickRow /\ got.items = items /\ got.token = token
       /\ got.on = tick.on /\ got.step = tick.step /\ got.source = tick.source
       /\ got.win = tick.win /\ got.complete = tick.complete
  BY <1>1, <1>10, <1>12 DEF TickRow
<1>14. \A i \in tick.items, m \in page : i[1] # m
  BY <1>1, <1>5 DEF IngestionInv, BatchInv
<1>15. \A i, j \in items : i[1] = j[1] => i = j
  BY <1>1, <1>6, <1>14 DEF Fetching
<1>16. \A i \in items : handled[i[1]] <= i[2] /\ i[2] <= ver[i[1]]
  <2>1. \A m \in page : handled[m] <= ver[m] /\ ver[m] <= ver[m]
    BY <1>2, <1>5 DEF IngestionInv, VersionInv, Version
  <2> QED
    BY <1>1, <1>6, <2>1 DEF Fetching
<1>17. Fetching(got)
  BY <1>1, <1>13, <1>15, <1>16 DEF Fetching
<1>18. ASSUME NEW m \in Settled(tick.source, tick.win),
              handled[m] # ver[m], <<m, ver[m]>> \notin items
       PROVE  m \in left \ page
  <2>1. <<m, ver[m]>> \notin tick.items /\ m \notin page
    BY <1>6, <1>18
  <2>2. tick.token # Whole => m \in tick.token
    BY <1>1, <1>18, <2>1 DEF IngestionInv, BatchInv, Kept, Ahead
  <2>3. At[m] <= tick.win.end
    BY <1>2, MessageAssumption, WindowAssumption DEF Settled, Window
  <2> QED
    BY <1>3, <2>1, <2>2, <2>3 DEF Remaining, Settled
<1>19. CASE page = left
  <2>1. Kept(got.source, got.win, {}, got.items)
    BY <1>13, <1>18, <1>19 DEF Kept
  <2>2. tick' = Fetched(got, TRUE)
    BY <1>11, <1>19
  <2> QED
    BY <1>1, <1>17, <2>1, <2>2, FetchEnds
<1>20. CASE page # left
  <2>1. token # Whole /\ token = left \ page /\ tick' = got
    BY <1>5, <1>7, <1>11, <1>20, WindowAssumption
  <2>2. Kept(got.source, got.win, got.token, got.items)
    BY <1>13, <1>18, <2>1 DEF Kept
  <2>3. \A i \in items : i[1] \notin token
    <3>1. ASSUME NEW i \in tick.items PROVE i[1] \notin left
      BY <1>1, <1>3, <1>5, <2>1, <1>20, <3>1 DEF IngestionInv, BatchInv
    <3> QED
      BY <1>6, <2>1, <3>1
  <2>4. Fetching(tick)'
    BY <1>1, <1>17, <2>1 DEF Fetching, WindowOf
  <2> QED
    BY <1>1, <1>13, <2>1, <2>2, <2>3, <2>4, FetchGoesOn
<1> QED
  BY <1>19, <1>20

--------------------------------------------------------------------------------
(* Processing: what is handled only grows, up to what the platform returns.*)

LEMMA HandlingGrows ==
  ASSUME IngestionInv, clock' = clock, ver' = ver, point' = point,
         \A m \in Message : handled[m] <= handled'[m] /\ handled'[m] <= ver[m],
         IngestionType', BatchInv'
  PROVE  IngestionInv'
<1>1. /\ handled \in [Message -> Version] /\ handled' \in [Message -> Version]
      /\ ver \in [Message -> Version]
  BY DEF IngestionInv, IngestionType
<1>2. \A m \in Message : handled[m] = ver[m] => handled'[m] = ver[m]
  BY <1>1 DEF Version
<1>3. BacklogInv'
  <2> SUFFICES ASSUME NEW s \in Source, point[s].backlog # NoBacklog
               PROVE  /\ Kept(s, point[s].backlog, Ahead(point[s].backlog.token), {})'
                      /\ \A c \in point[s].backlog.cursor : handled'[c[1]] >= c[2]
    BY DEF BacklogInv, Ahead
  <2>1. Kept(s, point[s].backlog, Ahead(point[s].backlog.token), {})'
    BY <1>2 DEF IngestionInv, BacklogInv, Kept, Settled, Ahead
  <2>2. ASSUME NEW c \in point[s].backlog.cursor PROVE handled'[c[1]] >= c[2]
    <3>1. c \in Snapshots
      BY <2>2 DEF IngestionInv, IngestionType, Window
    <3>2. c[1] \in Message /\ c[2] \in Nat
      BY <3>1 DEF Snapshots, Version
    <3>3. handled[c[1]] \in Nat /\ handled'[c[1]] \in Nat
      BY <1>1, <3>2 DEF Version
    <3>4. handled[c[1]] >= c[2]
      BY <2>2 DEF IngestionInv, BacklogInv
    <3> QED
      BY <3>2, <3>3, <3>4
  <2> QED
    BY <2>1, <2>2
<1> QED
  BY <1>2, <1>3 DEF IngestionInv, WindowInv, VersionInv, BehindInv

LEMMA OneProcessed ==
  ASSUME IngestionInv, ProcessNext
  PROVE  IngestionInv'
<1>1. /\ tick \in TickRow /\ tick.step = "process" /\ tick.items # tick.done
      /\ tick.done \subseteq tick.items /\ tick.items \in SUBSET Snapshots /\ tick.fuel \in Int
      /\ clock' = clock /\ ver' = ver /\ point' = point /\ turn' = turn
  BY DEF ProcessNext, IngestionInv, IngestionType, BatchInv, TickRow
<1>2. FirstOf(tick.items \ tick.done) \in tick.items \ tick.done
  BY <1>1, FirstIsThere
<1>3. PICK i \in tick.items \ tick.done : i = FirstOf(tick.items \ tick.done)
  BY <1>2
<1>4. PICK fuel \in Int : fuel = IF handled[i[1]] = i[2] THEN tick.fuel ELSE tick.fuel - 1
  BY <1>1
<1>5. PICK done : done = tick.done \cup {i}
  OBVIOUS
<1>6. /\ handled' = [handled EXCEPT ![i[1]] = i[2]]
      /\ tick' = [tick EXCEPT !.done = done, !.fuel = fuel]
  BY <1>3, <1>4, <1>5 DEF ProcessNext
<1>7. /\ i[1] \in Message /\ i[2] \in Version /\ i \in Snapshots
      /\ handled[i[1]] <= i[2] /\ i[2] <= ver[i[1]]
  BY <1>1, <1>3 DEF Snapshots, IngestionInv, BatchInv
<1>8. handled \in [Message -> Version] /\ ver \in [Message -> Version]
  BY DEF IngestionInv, IngestionType
<1>9. \A m \in Message : handled[m] <= handled'[m] /\ handled'[m] <= ver[m]
  BY <1>6, <1>7, <1>8 DEF IngestionInv, VersionInv, Version
<1>10. /\ tick' \in TickRow /\ tick'.step = "process" /\ tick'.done = done
       /\ tick'.on = tick.on /\ tick'.source = tick.source /\ tick'.win = tick.win
       /\ tick'.items = tick.items /\ tick'.token = tick.token
       /\ tick'.complete = tick.complete
  BY <1>1, <1>3, <1>5, <1>6 DEF TickRow
<1>11. \A j \in tick.items : j[1] = i[1] => j = i
  BY <1>1, <1>3 DEF IngestionInv, BatchInv
<1>12. ASSUME NEW j \in tick.items PROVE handled'[j[1]] <= j[2] /\ j[2] <= ver[j[1]]
  <2>1. handled[j[1]] <= j[2] /\ j[2] <= ver[j[1]] /\ j[1] \in Message /\ j[2] \in Nat
    BY <1>1 DEF IngestionInv, BatchInv, Snapshots, Version
  <2>2. CASE j = i
    BY <1>6, <1>7, <1>8, <2>1, <2>2
  <2>3. CASE j # i
    BY <1>6, <1>11, <2>1, <2>3
  <2> QED
    BY <2>2, <2>3
<1>13. \A j \in done : handled'[j[1]] = j[2]
  <2>1. \A j \in tick.done : handled[j[1]] = j[2] /\ j # i /\ j[1] # i[1]
    BY <1>1, <1>3, <1>11 DEF IngestionInv, BatchInv
  <2> QED
    BY <1>5, <1>6, <1>7, <1>8, <2>1
<1>14. done \subseteq tick.items
  BY <1>1, <1>3, <1>5
<1>15. PICK ahead : ahead = IF tick.complete THEN {} ELSE Ahead(tick.token)
  OBVIOUS
<1>16. Kept(tick.source, tick.win, ahead, tick.items)
  BY <1>1, <1>15 DEF IngestionInv, BatchInv
<1>17. \A m \in Message : handled[m] = ver[m] => handled'[m] = ver[m]
  BY <1>8, <1>9, <1>6, <1>7 DEF Version
<1>19. tick'.on /\ tick'.source \in Source /\ tick'.win = WindowOf(tick.source)'
  BY <1>1, <1>10 DEF IngestionInv, BatchInv, WindowOf
<1>20. BatchInv'
  <2>2. \A j, k \in tick'.items : j[1] = k[1] => j = k
    BY <1>1, <1>10 DEF IngestionInv, BatchInv
  <2>3. (IF tick.complete THEN {} ELSE Ahead(tick.token))' = ahead
    BY <1>10, <1>15 DEF Ahead
  <2>4. Kept(tick.source, tick.win, IF tick.complete THEN {} ELSE Ahead(tick.token),
             tick.items)'
    BY <1>1, <1>10, <1>16, <1>17, <2>3 DEF Kept, Settled
  <2> QED
    BY <1>1, <1>10, <1>12, <1>13, <1>14, <1>19, <2>2, <2>4 DEF BatchInv, WindowOf
<1>21. IngestionType'
  BY <1>1, <1>6, <1>7, <1>10 DEF IngestionInv, IngestionType
<1> QED
  BY <1>1, <1>9, <1>20, <1>21, HandlingGrows

LEMMA ProcessingFails ==
  ASSUME IngestionInv, ProcessFails
  PROVE  IngestionInv'
<1>1. /\ tick \in TickRow /\ tick.fuel \in Int /\ turn' \in [AllStages \cup {NoSource} -> Nat]
      /\ clock' = clock /\ ver' = ver /\ handled' = handled /\ point' = point
  BY DEF ProcessFails, IngestionInv, IngestionType, TickRow
<1>2. PICK fuel \in Int : fuel = tick.fuel - 1
  BY <1>1
<1>3. tick' = Abandon(tick, fuel)
  BY <1>2 DEF ProcessFails
<1> QED
  BY <1>1, <1>2, <1>3, AbandonRow, BetweenDrains

--------------------------------------------------------------------------------
(* Recording: a checkpoint moves on when its window is done, and otherwise *)
(* keeps the window with a token or a cursor that vouch for what is done.  *)

LEMMA CheckpointMoves ==
  ASSUME IngestionInv, NEW s \in Source,
         NEW p \in [last: Nat, backlog: {NoBacklog} \cup Window],
         point' = [point EXCEPT ![s] = p],
         clock' = clock, ver' = ver, handled' = handled, turn' = turn,
         tick' \in TickRow, tick'.step = "between", ~tick'.complete,
         p.last <= clock,
         p.backlog # NoBacklog =>
           /\ p.backlog.start = p.last - Overlap
           /\ p.last <= p.backlog.end /\ p.backlog.end <= clock
           /\ Kept(s, p.backlog, Ahead(p.backlog.token), {})
           /\ \A c \in p.backlog.cursor : handled[c[1]] >= c[2],
         \A m \in Message :
           s \in Homes[m] /\ ver[m] > 0 /\ At[m] < p.last - Overlap => handled[m] = ver[m]
  PROVE  IngestionInv'
<1>1. point \in [Source -> [last: Nat, backlog: {NoBacklog} \cup Window]]
  BY DEF IngestionInv, IngestionType
<1>2. point'[s] = p /\ \A z \in Source \ {s} : point'[z] = point[z]
  BY <1>1
<1>3. IngestionType'
  BY <1>1 DEF IngestionInv, IngestionType
<1>4. WindowInv'
  BY <1>2 DEF IngestionInv, WindowInv
<1>5. BacklogInv'
  <2> SUFFICES ASSUME NEW z \in Source, point'[z].backlog # NoBacklog
               PROVE  /\ Kept(z, point[z].backlog, Ahead(point[z].backlog.token), {})'
                      /\ \A c \in point'[z].backlog.cursor : handled[c[1]] >= c[2]
    BY DEF BacklogInv, Ahead
  <2>1. CASE z = s
    BY <1>2, <2>1 DEF Kept, Settled, Ahead
  <2>2. CASE z # s
    BY <1>2, <2>2 DEF IngestionInv, BacklogInv, Kept, Settled, Ahead
  <2> QED
    BY <2>1, <2>2
<1>6. BehindInv'
  BY <1>2 DEF IngestionInv, BehindInv
<1>7. BatchInv'
  BY DEF BatchInv
<1>8. VersionInv'
  BY DEF IngestionInv, VersionInv
<1> QED
  BY <1>3, <1>4, <1>5, <1>6, <1>7, <1>8 DEF IngestionInv

(* The drain under way as Record and FetchFails find it.                   *)
LEMMA DrainFacts ==
  ASSUME IngestionInv, tick.step # "between"
  PROVE  /\ tick \in TickRow /\ tick.source \in Source /\ tick.win = WindowOf(tick.source)
         /\ tick.win \in Window /\ tick.token \in Token /\ tick.items \in SUBSET Snapshots
         /\ tick.done \in SUBSET Snapshots /\ tick.stages \in Seq(AllStages)
         /\ tick.left \in Seq(Source) /\ tick.fuel \in Int
         /\ tick.win.start = point[tick.source].last - Overlap
         /\ point[tick.source].last <= tick.win.end /\ tick.win.end <= clock
         /\ point[tick.source].last \in Nat /\ point[tick.source].last <= clock
         /\ point[tick.source] \in [last: Nat, backlog: {NoBacklog} \cup Window]
<1>1. tick \in TickRow /\ tick.source \in Source /\ tick.win = WindowOf(tick.source)
  BY DEF IngestionInv, IngestionType, BatchInv
<1> QED
  BY <1>1, WindowFacts DEF IngestionInv, IngestionType, TickRow

(* What the window of a drain vouches for, before any of its pages.        *)
LEMMA WindowVouches ==
  ASSUME IngestionInv, NEW s \in Source
  PROVE  Kept(s, WindowOf(s), Ahead(WindowOf(s).token), {})
<1>1. CASE point[s].backlog # NoBacklog
  BY <1>1 DEF IngestionInv, BacklogInv, WindowOf
<1>2. CASE point[s].backlog = NoBacklog
  <2>1. WindowOf(s).token = Whole
    BY <1>2 DEF WindowOf
  <2> QED
    BY <2>1 DEF Kept, Settled, Ahead
<1> QED
  BY <1>1, <1>2

(* Every page fetched and every message processed: nothing of the window   *)
(* that could change no more is left.                                      *)
LEMMA WindowDone ==
  ASSUME IngestionInv, tick.step = "process", tick.items = tick.done, tick.complete,
         NEW m \in Message, tick.source \in Homes[m], ver[m] > 0,
         At[m] < tick.win.end - Overlap
  PROVE  handled[m] = ver[m]
<1>1. /\ tick.source \in Source /\ tick.win.start = point[tick.source].last - Overlap
      /\ tick.win \in Window /\ point[tick.source].last \in Nat
  BY DrainFacts
<1>2. At[m] \in Nat /\ Overlap \in Nat /\ tick.win.end \in Nat /\ tick.win.start \in Int
  BY <1>1, MessageAssumption, WindowAssumption DEF Window
<1>3. CASE At[m] < tick.win.start
  BY <1>1, <1>3 DEF IngestionInv, BehindInv
<1>4. CASE tick.win.start <= At[m]
  <2>1. m \in Settled(tick.source, tick.win)
    BY <1>2, <1>4 DEF Settled
  <2>2. handled[m] = ver[m] \/ <<m, ver[m]>> \in tick.items
    BY <2>1 DEF IngestionInv, BatchInv, Kept
  <2>3. \A i \in tick.items : handled[i[1]] = i[2]
    BY DEF IngestionInv, BatchInv
  <2> QED
    BY <2>2, <2>3
<1> QED
  BY <1>2, <1>3, <1>4

(* The backlog an unfinished drain leaves.                                 *)
LEMMA BacklogVouches ==
  ASSUME IngestionInv, tick.step = "process", ~(tick.items = tick.done /\ tick.complete)
  PROVE  /\ Backlog(tick) \in Window
         /\ Backlog(tick).start = tick.win.start /\ Backlog(tick).end = tick.win.end
         /\ Kept(tick.source, Backlog(tick), Ahead(Backlog(tick).token), {})
         /\ \A c \in Backlog(tick).cursor : handled[c[1]] >= c[2]
<1>1. /\ tick.source \in Source /\ tick.win = WindowOf(tick.source) /\ tick.win \in Window
      /\ tick.token \in Token /\ tick.done \in SUBSET Snapshots
      /\ tick.items \in SUBSET Snapshots
  BY DrainFacts
<1>2. \A i \in tick.done : handled[i[1]] = i[2]
  BY DEF IngestionInv, BatchInv
<1>3. CASE tick.items # tick.done
  <2>1. PICK done \in SUBSET Snapshots : done = tick.done
    BY <1>1
  <2>2. PICK win \in Window : win = tick.win
    BY <1>1
  <2>3. PICK b : b = Backlog(tick)
    OBVIOUS
  <2>4. b = [win EXCEPT !.cursor = done]
    BY <1>3, <2>1, <2>2, <2>3 DEF Backlog
  <2>5. /\ b \in Window /\ b.start = win.start /\ b.end = win.end
        /\ b.token = win.token /\ b.cursor = done
    BY <2>4 DEF Window
  <2>6. Kept(tick.source, win, Ahead(win.token), {})
    BY <1>1, <2>2, WindowVouches
  <2>7. Kept(tick.source, b, Ahead(b.token), {})
    BY <2>5, <2>6 DEF Kept, Settled
  <2>8. \A c \in done : handled[c[1]] >= c[2]
    <3> SUFFICES ASSUME NEW c \in done PROVE handled[c[1]] >= c[2]
      OBVIOUS
    <3>1. c \in Snapshots /\ handled[c[1]] = c[2]
      BY <1>2, <2>1
    <3>2. c[2] \in Nat
      BY <3>1 DEF Snapshots, Version
    <3> QED
      BY <3>1, <3>2
  <2> QED
    BY <2>2, <2>3, <2>5, <2>7, <2>8
<1>4. CASE tick.items = tick.done
  <2>1. PICK token \in Token : token = tick.token
    BY <1>1
  <2>2. PICK win \in Window : win = tick.win
    BY <1>1
  <2>3. PICK b : b = Backlog(tick)
    OBVIOUS
  <2>4. b = [win EXCEPT !.token = token, !.cursor = {}]
    BY <1>4, <2>1, <2>2, <2>3 DEF Backlog
  <2>5. /\ b \in Window /\ b.start = win.start /\ b.end = win.end
        /\ b.token = token /\ b.cursor = {}
    BY <2>4 DEF Window
  <2>6. Kept(tick.source, win, Ahead(token), tick.items)
    BY <1>4, <2>1, <2>2 DEF IngestionInv, BatchInv
  <2>7. \A m \in Settled(tick.source, win) : <<m, ver[m]>> \in tick.items => handled[m] = ver[m]
    BY <1>2, <1>4
  <2>8. Kept(tick.source, b, Ahead(b.token), {})
    BY <2>5, <2>6, <2>7 DEF Kept, Settled
  <2> QED
    BY <2>2, <2>3, <2>5, <2>8
<1> QED
  BY <1>3, <1>4

LEMMA LeftRow ==
  ASSUME NEW t \in TickRow, NEW left \in Seq(Source),
         tick' = [t EXCEPT !.left = left]
  PROVE  tick' \in TickRow /\ tick'.step = t.step /\ tick'.complete = t.complete
BY DEF TickRow

LEMMA Recorded ==
  ASSUME IngestionInv, Record
  PROVE  IngestionInv'
<1> DEFINE s == tick.source
           whole == tick.items = tick.done /\ tick.complete
<1>1. /\ tick.step = "process" /\ clock' = clock /\ ver' = ver /\ handled' = handled
      /\ turn' = turn
  BY DEF Record
<1>2. /\ tick \in TickRow /\ s \in Source /\ tick.left \in Seq(Source) /\ tick.fuel \in Int
      /\ tick.win \in Window /\ tick.win.start = point[s].last - Overlap
      /\ point[s].last <= tick.win.end /\ tick.win.end <= clock /\ point[s].last <= clock
      /\ point[s].last \in Nat
      /\ point[s] \in [last: Nat, backlog: {NoBacklog} \cup Window]
  BY <1>1, DrainFacts
<1>3. tick' \in TickRow /\ tick'.step = "between" /\ ~tick'.complete
  <2>1. PICK left \in Seq(Source) : tick' = [Abandon(tick, tick.fuel) EXCEPT !.left = left]
    <3> DEFINE exhausted == \/ tick.items # tick.done
                            \/ /\ ~tick.complete /\ tick.pages < MaxPages
                               /\ Cardinality(tick.items) < MaxMessages
               left == IF exhausted THEN <<>> ELSE tick.left
    <3>1. left \in Seq(Source)
      BY <1>2
    <3>2. tick' = [Abandon(tick, tick.fuel) EXCEPT !.left = left]
      BY DEF Record
    <3> HIDE DEF left
    <3> QED
      BY <3>1, <3>2
  <2>2. PICK t : t = Abandon(tick, tick.fuel)
    OBVIOUS
  <2>3. t \in TickRow /\ t.step = "between" /\ ~t.complete
    BY <1>2, <2>2, AbandonRow
  <2>4. tick' = [t EXCEPT !.left = left]
    BY <2>1, <2>2
  <2> QED
    BY <2>3, <2>4, LeftRow
<1>4. CASE whole
  <2>1. PICK p : p = [last |-> tick.win.end, backlog |-> NoBacklog]
    OBVIOUS
  <2>2. point' = [point EXCEPT ![s] = p]
    BY <1>4, <2>1 DEF Record
  <2>3. p \in [last: Nat, backlog: {NoBacklog} \cup Window] /\ p.backlog = NoBacklog
        /\ p.last = tick.win.end
    BY <1>2, <2>1 DEF Window
  <2>4. \A m \in Message : s \in Homes[m] /\ ver[m] > 0 /\ At[m] < p.last - Overlap
                             => handled[m] = ver[m]
    BY <1>1, <1>4, <2>3, WindowDone
  <2> QED
    BY <1>1, <1>2, <1>3, <2>2, <2>3, <2>4, CheckpointMoves
<1>5. CASE ~whole
  <2>1. PICK b : b = Backlog(tick)
    OBVIOUS
  <2>2. /\ b \in Window /\ b.start = tick.win.start /\ b.end = tick.win.end
        /\ Kept(s, b, Ahead(b.token), {}) /\ \A c \in b.cursor : handled[c[1]] >= c[2]
    BY <1>1, <1>5, <2>1, BacklogVouches
  <2>3. PICK old \in [last: Nat, backlog: {NoBacklog} \cup Window] : old = point[s]
    BY <1>2
  <2>4. PICK p : p = [old EXCEPT !.backlog = b]
    OBVIOUS
  <2>5. point' = [point EXCEPT ![s] = p]
    BY <1>5, <2>1, <2>3, <2>4 DEF Record
  <2>6. /\ p \in [last: Nat, backlog: {NoBacklog} \cup Window] /\ p.backlog = b
        /\ p.last = point[s].last
    BY <2>2, <2>3, <2>4
  <2>7. \A m \in Message : s \in Homes[m] /\ ver[m] > 0 /\ At[m] < p.last - Overlap
                             => handled[m] = ver[m]
    BY <1>2, <2>6 DEF IngestionInv, BehindInv
  <2>8. /\ b.start = p.last - Overlap /\ p.last <= b.end /\ b.end <= clock /\ p.last <= clock
    BY <1>2, <2>2, <2>6
  <2> QED
    BY <1>1, <1>2, <1>3, <2>2, <2>5, <2>6, <2>7, <2>8, CheckpointMoves
<1> QED
  BY <1>4, <1>5

(* A fetch that fails leaves the checkpoint, or starts its window again.   *)
LEMMA FetchFailed ==
  ASSUME IngestionInv, FetchFails
  PROVE  IngestionInv'
<1> DEFINE s == tick.source
<1>1. /\ tick.step = "fetch" /\ clock' = clock /\ ver' = ver /\ handled' = handled
      /\ turn' = turn
  BY DEF FetchFails
<1>2. /\ tick \in TickRow /\ s \in Source /\ tick.win = WindowOf(s) /\ tick.fuel \in Int
      /\ tick.win \in Window /\ tick.win.start = point[s].last - Overlap
      /\ point[s].last <= tick.win.end /\ tick.win.end <= clock /\ point[s].last <= clock
      /\ point[s].last \in Nat
      /\ point[s] \in [last: Nat, backlog: {NoBacklog} \cup Window]
  BY <1>1, DrainFacts
<1>3. turn \in [AllStages \cup {NoSource} -> Nat]
  BY DEF IngestionInv, IngestionType
<1>4. tick' \in TickRow /\ tick'.step = "between" /\ ~tick'.complete
  <2>1. PICK fuel \in {0, tick.fuel - 1} : tick' = Abandon(tick, fuel)
    BY DEF FetchFails
  <2>2. fuel \in Int
    BY <1>2, <2>1
  <2> QED
    BY <1>2, <2>1, <2>2, AbandonRow
<1>5. CASE point' = point
  BY <1>1, <1>3, <1>4, <1>5, BetweenDrains
<1>6. CASE tick.win.token # Whole /\ point' = [point EXCEPT ![s] = ResetBacklog(point[s])]
  <2>1. point[s].backlog # NoBacklog /\ tick.win = point[s].backlog
    BY <1>2, <1>6 DEF WindowOf
  <2>2. PICK win \in Window : win = tick.win
    BY <1>2
  <2>3. PICK b : b = [win EXCEPT !.token = Whole, !.cursor = {}]
    OBVIOUS
  <2>4. PICK old \in [last: Nat, backlog: {NoBacklog} \cup Window] : old = point[s]
    BY <1>2
  <2>5. PICK p : p = [old EXCEPT !.backlog = b]
    OBVIOUS
  <2>6. /\ b \in Window /\ b.start = win.start /\ b.end = win.end
        /\ b.token = Whole /\ b.cursor = {}
    BY <2>3 DEF Window, Token
  <2>7. old.backlog = win
    BY <2>1, <2>2, <2>4
  <2>8. p = ResetBacklog(old)
    BY <2>3, <2>5, <2>7 DEF ResetBacklog
  <2>9. /\ p \in [last: Nat, backlog: {NoBacklog} \cup Window] /\ p.backlog = b
        /\ p.last = point[s].last
    BY <2>4, <2>5, <2>6
  <2>10. point' = [point EXCEPT ![s] = p]
    BY <1>6, <2>4, <2>8
  <2>11. Kept(s, b, Ahead(b.token), {}) /\ \A c \in b.cursor : handled[c[1]] >= c[2]
    BY <2>6 DEF Kept, Settled, Ahead
  <2>12. \A m \in Message : s \in Homes[m] /\ ver[m] > 0 /\ At[m] < p.last - Overlap
                             => handled[m] = ver[m]
    BY <1>2, <2>9 DEF IngestionInv, BehindInv
  <2>13. /\ b.start = p.last - Overlap /\ p.last <= b.end /\ b.end <= clock
         /\ p.last <= clock
    BY <1>2, <2>2, <2>6, <2>9
  <2> QED
    BY <1>1, <1>2, <1>4, <2>9, <2>10, <2>11, <2>12, <2>13, CheckpointMoves
<1>7. CASE tick.pages = 0 /\ tick.win.token # Whole
  <2>1. point' = [point EXCEPT ![s] = ResetBacklog(point[s])]
    BY <1>7 DEF FetchFails
  <2> QED
    BY <1>6, <1>7, <2>1
<1>8. CASE ~(tick.pages = 0 /\ tick.win.token # Whole)
  <2>1. point' = point
    BY <1>8 DEF FetchFails
  <2> QED
    BY <1>5, <2>1
<1> QED
  BY <1>7, <1>8

--------------------------------------------------------------------------------
(* The platform: time passes between ticks, and what changes in a message  *)
(* changes too soon after it was sent to be behind the end of any window.  *)

LEMMA TimePasses ==
  ASSUME IngestionInv, Pass
  PROVE  IngestionInv'
<1>1. /\ ~tick.on /\ clock' = clock + 1 /\ ver' = ver /\ handled' = handled
      /\ point' = point /\ turn' = turn /\ tick' = tick /\ clock \in Nat
  BY DEF Pass, IngestionInv, IngestionType
<1>2. PICK later \in Nat : later = clock + 1 /\ clock <= later
  BY <1>1
<1>3. clock' = later
  BY <1>1, <1>2
<1>4. IngestionType'
  BY <1>1, <1>3 DEF IngestionInv, IngestionType
<1>5. WindowInv'
  <2> SUFFICES ASSUME NEW s \in Source
               PROVE  /\ point[s].last <= later
                      /\ point[s].backlog # NoBacklog =>
                           /\ point[s].backlog.start = point[s].last - Overlap
                           /\ point[s].last <= point[s].backlog.end
                           /\ point[s].backlog.end <= later
    BY <1>1, <1>3 DEF WindowInv
  <2>1. point[s] \in [last: Nat, backlog: {NoBacklog} \cup Window]
    BY DEF IngestionInv, IngestionType
  <2>2. point[s].last \in Nat /\ (point[s].backlog # NoBacklog => point[s].backlog.end \in Nat)
    BY <2>1 DEF Window
  <2> QED
    BY <1>1, <1>2, <2>2 DEF IngestionInv, WindowInv
<1>6. tick.step = "between"
  BY <1>1 DEF IngestionInv, IngestionType, TickRow, BatchInv
<1>7. BatchInv'
  BY <1>1, <1>6 DEF IngestionInv, BatchInv
<1> QED
  BY <1>1, <1>4, <1>5, <1>7 DEF IngestionInv, VersionInv, BacklogInv, BehindInv, Kept,
                                Settled, Ahead

LEMMA MessageShows ==
  ASSUME IngestionInv, NEW m \in Message, Show(m)
  PROVE  IngestionInv'
<1>1. /\ clock <= At[m] + Overlap /\ clock' = clock /\ handled' = handled
      /\ point' = point /\ turn' = turn /\ tick' = tick
      /\ tick.on => tick.step = "fetch"
      /\ ver' = [ver EXCEPT ![m] = ver[m] + 1] /\ ver[m] \in {0, 1}
  BY DEF Show
<1>2. /\ clock \in Nat /\ ver \in [Message -> Version] /\ handled \in [Message -> Version]
      /\ At[m] \in Nat /\ Overlap \in Nat
  BY MessageAssumption, WindowAssumption DEF IngestionInv, IngestionType
<1>3. PICK v \in Version : v = ver[m] + 1 /\ ver[m] <= v
  BY <1>1 DEF Version
<1>4. ver' = [ver EXCEPT ![m] = v]
  BY <1>1, <1>3
<1>5. ver' \in [Message -> Version] /\ \A n \in Message : n # m => ver'[n] = ver[n]
  BY <1>2, <1>4
<1>6. \A n \in Message : ver[n] <= ver'[n]
  BY <1>2, <1>3, <1>4 DEF Version
<1>7. IngestionType' /\ WindowInv'
  BY <1>1, <1>5 DEF IngestionInv, IngestionType, WindowInv
<1>8. VersionInv'
  <2> SUFFICES ASSUME NEW n \in Message PROVE handled[n] <= ver'[n]
    BY <1>1 DEF VersionInv
  <2>1. handled[n] \in Nat /\ ver[n] \in Nat /\ ver'[n] \in Nat
    BY <1>2, <1>5 DEF Version
  <2> QED
    BY <1>6, <2>1 DEF IngestionInv, VersionInv
<1>9. ASSUME NEW win \in Window, win.end <= clock, NEW s,
             NEW n \in Settled(s, win)'
      PROVE  n \in Settled(s, win) /\ ver'[n] = ver[n]
  <2>1. /\ n \in Message /\ s \in Homes[n] /\ ver'[n] > 0
        /\ win.start <= At[n] /\ At[n] + Overlap < win.end
    BY <1>9 DEF Settled
  <2>2. win.end \in Nat /\ At[n] \in Nat
    BY <2>1, MessageAssumption DEF Window
  <2>3. n # m
    BY <1>1, <1>2, <1>9, <2>1, <2>2
  <2> QED
    BY <1>5, <2>1, <2>3 DEF Settled
<1>10. ASSUME NEW win \in Window, win.end <= clock, NEW s, NEW ahead, NEW items,
              Kept(s, win, ahead, items)
       PROVE  Kept(s, win, ahead, items)'
  BY <1>1, <1>9, <1>10 DEF Kept
<1>11. BacklogInv'
  <2> SUFFICES ASSUME NEW s \in Source, point[s].backlog # NoBacklog
               PROVE  /\ Kept(s, point[s].backlog, Ahead(point[s].backlog.token), {})'
                      /\ \A c \in point[s].backlog.cursor : handled[c[1]] >= c[2]
    BY <1>1 DEF BacklogInv
  <2>1. PICK win \in Window : win = point[s].backlog /\ win.end <= clock
    BY DEF IngestionInv, IngestionType, WindowInv
  <2>2. PICK ahead : ahead = Ahead(win.token)
    OBVIOUS
  <2>3. Kept(s, win, ahead, {})
    BY <2>1, <2>2 DEF IngestionInv, BacklogInv
  <2>4. Kept(s, win, ahead, {})'
    BY <1>10, <2>1, <2>3
  <2> QED
    BY <1>1, <2>1, <2>2, <2>4 DEF IngestionInv, BacklogInv, Ahead
<1>12. BehindInv'
  <2> SUFFICES ASSUME NEW s \in Source, NEW n \in Message, s \in Homes[n], ver'[n] > 0,
                      At[n] < point[s].last - Overlap
               PROVE  handled[n] = ver'[n]
    BY <1>1 DEF BehindInv
  <2>1. point[s].last \in Nat /\ point[s].last <= clock /\ At[n] \in Nat
    BY WindowFacts, MessageAssumption DEF IngestionInv
  <2>2. n # m
    BY <1>1, <1>2, <2>1
  <2> QED
    BY <1>5, <2>2 DEF IngestionInv, BehindInv
<1>13. BatchInv'
  <2>1. tick.step # "process"
    BY <1>1 DEF IngestionInv, BatchInv
  <2>2. CASE tick.step = "between"
    BY <1>1, <2>2 DEF IngestionInv, BatchInv
  <2>3. CASE tick.step # "between"
    <3>1. /\ tick.source \in Source /\ tick.win \in Window /\ tick.win.end <= clock
          /\ tick.items \in SUBSET Snapshots
      BY <2>3, DrainFacts
    <3>2. PICK ahead : ahead = IF tick.complete THEN {} ELSE Ahead(tick.token)
      OBVIOUS
    <3>3. Kept(tick.source, tick.win, ahead, tick.items)
      BY <2>3, <3>2 DEF IngestionInv, BatchInv
    <3>4. PICK s, win, items : s = tick.source /\ win = tick.win /\ items = tick.items
      OBVIOUS
    <3>5. Kept(s, win, ahead, items)'
      BY <1>10, <3>1, <3>3, <3>4
    <3>6. \A i \in tick.items : handled[i[1]] <= i[2] /\ i[2] <= ver'[i[1]]
      <4> SUFFICES ASSUME NEW i \in tick.items
                   PROVE  handled[i[1]] <= i[2] /\ i[2] <= ver'[i[1]]
        OBVIOUS
      <4>1. i \in Snapshots /\ handled[i[1]] <= i[2] /\ i[2] <= ver[i[1]]
        BY <2>3, <3>1 DEF IngestionInv, BatchInv
      <4>2. i[1] \in Message /\ i[2] \in Nat
        BY <4>1 DEF Snapshots, Version
      <4>3. ver[i[1]] \in Nat /\ ver'[i[1]] \in Nat /\ ver[i[1]] <= ver'[i[1]]
        BY <1>2, <1>5, <1>6, <4>2 DEF Version
      <4> QED
        BY <4>1, <4>2, <4>3
    <3>7. (IF tick.complete THEN {} ELSE Ahead(tick.token))' = ahead
      BY <1>1, <3>2 DEF Ahead
    <3>8. Kept(tick.source, tick.win, IF tick.complete THEN {} ELSE Ahead(tick.token),
               tick.items)'
      BY <1>1, <3>4, <3>5, <3>7 DEF Kept, Settled
    <3>9. /\ tick.on /\ tick.win = WindowOf(tick.source)
          /\ \A i, j \in tick.items : i[1] = j[1] => i = j
      BY <2>3 DEF IngestionInv, BatchInv
    <3> QED
      BY <1>1, <2>1, <3>1, <3>6, <3>8, <3>9 DEF IngestionInv, BatchInv, WindowOf
  <2> QED
    BY <2>2, <2>3
<1> QED
  BY <1>7, <1>8, <1>11, <1>12, <1>13 DEF IngestionInv

--------------------------------------------------------------------------------
LEMMA IngestionStarts == Init => IngestionInv
<1> SUFFICES ASSUME Init PROVE IngestionInv
  OBVIOUS
<1>1. IngestionType
  BY IdleRow DEF Init, IngestionType, Version
<1>2. WindowInv /\ VersionInv /\ BacklogInv /\ BehindInv
  <2>1. \A s \in Source : point[s].last = 0 /\ point[s].backlog = NoBacklog
    BY DEF Init
  <2>2. \A m \in Message : ver[m] = 0 /\ handled[m] = 0
    BY DEF Init
  <2>3. clock = 0
    BY DEF Init
  <2> QED
    BY <2>1, <2>2, <2>3 DEF WindowInv, VersionInv, BacklogInv, BehindInv
<1>3. BatchInv
  BY IdleRow DEF Init, BatchInv, Idle
<1> QED
  BY <1>1, <1>2, <1>3 DEF IngestionInv

LEMMA IngestionSteps == IngestionInv /\ [Next]_vars => IngestionInv'
<1> SUFFICES ASSUME IngestionInv, [Next]_vars PROVE IngestionInv'
  OBVIOUS
<1>1. CASE UNCHANGED vars
  <2>1. IngestionType' /\ BatchInv'
    BY <1>1 DEF vars, IngestionInv, IngestionType, BatchInv, WindowOf, Kept, Settled, Ahead
  <2> QED
    BY <1>1, <2>1, TickAlone DEF vars
<1>2. CASE Work \/ FetchFails \/ ProcessFails \/ Crash
  BY <1>2, TickBegins, WindowOpens, PageFetched, DrainStops, OneProcessed, Recorded,
     FetchFailed, ProcessingFails DEF Work
<1>3. CASE Pass \/ \E m \in Message : Show(m)
  BY <1>3, TimePasses, MessageShows
<1> QED
  BY <1>1, <1>2, <1>3 DEF Next

(* What a source's checkpoint has left behind for good was processed in    *)
(* its last version: whatever pages, caps, budgets, cursors, failed        *)
(* fetches, interrupted batches and crashes the windows went through.      *)
THEOREM NothingLeftBehind == Spec => []NothingSkipped
<1>1. IngestionInv => NothingSkipped
  BY WindowFacts DEF IngestionInv, BehindInv, NothingSkipped, Behind
<1> QED
  BY <1>1, IngestionStarts, IngestionSteps, PTL DEF Spec

WindowsStayStep ==
  \A s \in Source :
    LET old == point[s].backlog  new == point'[s].backlog IN
    /\ point'[s].last >= point[s].last
    /\ (old # NoBacklog /\ new # old) =>
         \/ new = NoBacklog /\ point'[s].last = old.end
         \/ new # NoBacklog /\ new.start = old.start /\ new.end = old.end

LEMMA WindowReplaced ==
  ASSUME IngestionInv, Record
  PROVE  WindowsStayStep
<1>1. /\ tick.step = "process"
      /\ tick.source \in Source /\ tick.win = WindowOf(tick.source) /\ tick.win \in Window
      /\ point[tick.source].last <= tick.win.end
      /\ point \in [Source -> [last: Nat, backlog: {NoBacklog} \cup Window]]
  BY DrainFacts DEF Record, IngestionInv, IngestionType
<1> SUFFICES ASSUME NEW s \in Source
             PROVE  /\ point'[s].last >= point[s].last
                    /\ (point[s].backlog # NoBacklog /\ point'[s].backlog # point[s].backlog) =>
                         \/ point'[s].backlog = NoBacklog /\ point'[s].last = point[s].backlog.end
                         \/ /\ point'[s].backlog # NoBacklog
                            /\ point'[s].backlog.start = point[s].backlog.start
                            /\ point'[s].backlog.end = point[s].backlog.end
  BY DEF WindowsStayStep
<1>2. point[s].last \in Nat /\ tick.win.end \in Nat
  BY <1>1 DEF Window
<1>3. CASE s # tick.source
  <2>1. point'[s] = point[s]
    BY <1>1, <1>3 DEF Record
  <2> QED
    BY <1>2, <2>1
<1>4. CASE s = tick.source /\ tick.items = tick.done /\ tick.complete
  <2>1. point'[s] = [last |-> tick.win.end, backlog |-> NoBacklog]
    BY <1>1, <1>4 DEF Record
  <2>2. point[s].backlog # NoBacklog => tick.win = point[s].backlog
    BY <1>1, <1>4 DEF WindowOf
  <2> QED
    BY <1>1, <1>2, <1>4, <2>1, <2>2
<1>5. CASE s = tick.source /\ ~(tick.items = tick.done /\ tick.complete)
  <2>1. PICK b : b = Backlog(tick)
    OBVIOUS
  <2>2. b \in Window /\ b.start = tick.win.start /\ b.end = tick.win.end
    BY <1>1, <1>5, <2>1, BacklogVouches
  <2>3. PICK old \in [last: Nat, backlog: {NoBacklog} \cup Window] : old = point[s]
    BY <1>1
  <2>4. point'[s] = [old EXCEPT !.backlog = b]
    BY <1>1, <1>5, <2>1, <2>3 DEF Record
  <2>5. point'[s].last = old.last /\ point'[s].backlog = b
    BY <2>3, <2>4
  <2>6. b # NoBacklog
    BY <2>2, WindowAssumption
  <2>7. point[s].backlog # NoBacklog => tick.win = point[s].backlog
    BY <1>1, <1>5 DEF WindowOf
  <2> QED
    BY <1>2, <2>2, <2>3, <2>5, <2>6, <2>7
<1> QED
  BY <1>3, <1>4, <1>5

LEMMA WindowReset ==
  ASSUME IngestionInv, FetchFails
  PROVE  WindowsStayStep
<1>1. /\ tick.step = "fetch"
      /\ tick.source \in Source /\ tick.win = WindowOf(tick.source) /\ tick.win \in Window
      /\ point \in [Source -> [last: Nat, backlog: {NoBacklog} \cup Window]]
  BY DrainFacts DEF FetchFails, IngestionInv, IngestionType
<1>2. point' = IF tick.pages = 0 /\ tick.win.token # Whole
               THEN [point EXCEPT ![tick.source] = ResetBacklog(point[tick.source])]
               ELSE point
  BY DEF FetchFails
<1>3. ASSUME NEW s \in Source
      PROVE  \/ point'[s] = point[s]
             \/ /\ point[s].backlog # NoBacklog /\ point'[s].backlog \in Window
                /\ point'[s].last = point[s].last
                /\ point'[s].backlog.start = point[s].backlog.start
                /\ point'[s].backlog.end = point[s].backlog.end
  <2>1. CASE point'[s] # point[s]
    <3>1. /\ s = tick.source /\ tick.win.token # Whole
          /\ point'[s] = ResetBacklog(point[s])
      BY <1>1, <1>2, <2>1
    <3>2. point[s].backlog # NoBacklog /\ tick.win = point[s].backlog
      BY <1>1, <3>1 DEF WindowOf
    <3>3. PICK win \in Window : win = point[s].backlog
      BY <1>1, <3>2
    <3>4. PICK b : b = [win EXCEPT !.token = Whole, !.cursor = {}]
      OBVIOUS
    <3>5. b \in Window /\ b.start = win.start /\ b.end = win.end
      BY <3>4 DEF Window, Token
    <3>6. PICK old \in [last: Nat, backlog: {NoBacklog} \cup Window] : old = point[s]
      BY <1>1
    <3>7. point'[s] = [old EXCEPT !.backlog = b]
      BY <3>1, <3>3, <3>4, <3>6 DEF ResetBacklog
    <3>8. point'[s].backlog = b /\ point'[s].last = old.last
      BY <3>6, <3>7
    <3> QED
      BY <3>2, <3>3, <3>5, <3>6, <3>8
  <2> QED
    BY <2>1
<1>4. \A s \in Source : point[s].last \in Nat
  BY <1>1
<1> QED
  BY <1>3, <1>4, WindowAssumption DEF WindowsStayStep

(* Only a complete drain of a backlog's window replaces it: no failure,    *)
(* crash or later tick moves its start or end, and the end of the last     *)
(* success never goes back.                                                *)
THEOREM BacklogsKeepWindows == Spec => WindowsStay
<1>1. IngestionInv /\ [Next]_vars => [WindowsStayStep]_vars
  <2> SUFFICES ASSUME IngestionInv, Next PROVE WindowsStayStep
    OBVIOUS
  <2>1. \A s \in Source : point[s] \in [last: Nat, backlog: {NoBacklog} \cup Window]
    BY DEF IngestionInv, IngestionType
  <2>2. CASE point' = point
    <3>1. \A s \in Source : point[s].last \in Nat
      BY <2>1
    <3> QED
      BY <2>2, <3>1 DEF WindowsStayStep
  <2>3. CASE Record
    BY <2>3, WindowReplaced
  <2>4. CASE FetchFails
    BY <2>4, WindowReset
  <2> QED
    BY <2>2, <2>3, <2>4 DEF Next, Work, Pass, Show, BeginTick, BeginStage, EndTick, OpenWindow,
                            FetchPage, StopFetching, ProcessNext, ProcessFails, Crash
<1>2. (Init => IngestionInv) /\ (IngestionInv /\ [Next]_vars => IngestionInv')
  BY IngestionStarts, IngestionSteps
<1>3. [WindowsStayStep]_vars
        => [\A s \in Source :
              LET old == point[s].backlog  new == point'[s].backlog IN
              /\ point'[s].last >= point[s].last
              /\ (old # NoBacklog /\ new # old) =>
                   \/ new = NoBacklog /\ point'[s].last = old.end
                   \/ new # NoBacklog /\ new.start = old.start /\ new.end = old.end]_vars
  BY DEF WindowsStayStep
<1> QED
  BY <1>1, <1>2, <1>3, PTL DEF Spec, WindowsStay
===============================================================================
