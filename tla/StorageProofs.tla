----------------------------- MODULE StorageProofs -----------------------------
(***************************************************************************)
(* Proofs about what the system keeps on disk: scrubbed content, the       *)
(* migration of the store, the log files, resource files, the product      *)
(* policy and the bot membership facts.                                    *)
(***************************************************************************)
EXTENDS Resources, LogFiles, Migration, Retention, SequenceTheorems,
        FiniteSetTheorems, WellFoundedInduction, TLAPS

------------------------------------------------------------------------------
(* Retention.  Every use that reaches the agent, an approval or a dispatch *)
(* is guarded by the content it uses, so the property is inductive.        *)

(* What Outcome records of a use is what it was asked to. *)
LEMMA OutcomeUses ==
  ASSUME NEW asked, Outcome(asked)
  PROVE  used' = used \cup {<<asked, content["message"]>>}
BY DEF Outcome, Uses

(* No step of a retention makes a use of scrubbed content. *)
LEMMA RetentionStep ==
  ASSUME PrunedIsInert, [RetentionNext]_retentionVars
  PROVE  PrunedIsInert'
<1>1. CASE RunStage
  <2>1. used' = used \cup {<<"asked", content["message"]>>}
    BY <1>1, OutcomeUses DEF RunStage
  <2> QED
    BY <2>1 DEF PrunedIsInert
<1>2. CASE RunAgain
  <2>1. used' = used \/ (Normalizes /\ Outcome("retried"))
    BY <1>2 DEF RunAgain
  <2>2. used' = used \/ used' = used \cup {<<"retried", "whole">>}
    BY <2>1, OutcomeUses DEF Normalizes
  <2> QED
    BY <2>2 DEF PrunedIsInert
<1>3. CASE Grant
  <2>1. used' = used \cup {<<"granted", "whole">>}
    BY <1>3 DEF Grant, Answerable, Uses
  <2> QED
    BY <2>1 DEF PrunedIsInert
<1>4. CASE Post
  <2>1. used' = used \/ used' = used \cup {<<"sent", "whole">>}
    BY <1>4 DEF Post, Uses
  <2> QED
    BY <2>1 DEF PrunedIsInert
<1>5. CASE RequestAgain \/ Refuse \/ TimeOut \/ PostAgain
  BY <1>5 DEF RequestAgain, Refuse, TimeOut, PostAgain, PrunedIsInert
<1>6. CASE Renew \/ EndWatch \/ Describe \/ PassDay \/ Scrub
  BY <1>6 DEF Renew, EndWatch, Describe, PassDay, Scrub, PrunedIsInert
<1>7. CASE UNCHANGED retentionVars
  BY <1>7 DEF retentionVars, PrunedIsInert
<1> QED
  BY <1>1, <1>2, <1>3, <1>4, <1>5, <1>6, <1>7 DEF RetentionNext

(* Whatever Days, FeedbackDays and Window are and however uses, prunings   *)
(* and the operator's commands interleave, no retry, approval or dispatch  *)
(* uses content that scrub_sensitive_content has emptied.                  *)
THEOREM ScrubbedStaysInert == RetentionSpec => []PrunedIsInert
<1>1. RetentionInit => PrunedIsInert
  BY DEF RetentionInit, PrunedIsInert
<1> QED
  BY <1>1, RetentionStep, PTL DEF RetentionSpec

------------------------------------------------------------------------------
(* Migration.  What an opener may rely on at each of its statements, and   *)
(* what a stored version promises.                                         *)
StoreRow ==
  [version: {0, 2, 3, 5, 6, CurrentVersion}, columns: SUBSET Columns, copy: BOOLEAN,
   keyed: BOOLEAN, rows: SUBSET Rows, bound: BOOLEAN, retries: BOOLEAN,
   backgrounds: BOOLEAN]

OpenerStage == {"closed", "schema", "columns", "rebuild", "create", "copy", "bind",
                "late", "retries", "backgrounds", "version", "open"}

(* t lacks nothing that s has. *)
Covers(t, s) ==
  /\ s.columns \subseteq t.columns
  /\ (s.keyed => t.keyed) /\ (s.bound => t.bound)
  /\ (s.retries => t.retries) /\ (s.backgrounds => t.backgrounds)

(* What the statements before this one have made of the store. *)
Meets(s, step) ==
  /\ step \in {"rebuild", "create", "copy", "bind", "late", "retries", "backgrounds",
               "version"} => Columns \ {LateColumn} \subseteq s.columns
  /\ step \in {"bind", "late", "retries", "backgrounds", "version"} => s.keyed
  /\ step \in {"late", "retries", "backgrounds", "version"} => s.bound
  /\ step \in {"retries", "backgrounds", "version"} => LateColumn \in s.columns
  /\ step \in {"backgrounds", "version"} => s.retries
  /\ step = "version" => s.backgrounds

(* Where the migration of a store of this version starts. *)
EntryStep(v) == CASE v = 3 -> "late" [] v = 5 -> "retries" [] v = 6 -> "backgrounds"
              [] v = CurrentVersion -> "version" [] OTHER -> "columns"

Sound(s) ==
  /\ Meets(s, EntryStep(s.version))
  /\ s.version \notin {0, CurrentVersion} => s.rows = Rows

(* While a transaction is open nobody else writes, so that committing it   *)
(* loses nothing.                                                          *)
DraftInv ==
  writer # NoOpener =>
    /\ writer \in Opener /\ opener[writer].at \in {"bind", "late", "retries"}
    /\ Covers(draft, store) /\ draft.version = store.version /\ draft.rows = store.rows

OpenersInv == \A o \in Opener : Meets(View(o), opener[o].at)

MigrationType ==
  /\ store \in StoreRow /\ draft \in StoreRow
  /\ opener \in [Opener -> [at: OpenerStage, missing: SUBSET Columns]]

MigrationInv == MigrationType /\ Sound(store) /\ DraftInv /\ OpenersInv

(* The row of a store that an earlier release has left. *)
LEMMA BaselineRow ==
  ASSUME NEW v \in {2, 3, 5, 6, CurrentVersion}
  PROVE  /\ Baseline(v) \in StoreRow /\ Baseline(v).version = v
         /\ Baseline(v).rows = Rows
         /\ Baseline(v).columns = IF v = 2 THEN {}
                                  ELSE IF v = 3 THEN Columns \ {LateColumn} ELSE Columns
         /\ Baseline(v).keyed <=> v > 2
         /\ Baseline(v).bound <=> v > 2
         /\ Baseline(v).retries <=> v > 5
         /\ Baseline(v).backgrounds <=> v > 6
<1>1. v \in Nat
  BY DEF CurrentVersion
<1>2. /\ Baseline(v).keyed = (v > 2) /\ Baseline(v).bound = (v > 2)
      /\ Baseline(v).retries = (v > 5) /\ Baseline(v).backgrounds = (v > 6)
      /\ Baseline(v).version = v /\ Baseline(v).rows = Rows
  BY <1>1 DEF Baseline
<1>3. Baseline(v).columns = IF v = 2 THEN {}
                            ELSE IF v = 3 THEN Columns \ {LateColumn} ELSE Columns
  BY <1>1 DEF Baseline
<1>4. Baseline(v) \in [version: Nat, columns: SUBSET Columns, copy: BOOLEAN,
                      keyed: BOOLEAN, rows: SUBSET Rows, bound: BOOLEAN,
                      retries: BOOLEAN, backgrounds: BOOLEAN]
  BY <1>1 DEF Baseline
<1>5. Baseline(v) \in StoreRow
  BY <1>2, <1>4 DEF StoreRow
<1> QED
  BY <1>2, <1>3, <1>5

LEMMA CoversItself == ASSUME NEW s PROVE Covers(s, s)
BY DEF Covers

(* A store that lacks nothing of another meets what that one met. *)
LEMMA MeetsMore ==
  ASSUME NEW s, NEW t, NEW step, Covers(t, s), Meets(s, step)
  PROVE  Meets(t, step)
BY DEF Covers, Meets

LEMMA SoundMore ==
  ASSUME NEW s, NEW t, Covers(t, s), Sound(s), t.version = s.version, t.rows = s.rows
  PROVE  Sound(t)
BY MeetsMore DEF Sound

(* What a single statement adds. *)
LEMMA Statements ==
  ASSUME NEW s \in StoreRow, NEW more \in SUBSET Columns
  PROVE  /\ [s EXCEPT !.columns = @ \cup more] \in StoreRow
         /\ Covers([s EXCEPT !.columns = @ \cup more], s)
         /\ more \subseteq [s EXCEPT !.columns = @ \cup more].columns
         /\ [s EXCEPT !.columns = @ \cup more].version = s.version
         /\ [s EXCEPT !.columns = @ \cup more].rows = s.rows
<1> DEFINE t == [s EXCEPT !.columns = s.columns \cup more]
<1>1. t \in StoreRow /\ t.columns = s.columns \cup more
  BY DEF StoreRow
<1>2. /\ t.keyed = s.keyed /\ t.bound = s.bound /\ t.retries = s.retries
      /\ t.backgrounds = s.backgrounds /\ t.version = s.version /\ t.rows = s.rows
  BY DEF StoreRow
<1> QED
  BY <1>1, <1>2 DEF Covers

(* An opener that was not at work sees no less than before. *)
LEMMA OthersMeet ==
  ASSUME MigrationInv, NEW o \in Opener, NEW x \in Opener, x # o,
         opener'[x] = opener[x], Covers(store', store),
         writer = x => writer' = x /\ draft' = draft,
         writer # x => writer' # x
  PROVE  Meets(View(x)', opener'[x].at)
<1>1. Meets(View(x), opener[x].at)
  BY DEF MigrationInv, OpenersInv
<1>2. CASE writer = x
  <2>1. View(x) = draft /\ View(x)' = draft
    BY <1>2 DEF View
  <2> QED
    BY <1>1, <2>1
<1>3. CASE writer # x
  <2>1. View(x) = store /\ View(x)' = store'
    BY <1>3 DEF View
  <2> QED
    BY <1>1, <2>1, MeetsMore
<1> QED
  BY <1>2, <1>3

OpenerRow == [at: OpenerStage, missing: SUBSET Columns]

(* One opener moves: what is left to show of its step. *)
Moved(o) ==
  /\ opener'[o] \in OpenerRow /\ opener' = [opener EXCEPT ![o] = opener'[o]]
  /\ store' \in StoreRow /\ draft' \in StoreRow
  /\ Covers(store', store)
  /\ writer \notin {o, NoOpener} => UNCHANGED <<writer, draft>>
  /\ writer' \in {writer, o, NoOpener}

LEMMA OneMoves ==
  ASSUME MigrationInv, NEW o \in Opener, Moved(o), Sound(store'), DraftInv',
         Meets(View(o)', opener'[o].at)
  PROVE  MigrationInv'
<1>1. MigrationType'
  BY DEF Moved, MigrationInv, MigrationType, OpenerRow
<1>2. ASSUME NEW x \in Opener PROVE Meets(View(x)', opener'[x].at)
  <2>1. CASE x = o
    BY <2>1
  <2>2. CASE x # o
    <3>1. opener'[x] = opener[x]
      BY <2>2 DEF Moved, MigrationInv, MigrationType
    <3>2. NoOpener # x
      BY MigrationAssumption
    <3>3. writer = x => writer' = x /\ draft' = draft
      BY <2>2, <3>2 DEF Moved
    <3>4. writer # x => writer' # x
      BY <2>2, <3>2 DEF Moved
    <3>5. Covers(store', store)
      BY DEF Moved
    <3> QED
      BY <2>2, <3>1, <3>3, <3>4, <3>5, OthersMeet
  <2> QED
    BY <2>1, <2>2
<1> QED
  BY <1>1, <1>2 DEF MigrationInv, OpenersInv

(* The draft of another opener stays what it was. *)
LEMMA DraftStays ==
  ASSUME MigrationInv, NEW o \in Opener, Moved(o), writer # o,
         UNCHANGED <<store, writer, draft>>
  PROVE  DraftInv'
<1>1. writer # NoOpener => opener'[writer] = opener[writer]
  BY DEF Moved, MigrationInv, MigrationType, DraftInv
<1> QED
  BY <1>1 DEF MigrationInv, DraftInv

(* What an opener meets, and the type of what it sees. *)
LEMMA Seen ==
  ASSUME MigrationInv, NEW o \in Opener
  PROVE  /\ Meets(View(o), opener[o].at) /\ View(o) \in StoreRow
         /\ opener[o] \in OpenerRow
         /\ writer = o => opener[o].at \in {"bind", "late", "retries"}
BY MigrationAssumption
   DEF MigrationInv, MigrationType, OpenersInv, DraftInv, View, OpenerRow

(* Going to another statement, without touching the store. *)
LEMMA JustLooks ==
  ASSUME MigrationInv, NEW o \in Opener, NEW r \in OpenerRow,
         opener' = [opener EXCEPT ![o] = r], Looks,
         writer = o => r.at \in {"bind", "late", "retries"},
         Meets(View(o), r.at)
  PROVE  MigrationInv'
<1>1. opener'[o] = r
  BY DEF MigrationInv, MigrationType
<1>2. Moved(o)
  BY <1>1, CoversItself DEF Moved, Looks, MigrationInv, MigrationType
<1>3. DraftInv'
  <2>1. CASE writer # o
    BY <1>2, <2>1, DraftStays DEF Looks
  <2>2. CASE writer = o
    BY <1>1, <2>2 DEF MigrationInv, DraftInv, Looks
  <2> QED
    BY <2>1, <2>2
<1>4. Sound(store') /\ View(o)' = View(o)
  BY DEF MigrationInv, Looks, View
<1> QED
  BY <1>1, <1>2, <1>3, <1>4, OneMoves

(* Giving up: SQLite rolls the transaction back. *)
LEMMA StepFails ==
  ASSUME MigrationInv, NEW o \in Opener, Fails(o)
  PROVE  MigrationInv'
<1>1. opener'[o] = Unopened /\ Unopened \in OpenerRow /\ NoStore \in StoreRow
  BY DEF Fails, MigrationInv, MigrationType, Unopened, OpenerRow, OpenerStage, NoStore,
         StoreRow
<1>2. Moved(o)
  BY <1>1, CoversItself DEF Moved, Fails, MigrationInv, MigrationType
<1>3. DraftInv'
  <2>1. CASE writer # o
    BY <1>2, <2>1, DraftStays DEF Fails
  <2>2. CASE writer = o
    BY <2>2 DEF Fails, DraftInv
  <2> QED
    BY <2>1, <2>2
<1>4. Sound(store')
  BY DEF MigrationInv, Fails
<1>5. Meets(View(o)', opener'[o].at)
  BY <1>1 DEF Unopened, Meets
<1> QED
  BY <1>2, <1>3, <1>4, <1>5, OneMoves

(* A statement of its own or of the opener's transaction. *)
LEMMA StepPuts ==
  ASSUME MigrationInv, NEW o \in Opener, NEW r \in OpenerRow, NEW s \in StoreRow,
         opener' = [opener EXCEPT ![o] = r], Puts(o, s),
         Covers(s, View(o)), s.rows = View(o).rows,
         writer = o => r.at \in {"bind", "late", "retries"} /\ s.version = View(o).version,
         writer # o => Sound(s),
         Meets(s, r.at)
  PROVE  MigrationInv'
<1>1. opener'[o] = r
  BY DEF MigrationInv, MigrationType
<1>2. CASE writer = o
  <2>1. draft' = s /\ store' = store /\ writer' = o /\ View(o) = draft /\ View(o)' = s
    BY <1>2 DEF Puts, View
  <2>2. Moved(o)
    BY <1>1, <1>2, <2>1, CoversItself DEF Moved, MigrationInv, MigrationType
  <2>3. Covers(draft, store) /\ draft.version = store.version /\ draft.rows = store.rows
    BY <1>2, MigrationAssumption DEF MigrationInv, DraftInv
  <2>4. Covers(s, store)
    BY <2>1, <2>3 DEF Covers
  <2>5. DraftInv'
    BY <1>1, <1>2, <2>1, <2>3, <2>4 DEF DraftInv
  <2> QED
    BY <1>1, <2>1, <2>2, <2>5, OneMoves DEF MigrationInv
<1>3. CASE writer # o
  <2>1. /\ draft' = draft /\ store' = s /\ writer = NoOpener /\ writer' = NoOpener
        /\ View(o) = store
    BY <1>3 DEF Puts, View
  <2>2. View(o)' = s
    BY <2>1, MigrationAssumption DEF View
  <2>3. Moved(o)
    BY <1>1, <1>3, <2>1 DEF Moved, MigrationInv, MigrationType
  <2>4. DraftInv'
    BY <2>1 DEF DraftInv
  <2> QED
    BY <1>1, <1>3, <2>1, <2>2, <2>3, <2>4, OneMoves
<1> QED
  BY <1>2, <1>3

(* A script commits what the opener sees. *)
LEMMA StepScript ==
  ASSUME MigrationInv, NEW o \in Opener, NEW r \in OpenerRow, NEW s \in StoreRow,
         opener' = [opener EXCEPT ![o] = r], Script(o, s),
         Covers(s, View(o)), Sound(s), Meets(s, r.at)
  PROVE  MigrationInv'
<1>1. opener'[o] = r
  BY DEF MigrationInv, MigrationType
<1>2. Covers(View(o), store)
  BY CoversItself, MigrationAssumption DEF View, MigrationInv, DraftInv
<1>3. store' = s /\ writer' = NoOpener /\ draft' = NoStore /\ writer \in {o, NoOpener}
  BY DEF Script
<1>4. Covers(store', store)
  BY <1>2, <1>3 DEF Covers
<1>5. NoStore \in StoreRow
  BY DEF NoStore, StoreRow
<1>6. Moved(o)
  BY <1>1, <1>3, <1>4, <1>5 DEF Moved
<1>7. DraftInv' /\ View(o)' = s
  BY <1>3, MigrationAssumption DEF DraftInv, View
<1> QED
  BY <1>1, <1>3, <1>6, <1>7, OneMoves

(* A transaction begins, or goes on. *)
LEMMA StepBegins ==
  ASSUME MigrationInv, NEW o \in Opener, NEW r \in OpenerRow, NEW s \in StoreRow,
         opener' = [opener EXCEPT ![o] = r],
         writer \in {o, NoOpener}, writer' = o, draft' = s, store' = store,
         Covers(s, View(o)), s.rows = View(o).rows, s.version = View(o).version,
         r.at \in {"bind", "late", "retries"}, Meets(s, r.at)
  PROVE  MigrationInv'
<1>1. opener'[o] = r
  BY DEF MigrationInv, MigrationType
<1>2. /\ Covers(View(o), store)
      /\ View(o).rows = store.rows /\ View(o).version = store.version
  BY CoversItself, MigrationAssumption DEF View, MigrationInv, DraftInv
<1>3. Moved(o)
  BY <1>1, CoversItself DEF Moved, MigrationInv, MigrationType
<1>4. Covers(s, store)
  BY <1>2 DEF Covers
<1>5. DraftInv' /\ View(o)' = s
  BY <1>1, <1>2, <1>4 DEF DraftInv, View
<1>6. Sound(store')
  BY DEF MigrationInv
<1> QED
  BY <1>1, <1>3, <1>5, <1>6, OneMoves

LEMMA Standing ==
  ASSUME NEW step \in OpenerStage
  PROVE  [at |-> step, missing |-> {}] \in OpenerRow
BY DEF OpenerRow

(* Going to a statement that needs no more than this one. *)
LEMMA Proceeds ==
  ASSUME MigrationInv, NEW o \in Opener, NEW step \in OpenerStage, Goes(o, step), Looks,
         writer = o => step \in {"bind", "late", "retries"}, Meets(View(o), step)
  PROVE  MigrationInv'
<1>1. [at |-> step, missing |-> {}] \in OpenerRow
  BY Standing
<1> QED
  BY <1>1, JustLooks DEF Goes

LEMMA StepOpenStore ==
  ASSUME MigrationInv, NEW o \in Opener, OpenStore(o)
  PROVE  MigrationInv'
<1>1. writer # o /\ View(o) = store
  BY Seen DEF OpenStore, Stands, View
<1> DEFINE next == CASE store.version \in {0, CurrentVersion} -> "schema"
                     [] store.version = 2 -> "columns"
                     [] store.version = 3 -> "late" [] store.version = 5 -> "retries"
                     [] OTHER -> "backgrounds"
<1>2. Goes(o, next) /\ Looks
  BY DEF OpenStore
<1>3. store.version \in {0, 2, 3, 5, 6, CurrentVersion}
  BY DEF MigrationInv, MigrationType, StoreRow
<1>4. next \in OpenerStage
  BY <1>3 DEF OpenerStage
<1>5. Meets(store, next)
  BY <1>3 DEF MigrationInv, Sound, EntryStep, Meets, CurrentVersion
<1> HIDE DEF next
<1> QED
  BY <1>1, <1>2, <1>4, <1>5, Proceeds

LEMMA StepRunSchema ==
  ASSUME MigrationInv, NEW o \in Opener, RunSchema(o)
  PROVE  MigrationInv'
<1>1. writer # o /\ View(o) = store
  BY Seen DEF RunSchema, Stands, View
<1> DEFINE s == IF store.version = 0 THEN NewStore ELSE store
           r == [at |-> "open", missing |-> {}]
<1>2. Script(o, s) /\ opener' = [opener EXCEPT ![o] = r]
  BY DEF RunSchema, Goes
<1>3. r \in OpenerRow
  BY Standing DEF OpenerStage
<1>4. /\ NewStore \in StoreRow /\ NewStore.version = CurrentVersion
      /\ NewStore.columns = Columns
      /\ NewStore.keyed /\ NewStore.bound /\ NewStore.retries /\ NewStore.backgrounds
  <2>1. Baseline(CurrentVersion) \in StoreRow
    BY BaselineRow
  <2>2. /\ NewStore \in StoreRow /\ NewStore.version = Baseline(CurrentVersion).version
        /\ NewStore.columns = Baseline(CurrentVersion).columns
        /\ NewStore.keyed = Baseline(CurrentVersion).keyed
        /\ NewStore.bound = Baseline(CurrentVersion).bound
        /\ NewStore.retries = Baseline(CurrentVersion).retries
        /\ NewStore.backgrounds = Baseline(CurrentVersion).backgrounds
    BY <2>1 DEF NewStore, StoreRow
  <2> QED
    BY <2>2, BaselineRow DEF CurrentVersion
<1>5. store.columns \in SUBSET Columns /\ store \in StoreRow
  BY DEF MigrationInv, MigrationType, StoreRow
<1>6. Covers(NewStore, store)
  BY <1>4, <1>5 DEF Covers
<1>7. Sound(NewStore)
  BY <1>4, MigrationAssumption DEF Sound, Meets
<1>8. s \in StoreRow /\ Covers(s, store) /\ Sound(s)
  BY <1>4, <1>5, <1>6, <1>7, CoversItself DEF MigrationInv
<1>9. Meets(s, r.at)
  BY DEF Meets
<1> HIDE DEF s, r
<1> QED
  BY <1>1, <1>2, <1>3, <1>8, <1>9, StepScript

LEMMA StepColumns ==
  ASSUME MigrationInv, NEW o \in Opener, EarlyColumns(o) \/ LateColumns(o)
  PROVE  MigrationInv'
<1>1. PICK wanted \in SUBSET Columns, next \in OpenerStage :
        /\ SeeColumns(o, wanted, next)
        /\ \/ opener[o].at = "columns" /\ wanted = Columns \ {LateColumn} /\ next = "rebuild"
           \/ opener[o].at = "late" /\ wanted = {LateColumn} /\ next = "retries"
  BY MigrationAssumption DEF EarlyColumns, LateColumns, Stands, OpenerStage
<1>2. View(o) \in StoreRow /\ opener[o] \in OpenerRow /\ Meets(View(o), opener[o].at)
  BY Seen
<1>3. CASE wanted \ View(o).columns = {} /\ Goes(o, next)
  <2>1. Meets(View(o), next)
    BY <1>1, <1>2, <1>3 DEF Meets
  <2>2. writer = o => next \in {"bind", "late", "retries"}
    BY <1>1, Seen
  <2> QED
    BY <1>1, <1>3, <2>1, <2>2, Proceeds DEF SeeColumns
<1>4. CASE \E c \in wanted \ View(o).columns :
             opener' = [opener EXCEPT ![o].missing = {c}]
  <2>1. PICK c \in Columns : opener' = [opener EXCEPT ![o].missing = {c}]
    BY <1>1, <1>4
  <2> DEFINE r == [opener[o] EXCEPT !.missing = {c}]
  <2>2. r \in OpenerRow /\ r.at = opener[o].at
    BY <1>2 DEF OpenerRow
  <2>3. opener' = [opener EXCEPT ![o] = r]
    BY <2>1
  <2>4. writer = o => r.at \in {"bind", "late", "retries"}
    BY <2>2, Seen
  <2>5. Looks
    BY <1>1 DEF SeeColumns
  <2> HIDE DEF r
  <2> QED
    BY <1>2, <2>2, <2>3, <2>4, <2>5, JustLooks
<1> QED
  BY <1>1, <1>3, <1>4 DEF SeeColumns

LEMMA StepAddColumn ==
  ASSUME MigrationInv, NEW o \in Opener, AddColumn(o)
  PROVE  MigrationInv'
<1>1. /\ View(o) \in StoreRow /\ opener[o] \in OpenerRow /\ Meets(View(o), opener[o].at)
      /\ writer = o => opener[o].at \in {"bind", "late", "retries"}
  BY Seen
<1>2. CASE Fails(o)
  BY <1>2, StepFails
<1>3. CASE ~Fails(o)
  <2> DEFINE more == opener[o].missing
             s == [View(o) EXCEPT !.columns = @ \cup more]
             r == [opener[o] EXCEPT !.missing = {}]
  <2>1. Puts(o, s) /\ opener' = [opener EXCEPT ![o] = r]
    BY <1>3 DEF AddColumn
  <2>2. more \in SUBSET Columns /\ r \in OpenerRow /\ r.at = opener[o].at
    BY <1>1 DEF OpenerRow
  <2>3. /\ s \in StoreRow /\ Covers(s, View(o)) /\ s.version = View(o).version
        /\ s.rows = View(o).rows
    BY <1>1, <2>2, Statements
  <2>4. Meets(s, r.at)
    BY <1>1, <2>2, <2>3, MeetsMore
  <2>5. writer # o => Sound(s)
    BY <2>3, SoundMore DEF View, MigrationInv
  <2>6. writer = o => r.at \in {"bind", "late", "retries"}
    BY <1>1, <2>2
  <2> HIDE DEF s, r
  <2> QED
    BY <2>1, <2>2, <2>3, <2>4, <2>5, <2>6, StepPuts
<1> QED
  BY <1>2, <1>3

LEMMA StepSeeKey ==
  ASSUME MigrationInv, NEW o \in Opener, SeeKey(o)
  PROVE  MigrationInv'
<1> DEFINE next == IF store.keyed THEN "bind" ELSE "create"
<1>1. writer # o /\ View(o) = store
  BY Seen DEF SeeKey, Stands, View
<1>2. Goes(o, next) /\ Looks /\ next \in OpenerStage
  BY DEF SeeKey, OpenerStage
<1>3. Meets(View(o), "rebuild")
  BY Seen DEF SeeKey, Stands
<1>4. Meets(View(o), next)
  BY <1>1, <1>3 DEF Meets
<1> HIDE DEF next
<1> QED
  BY <1>1, <1>2, <1>4, Proceeds

LEMMA StepCreateCopy ==
  ASSUME MigrationInv, NEW o \in Opener, CreateCopy(o)
  PROVE  MigrationInv'
<1>1. CASE Fails(o)
  BY <1>1, StepFails
<1>2. CASE ~Fails(o)
  <2> DEFINE s == [store EXCEPT !.copy = TRUE]
             r == [at |-> "copy", missing |-> {}]
  <2>1. writer # o /\ View(o) = store /\ Meets(store, "create") /\ store \in StoreRow
    BY Seen DEF CreateCopy, Stands, View
  <2>2. Puts(o, s) /\ opener' = [opener EXCEPT ![o] = r]
    BY <1>2 DEF CreateCopy, Goes
  <2>3. r \in OpenerRow
    BY Standing DEF OpenerStage
  <2>4. /\ s \in StoreRow /\ Covers(s, store) /\ s.rows = store.rows
        /\ s.version = store.version
    BY <2>1 DEF StoreRow, Covers
  <2>5. Sound(s)
    BY <2>4, SoundMore DEF MigrationInv
  <2>6. Meets(s, r.at)
    BY <2>1, <2>4 DEF Covers, Meets
  <2> HIDE DEF s, r
  <2> QED
    BY <2>1, <2>2, <2>3, <2>4, <2>5, <2>6, StepPuts
<1> QED
  BY <1>1, <1>2

LEMMA StepCopyRows ==
  ASSUME MigrationInv, NEW o \in Opener, CopyRows(o)
  PROVE  MigrationInv'
<1>1. CASE Fails(o)
  BY <1>1, StepFails
<1>2. CASE ~Fails(o)
  <2> DEFINE s == [store EXCEPT !.copy = FALSE, !.keyed = TRUE]
             r == [at |-> "bind", missing |-> {}]
  <2>1. writer # o /\ View(o) = store /\ Meets(store, "copy") /\ store \in StoreRow
    BY Seen DEF CopyRows, Stands, View
  <2>2. /\ writer = NoOpener /\ writer' = o /\ draft' = s /\ store' = store
        /\ opener' = [opener EXCEPT ![o] = r]
    BY <1>2 DEF CopyRows, Goes
  <2>3. r \in OpenerRow
    BY Standing DEF OpenerStage
  <2>4. /\ s \in StoreRow /\ Covers(s, store) /\ s.rows = store.rows
        /\ s.version = store.version /\ s.keyed
    BY <2>1 DEF StoreRow, Covers
  <2>5. Meets(s, r.at)
    BY <2>1, <2>4 DEF Covers, Meets
  <2>6. r.at = "bind"
    OBVIOUS
  <2> HIDE DEF s, r
  <2> QED
    BY <2>1, <2>2, <2>3, <2>4, <2>5, <2>6, StepBegins
<1> QED
  BY <1>1, <1>2

LEMMA StepBindSources ==
  ASSUME MigrationInv, NEW o \in Opener, BindSources(o)
  PROVE  MigrationInv'
<1>1. View(o) \in StoreRow /\ Meets(View(o), "bind")
  BY Seen DEF BindSources, Stands
<1>2. Goes(o, "late") /\ store' = store /\ aborts' = aborts /\ "late" \in OpenerStage
  BY DEF BindSources, OpenerStage
<1>3. CASE View(o).bound
  <2>1. Looks
    BY <1>2, <1>3 DEF BindSources, Looks
  <2>2. Meets(View(o), "late")
    BY <1>1, <1>3 DEF Meets
  <2> QED
    BY <1>2, <2>1, <2>2, Proceeds
<1>4. CASE ~View(o).bound
  <2> DEFINE s == [View(o) EXCEPT !.bound = TRUE]
             r == [at |-> "late", missing |-> {}]
  <2>1. /\ writer \in {o, NoOpener} /\ writer' = o /\ draft' = s
        /\ opener' = [opener EXCEPT ![o] = r]
    BY <1>4 DEF BindSources, Goes
  <2>2. r \in OpenerRow /\ r.at = "late"
    BY <1>2, Standing
  <2>3. /\ s \in StoreRow /\ Covers(s, View(o)) /\ s.rows = View(o).rows
        /\ s.version = View(o).version /\ s.bound
    BY <1>1 DEF StoreRow, Covers
  <2>4. Meets(s, r.at)
    BY <1>1, <2>2, <2>3 DEF Covers, Meets
  <2> HIDE DEF s, r
  <2> QED
    BY <1>2, <2>1, <2>2, <2>3, <2>4, StepBegins
<1> QED
  BY <1>3, <1>4

LEMMA StepMakeRetries ==
  ASSUME MigrationInv, NEW o \in Opener, MakeRetries(o)
  PROVE  MigrationInv'
<1> DEFINE s == [View(o) EXCEPT !.retries = TRUE]
           r == [at |-> "backgrounds", missing |-> {}]
<1>1. View(o) \in StoreRow /\ Meets(View(o), "retries")
  BY Seen DEF MakeRetries, Stands
<1>2. Script(o, s) /\ opener' = [opener EXCEPT ![o] = r]
  BY DEF MakeRetries, Goes
<1>3. r \in OpenerRow
  BY Standing DEF OpenerStage
<1>4. /\ s \in StoreRow /\ Covers(s, View(o)) /\ s.rows = View(o).rows
      /\ s.version = View(o).version /\ s.retries
  BY <1>1 DEF StoreRow, Covers
<1>5. Meets(s, r.at)
  BY <1>1, <1>4 DEF Covers, Meets
<1>6. Sound(View(o))
  BY MigrationAssumption, SoundMore DEF View, MigrationInv, DraftInv
<1>7. Sound(s)
  BY <1>4, <1>6, SoundMore
<1> HIDE DEF s, r
<1> QED
  BY <1>2, <1>3, <1>4, <1>5, <1>7, StepScript

LEMMA StepMakeBackgrounds ==
  ASSUME MigrationInv, NEW o \in Opener, MakeBackgrounds(o)
  PROVE  MigrationInv'
<1> DEFINE s == [store EXCEPT !.backgrounds = TRUE]
           r == [at |-> "version", missing |-> {}]
<1>1. writer # o /\ View(o) = store /\ Meets(store, "backgrounds") /\ store \in StoreRow
  BY Seen DEF MakeBackgrounds, Stands, View
<1>2. Script(o, s) /\ opener' = [opener EXCEPT ![o] = r]
  BY DEF MakeBackgrounds, Goes
<1>3. r \in OpenerRow
  BY Standing DEF OpenerStage
<1>4. /\ s \in StoreRow /\ Covers(s, store) /\ s.rows = store.rows
      /\ s.version = store.version /\ s.backgrounds
  BY <1>1 DEF StoreRow, Covers
<1>5. Meets(s, r.at)
  BY <1>1, <1>4 DEF Covers, Meets
<1>6. Sound(s)
  BY <1>4, SoundMore DEF MigrationInv
<1> HIDE DEF s, r
<1> QED
  BY <1>1, <1>2, <1>3, <1>4, <1>5, <1>6, StepScript

LEMMA StepSetVersion ==
  ASSUME MigrationInv, NEW o \in Opener, SetVersion(o)
  PROVE  MigrationInv'
<1> DEFINE s == [store EXCEPT !.version = CurrentVersion]
           r == [at |-> "open", missing |-> {}]
<1>1. writer # o /\ View(o) = store /\ Meets(store, "version") /\ store \in StoreRow
  BY Seen DEF SetVersion, Stands, View
<1>2. Puts(o, s) /\ opener' = [opener EXCEPT ![o] = r]
  BY DEF SetVersion, Goes
<1>3. r \in OpenerRow
  BY Standing DEF OpenerStage
<1>4. /\ s \in StoreRow /\ Covers(s, store) /\ s.rows = store.rows
      /\ s.version = CurrentVersion
  BY <1>1 DEF StoreRow, Covers
<1>5. Meets(s, "version")
  BY <1>1, <1>4, MeetsMore
<1>6. Sound(s)
  BY <1>4, <1>5 DEF Sound, EntryStep, CurrentVersion
<1>7. Meets(s, r.at)
  BY DEF Meets
<1> HIDE DEF s, r
<1> QED
  BY <1>1, <1>2, <1>3, <1>4, <1>6, <1>7, StepPuts

LEMMA MigrationStep ==
  ASSUME MigrationInv, [MigrationNext]_migrationVars
  PROVE  MigrationInv'
<1>1. ASSUME NEW o \in Opener, Opens(o) \/ AbortOpen(o) PROVE MigrationInv'
  BY <1>1, StepOpenStore, StepRunSchema, StepAddColumn, StepColumns, StepSeeKey,
     StepCreateCopy, StepCopyRows, StepBindSources, StepMakeRetries,
     StepMakeBackgrounds, StepSetVersion, StepFails DEF Opens, AbortOpen
<1>2. CASE UNCHANGED migrationVars
  BY <1>2 DEF migrationVars, MigrationInv, MigrationType, DraftInv, OpenersInv, View
<1> QED
  BY <1>1, <1>2 DEF MigrationNext

LEMMA MigrationStart == MigrationInit => MigrationInv
<1> SUFFICES ASSUME MigrationInit PROVE MigrationInv
  OBVIOUS
<1>1. NoStore \in StoreRow /\ NoStore.version = 0
  BY DEF NoStore, StoreRow
<1>2. ASSUME NEW v \in {2, 3, 5, 6, CurrentVersion}
      PROVE  Baseline(v) \in StoreRow /\ Sound(Baseline(v))
  <2>1. /\ Baseline(v) \in StoreRow /\ Baseline(v).version = v
        /\ Baseline(v).rows = Rows /\ (v > 2 => Baseline(v).keyed /\ Baseline(v).bound)
        /\ (v > 5 => Baseline(v).retries) /\ (v > 6 => Baseline(v).backgrounds)
        /\ v > 2 => Columns \ {LateColumn} \subseteq Baseline(v).columns
        /\ v > 3 => LateColumn \in Baseline(v).columns
    BY <1>2, BaselineRow, MigrationAssumption DEF CurrentVersion
  <2>2. Meets(Baseline(v), EntryStep(v))
    BY <1>2, <2>1 DEF Meets, EntryStep, CurrentVersion
  <2> QED
    BY <2>1, <2>2 DEF Sound
<1>3. store \in StoreRow /\ Sound(store)
  BY <1>1, <1>2 DEF MigrationInit, Sound, Meets, EntryStep, CurrentVersion
<1>4. MigrationType
  BY <1>1, <1>3 DEF MigrationInit, MigrationType, Unopened, OpenerStage
<1>5. DraftInv /\ OpenersInv
  BY DEF MigrationInit, DraftInv, OpenersInv, Unopened, Meets
<1> QED
  BY <1>3, <1>4, <1>5 DEF MigrationInv

(* Whatever columns the versions add and however many processes open the   *)
(* store: initialize() never leaves a store that calls itself current and  *)
(* lacks something, and no migration loses a row of message_processing,    *)
(* wherever the statements of two openers meet or one of them dies.        *)
THEOREM MigrationCompletes == MigrationSpec => []CurrentIsComplete
<1>1. MigrationInv => CurrentIsComplete
  <2> SUFFICES ASSUME MigrationInv PROVE CurrentIsComplete
    OBVIOUS
  <2>1. store.columns \in SUBSET Columns
    BY DEF MigrationInv, MigrationType, StoreRow
  <2> QED
    BY <2>1 DEF MigrationInv, Sound, Meets, EntryStep, CurrentIsComplete, CurrentVersion
<1> QED
  BY <1>1, MigrationStart, MigrationStep, PTL DEF MigrationSpec

------------------------------------------------------------------------------
(* The log files.  A thread in "write", "unlock", "copy", "replace" or     *)
(* "reopen" holds the locks of the files it is about to change.            *)
Entry == [line: Nat, whole: BOOLEAN]
ThreadStep == {"idle", "lock", "write", "unlock", "claim", "copy", "replace", "reopen"}
ThreadRow == [at: ThreadStep, file: Nat, line: Nat, copy: Seq(Entry), changed: BOOLEAN,
              keep: SUBSET Nat]

LogsType ==
  /\ disk \in [LogFile -> Seq(Entry)] /\ written \in [LogFile -> Seq(Nat)]
  /\ flock \in [LogFile -> Writer \cup {Nobody}]
  /\ thread \in [Writer -> ThreadRow]
  /\ lines \in Nat /\ aged \in SUBSET Nat

(* The files whose locks a thread holds at its step. *)
Holds(t, f) ==
  \/ t.at = "claim" /\ f < t.file
  \/ t.at \in {"write", "unlock"} /\ f = t.file
  \/ t.at \in {"copy", "replace", "reopen"}

HeldBy(w) ==
  /\ thread[w].at # "idle" => thread[w].file \in LogFile
  /\ \A f \in LogFile : Holds(thread[w], f) => flock[f] = w

SameLines(s, t) == DOMAIN s = DOMAIN t /\ \A i \in DOMAIN s : s[i].line = t[i].line

(* Only lines past the cutoff lose their payload. *)
OldPruned(s, old) == \A i \in DOMAIN s : s[i].whole \/ s[i].line \in old

(* A copy stays a copy until it replaces its file. *)
CopyKept(w) ==
  thread[w].at = "replace" => /\ SameLines(thread[w].copy, disk[thread[w].file])
                              /\ OldPruned(thread[w].copy, aged)

Recorded(f) ==
  /\ [i \in DOMAIN disk[f] |-> disk[f][i].line] = written[f]
  /\ OldPruned(disk[f], aged)

LogsInv ==
  /\ LogsType
  /\ \A w \in Writer : HeldBy(w) /\ CopyKept(w)
  /\ \A f \in LogFile : Recorded(f)

(* Appending a line to a file and to its history. *)
LEMMA AppendedLine ==
  ASSUME NEW s \in Seq(Entry), NEW h \in Seq(Nat), NEW n \in Nat, NEW old,
         [i \in DOMAIN s |-> s[i].line] = h, OldPruned(s, old)
  PROVE  LET t == Append(s, [line |-> n, whole |-> TRUE]) IN
           /\ t \in Seq(Entry) /\ Append(h, n) \in Seq(Nat)
           /\ [i \in DOMAIN t |-> t[i].line] = Append(h, n)
           /\ OldPruned(t, old)
<1> DEFINE e == [line |-> n, whole |-> TRUE]
           t == Append(s, e)
<1>1. e \in Entry
  BY DEF Entry
<1>2. /\ t \in Seq(Entry) /\ Len(t) = Len(s) + 1 /\ DOMAIN t = 1..Len(s) + 1
      /\ \A i \in 1..Len(s) : t[i] = s[i]
      /\ t[Len(s) + 1] = e
  BY <1>1, AppendProperties
<1>3. /\ Append(h, n) \in Seq(Nat) /\ Len(Append(h, n)) = Len(h) + 1
      /\ DOMAIN Append(h, n) = 1..Len(h) + 1
      /\ \A i \in 1..Len(h) : Append(h, n)[i] = h[i]
      /\ Append(h, n)[Len(h) + 1] = n
  BY AppendProperties
<1>4. DOMAIN s = 1..Len(s) /\ DOMAIN h = 1..Len(h) /\ Len(s) \in Nat /\ Len(h) \in Nat
  OBVIOUS
<1>5. DOMAIN h = DOMAIN s /\ \A i \in DOMAIN s : h[i] = s[i].line
  OBVIOUS
<1>6. Len(h) = Len(s)
  BY <1>4, <1>5
<1>7. e.line = n /\ e.whole = TRUE
  OBVIOUS
<1> HIDE DEF e, t
<1>8. ASSUME NEW i \in DOMAIN t
      PROVE  t[i].line = Append(h, n)[i] /\ (t[i].whole \/ t[i].line \in old)
  <2>1. CASE i = Len(s) + 1
    BY <1>2, <1>3, <1>6, <1>7, <2>1
  <2>2. CASE i # Len(s) + 1
    <3>1. i \in 1..Len(s)
      BY <1>2, <1>4, <2>2
    <3> QED
      BY <1>2, <1>3, <1>4, <1>5, <1>6, <3>1 DEF OldPruned
  <2> QED
    BY <2>1, <2>2
<1>9. [i \in DOMAIN t |-> t[i].line] = Append(h, n)
  <2> DEFINE g == Append(h, n)
  <2>1. DOMAIN t = DOMAIN g
    BY <1>2, <1>3, <1>6
  <2>2. g \in [1..Len(g) -> Nat]
    BY <1>3, LenProperties
  <2>3. \A i \in DOMAIN t : t[i].line = g[i]
    BY <1>8
  <2> HIDE DEF g
  <2>4. g = [i \in DOMAIN g |-> g[i]]
    BY <2>2
  <2>5. [i \in DOMAIN t |-> t[i].line] = [i \in DOMAIN g |-> g[i]]
    BY <2>1, <2>3
  <2> QED
    BY <2>4, <2>5 DEF g
<1> QED
  BY <1>2, <1>3, <1>8, <1>9 DEF OldPruned, t, e

(* A copy has the lines of the file it was made from. *)
LEMMA CopiedLines ==
  ASSUME NEW s \in Seq(Entry), NEW keep, OldPruned(s, aged)
  PROVE  LET t == [i \in DOMAIN s |-> Scrubbed(s[i], keep)] IN
           /\ t \in Seq(Entry) /\ SameLines(t, s) /\ OldPruned(t, aged)
<1> DEFINE t == [i \in DOMAIN s |-> Scrubbed(s[i], keep)]
<1>1. DOMAIN s = 1..Len(s) /\ Len(s) \in Nat /\ \A i \in DOMAIN s : s[i] \in Entry
  OBVIOUS
<1>2. ASSUME NEW i \in DOMAIN s
      PROVE  /\ Scrubbed(s[i], keep) \in Entry
             /\ Scrubbed(s[i], keep).line = s[i].line
             /\ Scrubbed(s[i], keep).whole \/ Scrubbed(s[i], keep).line \in aged
  <2>1. s[i] \in Entry /\ (s[i].whole \/ s[i].line \in aged)
    BY <1>1 DEF OldPruned
  <2> DEFINE e == s[i]
  <2> HIDE DEF e
  <2>2. /\ [e EXCEPT !.whole = FALSE] \in Entry
        /\ [e EXCEPT !.whole = FALSE].line = e.line
    BY <2>1 DEF Entry, e
  <2>3. /\ Scrubbed(e, keep) \in Entry
        /\ Scrubbed(e, keep).line = e.line
        /\ Scrubbed(e, keep).whole \/ Scrubbed(e, keep).line \in aged
    <3>1. CASE e.line \in aged \ keep
      BY <2>2, <3>1 DEF Scrubbed
    <3>2. CASE e.line \notin aged \ keep
      <4>1. Scrubbed(e, keep) = e
        BY <3>2 DEF Scrubbed
      <4> QED
        BY <2>1, <4>1 DEF e
    <3> QED
      BY <3>1, <3>2
  <2> QED
    BY <2>3 DEF e
<1>3. t \in [1..Len(s) -> Entry]
  BY <1>1, <1>2
<1>4. t \in Seq(Entry)
  BY <1>1, <1>3, SeqDef
<1> QED
  BY <1>2, <1>4 DEF SameLines, OldPruned

(* A file that has the lines of another is recorded as that one was. *)
LEMMA SameRecord ==
  ASSUME NEW s \in Seq(Entry), NEW t \in Seq(Entry), SameLines(t, s)
  PROVE  [i \in DOMAIN t |-> t[i].line] = [i \in DOMAIN s |-> s[i].line]
BY DEF SameLines

(* Two threads never hold the same file. *)
LEMMA OneHolder ==
  ASSUME LogsInv, NEW w \in Writer, NEW x \in Writer, x # w, NEW f \in LogFile,
         Holds(thread[w], f)
  PROVE  ~Holds(thread[x], f)
BY DEF LogsInv, HeldBy

(* A thread that stands still keeps its files. *)
LEMMA Bystander ==
  ASSUME LogsInv, NEW x \in Writer, thread'[x] = thread[x], aged \subseteq aged',
         \A f \in LogFile : flock[f] = x => flock'[f] = x /\ disk'[f] = disk[f]
  PROVE  HeldBy(x)' /\ CopyKept(x)'
<1>1. HeldBy(x)'
  BY DEF LogsInv, HeldBy
<1>2. CopyKept(x)'
  <2> SUFFICES ASSUME thread[x].at = "replace" PROVE CopyKept(x)'
    BY DEF CopyKept
  <2>1. thread[x].file \in LogFile
    BY DEF LogsInv, HeldBy
  <2>2. flock[thread[x].file] = x
    BY <2>1 DEF LogsInv, HeldBy, Holds
  <2>3. disk'[thread[x].file] = disk[thread[x].file]
    BY <2>1, <2>2
  <2> QED
    BY <2>3 DEF LogsInv, CopyKept, OldPruned
<1> QED
  BY <1>1, <1>2

(* One thread moves: what is left to show of its step. *)
LEMMA ThreadMoves ==
  ASSUME LogsInv, NEW w \in Writer, NEW r \in ThreadRow,
         thread' = [thread EXCEPT ![w] = r], UNCHANGED aged, lines' \in Nat,
         disk' \in [LogFile -> Seq(Entry)], written' \in [LogFile -> Seq(Nat)],
         flock' \in [LogFile -> Writer \cup {Nobody}],
         \A f \in LogFile : flock[f] \notin {w, Nobody} =>
                              flock'[f] = flock[f] /\ disk'[f] = disk[f],
         r.at # "idle" => r.file \in LogFile,
         \A f \in LogFile : Holds(r, f) => flock'[f] = w,
         r.at = "replace" => SameLines(r.copy, disk'[r.file]) /\ OldPruned(r.copy, aged),
         \A f \in LogFile : Recorded(f)'
  PROVE  LogsInv'
<1>1. LogsType'
  BY DEF LogsInv, LogsType
<1>2. ASSUME NEW x \in Writer PROVE HeldBy(x)' /\ CopyKept(x)'
  <2>1. CASE x = w
    <3>1. thread'[w] = r
      BY DEF LogsInv, LogsType
    <3> QED
      BY <2>1, <3>1 DEF HeldBy, CopyKept
  <2>2. CASE x # w
    <3>1. thread'[x] = thread[x]
      BY <2>2 DEF LogsInv, LogsType
    <3>2. \A f \in LogFile : flock[f] = x => flock'[f] = x /\ disk'[f] = disk[f]
      BY <2>2, LogFilesAssumption
    <3> QED
      BY <3>1, <3>2, Bystander
  <2> QED
    BY <2>1, <2>2
<1> QED
  BY <1>1, <1>2 DEF LogsInv

(* The same for a step that leaves the files as they are. *)
LEMMA ThreadLooks ==
  ASSUME LogsInv, NEW w \in Writer, NEW r \in ThreadRow,
         thread' = [thread EXCEPT ![w] = r], UNCHANGED <<disk, written, aged>>,
         lines' \in Nat, flock' \in [LogFile -> Writer \cup {Nobody}],
         \A f \in LogFile : flock[f] \notin {w, Nobody} => flock'[f] = flock[f],
         r.at # "idle" => r.file \in LogFile,
         \A f \in LogFile : Holds(r, f) => flock'[f] = w,
         r.at = "replace" => SameLines(r.copy, disk[r.file]) /\ OldPruned(r.copy, aged)
  PROVE  LogsInv'
<1>1. \A f \in LogFile : Recorded(f)'
  BY DEF LogsInv, Recorded, OldPruned
<1>2. disk' \in [LogFile -> Seq(Entry)] /\ written' \in [LogFile -> Seq(Nat)]
  BY DEF LogsInv, LogsType
<1>3. \A f \in LogFile : flock[f] \notin {w, Nobody} =>
                           flock'[f] = flock[f] /\ disk'[f] = disk[f]
  OBVIOUS
<1>4. r.at = "replace" => SameLines(r.copy, disk'[r.file])
  OBVIOUS
<1> QED
  BY <1>1, <1>2, <1>3, <1>4, ThreadMoves

(* What is known of a thread. *)
LEMMA ThreadKnown ==
  ASSUME LogsInv, NEW w \in Writer
  PROVE  /\ thread[w] \in ThreadRow
         /\ thread[w].at # "idle" => thread[w].file \in LogFile
         /\ \A f \in LogFile : Holds(thread[w], f) => flock[f] = w
BY DEF LogsInv, LogsType, HeldBy

LEMMA QuietRow == Quiet \in ThreadRow /\ Quiet.at = "idle"
BY EmptySeq DEF Quiet, ThreadRow, ThreadStep

LEMMA StepEmit ==
  ASSUME LogsInv, NEW w \in Writer, Emit(w)
  PROVE  LogsInv'
<1> DEFINE n == lines + 1
           r == [Quiet EXCEPT !.at = "lock", !.file = 1, !.line = n]
<1>1. lines \in Nat /\ n \in Nat /\ flock \in [LogFile -> Writer \cup {Nobody}]
  BY DEF LogsInv, LogsType
<1>2. r \in ThreadRow /\ r.at = "lock" /\ r.file = 1
  <2> HIDE DEF n
  <2> QED
    BY <1>1, QuietRow DEF ThreadRow, ThreadStep
<1>3. r.file \in LogFile
  BY <1>2, LogFilesAssumption DEF LogFile
<1>4. thread' = [thread EXCEPT ![w] = r] /\ UNCHANGED <<disk, written, aged, flock>>
  BY DEF Emit
<1>5. lines' \in Nat
  BY <1>1 DEF Emit
<1> HIDE DEF r
<1>6. \A f \in LogFile : ~Holds(r, f)
  BY <1>2 DEF Holds
<1> QED
  BY <1>1, <1>2, <1>3, <1>4, <1>5, <1>6, ThreadLooks

LEMMA StepBeginScrub ==
  ASSUME LogsInv, NEW w \in Writer, BeginScrub(w)
  PROVE  LogsInv'
<1>1. PICK keep \in SUBSET aged :
        thread' = [thread EXCEPT ![w] = [Quiet EXCEPT !.at = "claim", !.file = 1,
                                                      !.keep = keep]]
  BY DEF BeginScrub
<1> DEFINE r == [Quiet EXCEPT !.at = "claim", !.file = 1, !.keep = keep]
<1>2. lines \in Nat /\ flock \in [LogFile -> Writer \cup {Nobody}] /\ aged \in SUBSET Nat
  BY DEF LogsInv, LogsType
<1>3. r \in ThreadRow /\ r.at = "claim" /\ r.file = 1
  <2>1. keep \in SUBSET Nat
    BY <1>2
  <2> QED
    BY <2>1, QuietRow DEF ThreadRow, ThreadStep
<1>4. r.file \in LogFile
  BY <1>3, LogFilesAssumption DEF LogFile
<1>5. /\ thread' = [thread EXCEPT ![w] = r]
      /\ UNCHANGED <<disk, written, aged, flock, lines>>
  BY <1>1 DEF BeginScrub
<1> HIDE DEF r
<1>6. \A f \in LogFile : ~Holds(r, f)
  BY <1>3, LogFilesAssumption DEF Holds, LogFile
<1> QED
  BY <1>2, <1>3, <1>4, <1>5, <1>6, ThreadLooks

(* The file whose lock a thread takes is added to those it holds. *)
LEMMA TakesLock ==
  ASSUME LogsInv, NEW w \in Writer, NEW f \in LogFile, Locked(w, f)
  PROVE  /\ flock' \in [LogFile -> Writer \cup {Nobody}]
         /\ flock'[f] = w
         /\ \A g \in LogFile : flock[g] # Nobody => flock'[g] = flock[g]
         /\ \A g \in LogFile : flock[g] = w => flock'[g] = w
BY DEF LogsInv, LogsType, Locked

LEMMA StepEmitLocks ==
  ASSUME LogsInv, NEW w \in Writer, EmitLocks(w)
  PROVE  LogsInv'
<1> DEFINE b == thread[w]
           r == [b EXCEPT !.at = "write"]
<1>1. b \in ThreadRow /\ b.file \in LogFile
  BY ThreadKnown DEF EmitLocks, At
<1> HIDE DEF b
<1>2. r \in ThreadRow /\ r.at = "write" /\ r.file = b.file
  BY <1>1 DEF ThreadRow, ThreadStep
<1>3. thread' = [thread EXCEPT ![w] = r]
  BY DEF EmitLocks, Moves, b
<1>4. UNCHANGED <<disk, written, aged, lines>> /\ Locked(w, b.file) /\ lines' \in Nat
  BY DEF EmitLocks, b, LogsInv, LogsType
<1>5. /\ flock' \in [LogFile -> Writer \cup {Nobody}]
      /\ flock'[b.file] = w
      /\ \A g \in LogFile : flock[g] # Nobody => flock'[g] = flock[g]
  BY <1>1, <1>4, TakesLock
<1> HIDE DEF r
<1>6. \A f \in LogFile : Holds(r, f) => flock'[f] = w
  BY <1>2, <1>5 DEF Holds
<1> QED
  BY <1>1, <1>2, <1>3, <1>4, <1>5, <1>6, ThreadLooks

LEMMA StepEmitWrites ==
  ASSUME LogsInv, NEW w \in Writer, EmitWrites(w)
  PROVE  LogsInv'
<1> DEFINE b == thread[w]
           r == [b EXCEPT !.at = "unlock"]
           e == [line |-> b.line, whole |-> TRUE]
<1>1. b \in ThreadRow /\ b.file \in LogFile /\ b.at = "write"
  BY ThreadKnown DEF EmitWrites, At
<1>2. flock[b.file] = w
  BY <1>1, ThreadKnown DEF Holds
<1>3. thread' = [thread EXCEPT ![w] = r]
  BY DEF EmitWrites, Moves
<1>4. /\ disk' = [disk EXCEPT ![b.file] = Append(disk[b.file], e)]
      /\ written' = [written EXCEPT ![b.file] = Append(written[b.file], b.line)]
      /\ UNCHANGED <<flock, aged, lines>>
  BY DEF EmitWrites, Reopened
<1> HIDE DEF b
<1>5. r \in ThreadRow /\ r.at = "unlock" /\ r.file = b.file /\ b.line \in Nat
  BY <1>1 DEF ThreadRow, ThreadStep
<1> HIDE DEF r
<1>6. /\ disk[b.file] \in Seq(Entry) /\ written[b.file] \in Seq(Nat)
      /\ lines' \in Nat /\ flock' \in [LogFile -> Writer \cup {Nobody}]
  BY <1>1, <1>4 DEF LogsInv, LogsType
<1>7. /\ [i \in DOMAIN disk[b.file] |-> disk[b.file][i].line] = written[b.file]
      /\ OldPruned(disk[b.file], aged)
  BY <1>1 DEF LogsInv, Recorded
<1> DEFINE s == Append(disk[b.file], e)
           h == Append(written[b.file], b.line)
<1>8. /\ s \in Seq(Entry) /\ h \in Seq(Nat)
      /\ [i \in DOMAIN s |-> s[i].line] = h /\ OldPruned(s, aged)
  BY <1>5, <1>6, <1>7, AppendedLine
<1> HIDE DEF s, h
<1>9. /\ disk' = [disk EXCEPT ![b.file] = s] /\ written' = [written EXCEPT ![b.file] = h]
  BY <1>4 DEF s, h
<1>10. disk' \in [LogFile -> Seq(Entry)] /\ written' \in [LogFile -> Seq(Nat)]
  BY <1>1, <1>8, <1>9 DEF LogsInv, LogsType
<1>11. disk'[b.file] = s /\ written'[b.file] = h
  BY <1>1, <1>9 DEF LogsInv, LogsType
<1>12. \A f \in LogFile : f # b.file => disk'[f] = disk[f] /\ written'[f] = written[f]
  BY <1>9 DEF LogsInv, LogsType
<1>13. ASSUME NEW f \in LogFile PROVE Recorded(f)'
  <2>1. CASE f = b.file
    BY <1>4, <1>8, <1>11, <2>1 DEF Recorded
  <2>2. CASE f # b.file
    BY <1>4, <1>12, <2>2 DEF LogsInv, Recorded
  <2> QED
    BY <2>1, <2>2
<1>14. \A f \in LogFile : Holds(r, f) => flock'[f] = w
  BY <1>2, <1>4, <1>5 DEF Holds
<1>15. \A f \in LogFile : flock[f] \notin {w, Nobody} =>
                            flock'[f] = flock[f] /\ disk'[f] = disk[f]
  BY <1>2, <1>4, <1>12
<1> QED
  BY <1>1, <1>3, <1>4, <1>5, <1>6, <1>10, <1>13, <1>14, <1>15, ThreadMoves

LEMMA StepEmitUnlocks ==
  ASSUME LogsInv, NEW w \in Writer, EmitUnlocks(w)
  PROVE  LogsInv'
<1> DEFINE b == thread[w]
           k == b.file + 1
           next == [b EXCEPT !.at = "lock", !.file = k]
           r == IF b.file = Files THEN Quiet ELSE next
<1>1. b \in ThreadRow /\ b.file \in LogFile /\ b.at = "unlock"
  BY ThreadKnown DEF EmitUnlocks, At
<1>2. flock[b.file] = w
  BY <1>1, ThreadKnown DEF Holds
<1>3. /\ flock' = [flock EXCEPT ![b.file] = Nobody]
      /\ UNCHANGED <<disk, written, aged, lines>>
      /\ thread' = [thread EXCEPT ![w] = r]
  BY DEF EmitUnlocks
<1>4. lines' \in Nat /\ flock' \in [LogFile -> Writer \cup {Nobody}]
      /\ \A f \in LogFile : flock[f] \notin {w, Nobody} => flock'[f] = flock[f]
  BY <1>1, <1>2, <1>3 DEF LogsInv, LogsType
<1> HIDE DEF b
<1>5. next \in ThreadRow /\ next.at = "lock" /\ next.file = b.file + 1
  <2>1. k \in Nat
    BY <1>1 DEF LogFile
  <2> HIDE DEF k
  <2>2. next \in ThreadRow /\ next.at = "lock" /\ next.file = k
    BY <1>1, <2>1 DEF ThreadRow, ThreadStep
  <2> QED
    BY <2>2 DEF k
<1> HIDE DEF next
<1>6. r \in ThreadRow /\ r.at \in {"idle", "lock"} /\ (r.at = "lock" => r.file \in LogFile)
  <2>1. CASE b.file = Files
    BY <2>1, QuietRow
  <2>2. CASE b.file # Files
    BY <1>1, <1>5, <2>2, LogFilesAssumption DEF LogFile
  <2> QED
    BY <2>1, <2>2
<1> HIDE DEF r
<1>7. \A f \in LogFile : ~Holds(r, f)
  BY <1>6 DEF Holds
<1>8. r.at # "idle" => r.file \in LogFile
  BY <1>6
<1>9. r.at # "replace"
  BY <1>6
<1> QED
  BY <1>3, <1>4, <1>6, <1>7, <1>8, <1>9, ThreadLooks

LEMMA StepClaim ==
  ASSUME LogsInv, NEW w \in Writer, Claim(w)
  PROVE  LogsInv'
<1> DEFINE b == thread[w]
           next == [b EXCEPT !.file = @ + 1]
           ready == [b EXCEPT !.at = "copy", !.file = 1]
<1>1. b \in ThreadRow /\ b.file \in LogFile /\ b.at = "claim"
  BY ThreadKnown DEF Claim, At
<1>2. \A f \in LogFile : f < b.file => flock[f] = w
  BY <1>1, ThreadKnown DEF Holds
<1>3. Locked(w, b.file) /\ UNCHANGED <<disk, written, aged, lines>>
  BY DEF Claim
<1>4. lines' \in Nat
  BY <1>3 DEF LogsInv, LogsType
<1>5. /\ flock' \in [LogFile -> Writer \cup {Nobody}]
      /\ flock'[b.file] = w
      /\ \A g \in LogFile : flock[g] # Nobody => flock'[g] = flock[g]
      /\ \A g \in LogFile : flock[g] = w => flock'[g] = w
  BY <1>1, <1>3, TakesLock
<1>6. \A f \in LogFile : f <= b.file => flock'[f] = w
  BY <1>1, <1>2, <1>5 DEF LogFile
<1>7. \A f \in LogFile : flock[f] \notin {w, Nobody} => flock'[f] = flock[f]
  BY <1>5
<1>8. IF b.file < Files THEN thread' = [thread EXCEPT ![w] = next]
                        ELSE thread' = [thread EXCEPT ![w] = ready]
  BY DEF Claim
<1> HIDE DEF b
<1>9. CASE b.file < Files
  <2>1. next \in ThreadRow /\ next.at = "claim" /\ next.file = b.file + 1
    BY <1>1 DEF ThreadRow, LogFile
  <2>2. thread' = [thread EXCEPT ![w] = next]
    BY <1>8, <1>9
  <2> HIDE DEF next
  <2>3. next.file \in LogFile
    BY <1>1, <1>9, <2>1, LogFilesAssumption DEF LogFile
  <2>4. \A f \in LogFile : Holds(next, f) => flock'[f] = w
    BY <1>1, <1>6, <2>1 DEF Holds, LogFile
  <2> QED
    BY <1>3, <1>4, <1>5, <1>7, <2>1, <2>2, <2>3, <2>4, ThreadLooks
<1>10. CASE ~(b.file < Files)
  <2>1. ready \in ThreadRow /\ ready.at = "copy" /\ ready.file = 1
    BY <1>1 DEF ThreadRow, ThreadStep
  <2>2. thread' = [thread EXCEPT ![w] = ready]
    BY <1>8, <1>10
  <2> HIDE DEF ready
  <2>3. ready.file \in LogFile
    BY <2>1, LogFilesAssumption DEF LogFile
  <2>4. \A f \in LogFile : flock'[f] = w
    BY <1>1, <1>6, <1>10, LogFilesAssumption DEF LogFile
  <2> QED
    BY <1>3, <1>4, <1>5, <1>7, <2>1, <2>2, <2>3, <2>4, ThreadLooks
<1> QED
  BY <1>9, <1>10

LEMMA StepCopy ==
  ASSUME LogsInv, NEW w \in Writer, Copy(w)
  PROVE  LogsInv'
<1> DEFINE b == thread[w]
           d == disk[b.file]
           s == [i \in DOMAIN d |-> Scrubbed(d[i], b.keep)]
           moved == s # d
           copied == [b EXCEPT !.at = "replace", !.copy = s, !.changed = moved]
           left == [b EXCEPT !.at = "reopen"]
<1>1. b \in ThreadRow /\ b.file \in LogFile /\ b.at = "copy"
  BY ThreadKnown DEF Copy, At
<1>2. \A f \in LogFile : flock[f] = w
  BY <1>1, ThreadKnown DEF Holds
<1>3. d \in Seq(Entry) /\ OldPruned(d, aged)
  BY <1>1 DEF LogsInv, LogsType, Recorded
<1>4. s \in Seq(Entry) /\ SameLines(s, d) /\ OldPruned(s, aged)
  BY <1>3, CopiedLines
<1>5. UNCHANGED <<disk, written, aged, lines, flock>>
      /\ lines' \in Nat /\ flock' \in [LogFile -> Writer \cup {Nobody}]
  BY DEF Copy, LogsInv, LogsType
<1>6. thread' = [thread EXCEPT ![w] = copied] \/ thread' = [thread EXCEPT ![w] = left]
  BY DEF Copy, Moves
<1>7. moved \in BOOLEAN
  OBVIOUS
<1> HIDE DEF b, s, moved
<1>8. /\ copied \in ThreadRow /\ copied.at = "replace" /\ copied.file = b.file
      /\ copied.copy = s
  BY <1>1, <1>4, <1>7 DEF ThreadRow, ThreadStep
<1>9. left \in ThreadRow /\ left.at = "reopen" /\ left.file = b.file
  BY <1>1 DEF ThreadRow, ThreadStep
<1> HIDE DEF copied, left
<1>10. CASE thread' = [thread EXCEPT ![w] = copied]
  BY <1>1, <1>2, <1>4, <1>5, <1>8, <1>10, ThreadLooks
<1>11. CASE thread' = [thread EXCEPT ![w] = left]
  BY <1>1, <1>2, <1>5, <1>9, <1>11, ThreadLooks
<1> QED
  BY <1>6, <1>10, <1>11

LEMMA StepReplace ==
  ASSUME LogsInv, NEW w \in Writer, Replace(w)
  PROVE  LogsInv'
<1> DEFINE b == thread[w]
           step == IF b.file = Files THEN "reopen" ELSE "copy"
           next == IF b.file = Files THEN b.file ELSE b.file + 1
           r == [b EXCEPT !.at = step, !.file = next, !.copy = <<>>, !.changed = FALSE]
           s == IF b.changed THEN b.copy ELSE disk[b.file]
<1>1. b \in ThreadRow /\ b.file \in LogFile /\ b.at = "replace"
  BY ThreadKnown DEF Replace, At
<1>2. \A f \in LogFile : flock[f] = w
  BY <1>1, ThreadKnown DEF Holds
<1>3. SameLines(b.copy, disk[b.file]) /\ OldPruned(b.copy, aged)
  BY <1>1 DEF LogsInv, CopyKept
<1>4. /\ thread' = [thread EXCEPT ![w] = r]
      /\ UNCHANGED <<written, flock, aged, lines>>
      /\ IF b.changed THEN disk' = [disk EXCEPT ![b.file] = b.copy] ELSE disk' = disk
  BY DEF Replace
<1>5. /\ disk[b.file] \in Seq(Entry) /\ b.copy \in Seq(Entry)
      /\ lines' \in Nat /\ flock' \in [LogFile -> Writer \cup {Nobody}]
      /\ written' \in [LogFile -> Seq(Nat)] /\ disk \in [LogFile -> Seq(Entry)]
  BY <1>1, <1>4 DEF LogsInv, LogsType, ThreadRow
<1>6. Recorded(b.file) /\ \A f \in LogFile : Recorded(f)
  BY <1>1 DEF LogsInv
<1> HIDE DEF b
<1>7. s \in Seq(Entry) /\ SameLines(s, disk[b.file]) /\ OldPruned(s, aged)
  BY <1>3, <1>5, <1>6 DEF SameLines, Recorded
<1>8. disk' = [disk EXCEPT ![b.file] = s]
  BY <1>4, <1>5
<1> HIDE DEF s
<1>9. disk' \in [LogFile -> Seq(Entry)] /\ disk'[b.file] = s
      /\ \A f \in LogFile : f # b.file => disk'[f] = disk[f]
  BY <1>1, <1>5, <1>7, <1>8
<1>10. [i \in DOMAIN s |-> s[i].line] = written[b.file]
  BY <1>5, <1>6, <1>7, SameRecord DEF Recorded
<1>11. ASSUME NEW f \in LogFile PROVE Recorded(f)'
  <2>1. CASE f = b.file
    BY <1>4, <1>7, <1>9, <1>10, <2>1 DEF Recorded
  <2>2. CASE f # b.file
    BY <1>4, <1>6, <1>9, <2>2 DEF Recorded
  <2> QED
    BY <2>1, <2>2
<1>12. step \in {"reopen", "copy"} /\ next \in Nat /\ next \in LogFile
  BY <1>1, LogFilesAssumption DEF LogFile
<1> HIDE DEF step, next
<1>13. r \in ThreadRow /\ r.at = step /\ r.file = next
  BY <1>1, <1>12, EmptySeq DEF ThreadRow, ThreadStep
<1> HIDE DEF r
<1>14. \A f \in LogFile : Holds(r, f) => flock'[f] = w
  BY <1>2, <1>4
<1>15. \A f \in LogFile : flock[f] \notin {w, Nobody} =>
                            flock'[f] = flock[f] /\ disk'[f] = disk[f]
  BY <1>2
<1>16. r.at # "replace" /\ r.file \in LogFile
  BY <1>12, <1>13
<1> QED
  BY <1>4, <1>5, <1>9, <1>11, <1>13, <1>14, <1>15, <1>16, ThreadMoves

LEMMA StepReopen ==
  ASSUME LogsInv, NEW w \in Writer, Reopen(w)
  PROVE  LogsInv'
<1>1. /\ thread' = [thread EXCEPT ![w] = Quiet]
      /\ UNCHANGED <<disk, written, aged, lines>>
      /\ flock' = [f \in LogFile |-> IF flock[f] = w THEN Nobody ELSE flock[f]]
  BY DEF Reopen
<1>2. /\ lines' \in Nat /\ flock' \in [LogFile -> Writer \cup {Nobody}]
      /\ \A f \in LogFile : flock[f] \notin {w, Nobody} => flock'[f] = flock[f]
  BY <1>1 DEF LogsInv, LogsType
<1>3. \A f \in LogFile : ~Holds(Quiet, f)
  BY QuietRow DEF Holds
<1> QED
  BY <1>1, <1>2, <1>3, QuietRow, ThreadLooks

(* The locks of the dead are free, their files are as they left them. *)
LEMMA StepDie ==
  ASSUME LogsInv, NEW l, Die(l)
  PROVE  LogsInv'
<1> DEFINE dead == {w \in Writer : LoggerOf[w] = l}
<1>1. /\ thread' = [w \in Writer |-> IF w \in dead THEN Quiet ELSE thread[w]]
      /\ flock' = [f \in LogFile |-> IF flock[f] \in dead THEN Nobody ELSE flock[f]]
      /\ UNCHANGED <<disk, lines, aged, written>>
  BY DEF Die
<1> HIDE DEF dead
<1>2. LogsType'
  BY <1>1, QuietRow DEF LogsInv, LogsType
<1>3. ASSUME NEW x \in Writer PROVE HeldBy(x)' /\ CopyKept(x)'
  <2>1. CASE x \in dead
    <3>1. thread'[x] = Quiet
      BY <1>1, <2>1
    <3> QED
      BY <3>1, QuietRow DEF HeldBy, CopyKept, Holds
  <2>2. CASE x \notin dead
    <3>1. thread'[x] = thread[x]
      BY <1>1, <2>2
    <3>2. \A f \in LogFile : flock[f] = x => flock'[f] = x /\ disk'[f] = disk[f]
      BY <1>1, <2>2
    <3>3. aged \subseteq aged'
      BY <1>1
    <3> QED
      BY <3>1, <3>2, <3>3, Bystander
  <2> QED
    BY <2>1, <2>2
<1>4. \A f \in LogFile : Recorded(f)'
  BY <1>1 DEF LogsInv, Recorded
<1> QED
  BY <1>2, <1>3, <1>4 DEF LogsInv

LEMMA StepAgeLine ==
  ASSUME LogsInv, NEW n \in 1..MaxLine, AgeLine(n)
  PROVE  LogsInv'
<1>1. /\ aged' = aged \cup {n} /\ n \in Nat
      /\ UNCHANGED <<disk, flock, thread, lines, written>>
  BY LogFilesAssumption DEF AgeLine, LogsInv, LogsType
<1>2. LogsType'
  BY <1>1 DEF LogsInv, LogsType
<1>3. ASSUME NEW x \in Writer PROVE HeldBy(x)' /\ CopyKept(x)'
  <2>1. thread'[x] = thread[x] /\ aged \subseteq aged'
        /\ \A f \in LogFile : flock[f] = x => flock'[f] = x /\ disk'[f] = disk[f]
    BY <1>1
  <2> QED
    BY <2>1, Bystander
<1>4. \A f \in LogFile : Recorded(f)'
  BY <1>1 DEF LogsInv, Recorded, OldPruned
<1> QED
  BY <1>2, <1>3, <1>4 DEF LogsInv

LEMMA LogsStep ==
  ASSUME LogsInv, [LogsNext]_logVars
  PROVE  LogsInv'
<1>1. ASSUME NEW w \in Writer, Emit(w) \/ BeginScrub(w) \/ Writes(w) PROVE LogsInv'
  BY <1>1, StepEmit, StepBeginScrub, StepEmitLocks, StepEmitWrites, StepEmitUnlocks,
     StepClaim, StepCopy, StepReplace, StepReopen DEF Writes
<1>2. CASE UNCHANGED logVars
  <2>1. UNCHANGED <<disk, flock, thread, lines, aged, written>>
    BY <1>2 DEF logVars
  <2> QED
    BY <2>1 DEF LogsInv, LogsType, HeldBy, CopyKept, Recorded
<1> QED
  BY <1>1, <1>2, StepDie, StepAgeLine DEF LogsNext

LEMMA LogsStart == LogsInit => LogsInv
<1> SUFFICES ASSUME LogsInit PROVE LogsInv
  OBVIOUS
<1>1. LogsType
  BY EmptySeq, QuietRow DEF LogsInit, LogsType
<1>2. ASSUME NEW w \in Writer PROVE HeldBy(w) /\ CopyKept(w)
  <2>1. thread[w] = Quiet
    BY DEF LogsInit
  <2> QED
    BY <2>1, QuietRow DEF HeldBy, CopyKept, Holds
<1>3. ASSUME NEW f \in LogFile PROVE Recorded(f)
  <2>1. disk[f] = <<>> /\ written[f] = <<>>
    BY DEF LogsInit
  <2>2. DOMAIN <<>> = {}
    OBVIOUS
  <2>3. [i \in {} |-> <<>>[i].line] = <<>>
    OBVIOUS
  <2> QED
    BY <2>1, <2>2, <2>3 DEF Recorded, OldPruned
<1> QED
  BY <1>1, <1>2, <1>3 DEF LogsInv

(* However many processes and threads log, whichever of them scrubs and    *)
(* wherever one dies: every line that was written is in the file its path  *)
(* names, once and in order, and only old lines have lost their payload.   *)
(* The inductive invariant is that whoever writes, copies or replaces a    *)
(* file holds its advisory lock, so that a copy stays up to date.          *)
THEOREM NoLineLost == LogsSpec => []LinesKept
<1>1. LogsInv => LinesKept
  BY DEF LogsInv, Recorded, OldPruned, LinesKept
<1> QED
  BY <1>1, LogsStart, LogsStep, PTL DEF LogsSpec

------------------------------------------------------------------------------
(* The product policy.  Each row is written with its audit.                *)
PolicyInv == /\ chats = [c \in Chat |-> chats[c]]
             /\ audited = [key \in Keys |-> audited[key]]
             /\ PolicyIsAudited

LEMMA AuditsAgree ==
  PolicyIsAudited <=> global = audited[GlobalKey] /\ \A c \in Chat : chats[c] = audited[c]
BY PolicyAssumption DEF PolicyIsAudited, Keys, AuditOf

LEMMA StepImport ==
  ASSUME PolicyInv, NEW config \in Imports, NEW replace \in BOOLEAN,
         ImportConfig(config, replace)
  PROVE  PolicyInv'
<1> DEFINE writes(old) == old = NoPolicy \/ replace
           some == {c \in DOMAIN config.chats : writes(chats[c])}
<1>1. some \subseteq Chat /\ GlobalKey \notin some /\ GlobalKey \in Keys /\ Chat \subseteq Keys
  BY PolicyAssumption DEF Keys
<1>2. /\ global' = IF writes(global) THEN config.global ELSE global
      /\ chats' = [c \in Chat |-> IF c \in some THEN config.chats[c] ELSE chats[c]]
      /\ audited' = [key \in Keys |->
           IF key \in some THEN config.chats[key]
           ELSE IF key = GlobalKey /\ writes(global) THEN config.global
           ELSE audited[key]]
  BY DEF ImportConfig, ImportAudit
<1> HIDE DEF some, writes
<1>3. global = audited[GlobalKey] /\ \A c \in Chat : chats[c] = audited[c]
  BY AuditsAgree DEF PolicyInv
<1>4. global' = audited'[GlobalKey]
  BY <1>1, <1>2, <1>3
<1>5. ASSUME NEW c \in Chat PROVE chats'[c] = audited'[c]
  <2>1. c \in Keys /\ c # GlobalKey
    BY <1>1, PolicyAssumption
  <2> QED
    BY <1>2, <1>3, <2>1
<1>6. PolicyIsAudited'
  BY <1>4, <1>5, PolicyAssumption DEF PolicyIsAudited, Keys, AuditOf
<1> QED
  BY <1>2, <1>6 DEF PolicyInv

LEMMA StepPolicy ==
  ASSUME PolicyInv, PolicyNext
  PROVE  PolicyInv'
<1> USE DEF PolicyInv, PolicyIsAudited, AuditOf, Keys
<1>1. ASSUME NEW policy \in GlobalPolicies, UpdateGlobal(policy) PROVE PolicyInv'
  BY <1>1, PolicyAssumption DEF UpdateGlobal
<1>2. ASSUME NEW c \in Chat, NEW policy \in ChatPolicies, UpsertChat(c, policy)
      PROVE  PolicyInv'
  BY <1>2, PolicyAssumption DEF UpsertChat
<1>3. ASSUME NEW c \in Chat, DeleteChat(c) PROVE PolicyInv'
  BY <1>3, PolicyAssumption DEF DeleteChat
<1> QED
  BY <1>1, <1>2, <1>3, StepImport DEF PolicyNext

(* Steps of the daemon's downloads and prunings make no policy. *)
LEMMA FilesMakeNoPolicy == FilesNext => UNCHANGED policyVars
<1> USE DEF FactsKept, allMemberVars, policyVars
<1>1. BeginDownloads \/ EndDownloads \/ FetchOk \/ FetchFails \/ FetchRefused \/ RecordRefusal
        \/ Accept \/ Publish \/ RecordDownload \/ CrashDownloads => UNCHANGED policyVars
  BY DEF BeginDownloads, EndDownloads, FetchOk, FetchFails, FetchRefused, RecordRefusal,
         Accept, Publish, RecordDownload, CrashDownloads
<1>2. ASSUME NEW r, Gate(r) \/ Watch(r) \/ Age(r) PROVE UNCHANGED policyVars
  BY <1>2 DEF Gate, Watch, Age
<1>3. ASSUME NEW p, BeginPrune(p) \/ MarkExpired(p) \/ \E r \in Resource : Unlink(p, r)
      PROVE  UNCHANGED policyVars
  BY <1>3 DEF BeginPrune, MarkExpired, Unlink
<1> QED
  BY <1>1, <1>2, <1>3 DEF FilesNext

(* Whoever imports, edits or deletes policies and whatever probes, replies *)
(* and downloads observe of the bot's membership: the row of a chat, and   *)
(* the global policy, is what its last audit says.                         *)
THEOREM EveryPolicyIsAudited == Spec => []PolicyIsAudited
<1>1. Init => PolicyInv
  BY DEF Init, PolicyInit, PolicyInv, PolicyIsAudited, AuditOf, Keys
<1>2. ASSUME PolicyInv, [Next]_vars PROVE PolicyInv'
  <2>1. PolicyNext \/ UNCHANGED policyVars
    BY <1>2, FilesMakeNoPolicy DEF Next, vars, allMemberVars
  <2>2. CASE UNCHANGED policyVars
    BY <1>2, <2>2 DEF policyVars, PolicyInv, PolicyIsAudited, AuditOf
  <2> QED
    BY <1>2, <2>1, <2>2, StepPolicy
<1>3. PolicyInv => PolicyIsAudited
  BY DEF PolicyInv
<1> QED
  BY <1>1, <1>2, <1>3, PTL DEF Spec

------------------------------------------------------------------------------
(* Membership notices.  An announcement that is still to be created is     *)
(* part of the alternation.                                                *)
MemberType ==
  /\ fact \in [Chat -> Fact \cup {NoFact}] /\ saving \in Notice \cup {NoNotice}
  /\ told \in [Chat -> Seq({"absent", "recovered"})]

Alternates(s) == \A i \in 1..Len(s) : s[i] = IF i % 2 = 1 THEN "absent" ELSE "recovered"

(* The last notice told the owner that the bot is absent. *)
ToldAbsent(c) == Len(told[c]) % 2 = 1

NoticeOf(c) ==
  /\ Alternates(told[c])
  /\ IF saving # NoNotice /\ saving.chat = c
     THEN /\ saving.kind = "absent" <=> LastConfirmed(c) = "absent"
          /\ saving.kind = "absent" <=> ~ToldAbsent(c)
     ELSE LastConfirmed(c) = "absent" <=> ToldAbsent(c)

NoticeInv == MemberType /\ \A c \in Chat \ lost : NoticeOf(c)

LEMMA NextTurn ==
  ASSUME NEW s \in Seq({"absent", "recovered"}), NEW kind \in {"absent", "recovered"},
         Alternates(s), kind = "absent" <=> Len(s) % 2 # 1
  PROVE  /\ Append(s, kind) \in Seq({"absent", "recovered"})
         /\ Alternates(Append(s, kind))
         /\ kind = "absent" <=> Len(Append(s, kind)) % 2 = 1
<1> DEFINE t == Append(s, kind)
<1>1. /\ t \in Seq({"absent", "recovered"}) /\ Len(t) = Len(s) + 1
      /\ \A i \in 1..Len(s) : t[i] = s[i]
      /\ t[Len(s) + 1] = kind
  BY AppendProperties
<1>2. Len(s) \in Nat
  OBVIOUS
<1> HIDE DEF t
<1>3. (Len(s) + 1) % 2 = 1 <=> Len(s) % 2 # 1
  BY <1>2
<1>4. ASSUME NEW i \in 1..Len(t) PROVE t[i] = IF i % 2 = 1 THEN "absent" ELSE "recovered"
  <2>1. CASE i = Len(s) + 1
    BY <1>1, <1>3, <2>1
  <2>2. CASE i # Len(s) + 1
    <3>1. i \in 1..Len(s)
      BY <1>1, <1>2, <2>2
    <3> QED
      BY <1>1, <3>1 DEF Alternates
  <2> QED
    BY <2>1, <2>2
<1> QED
  BY <1>1, <1>3, <1>4 DEF Alternates, t

(* An observation and its notice keep the turn. *)
LEMMA StepObserve ==
  ASSUME NoticeInv, NEW c \in Chat, NEW status \in Status, Observe(c, status),
         UNCHANGED <<told, lost>>
  PROVE  NoticeInv'
<1> DEFINE before == LastConfirmed(c)
           again == status = "absent" /\ before # "absent"
           back == status = "present" /\ before = "absent"
           confirmed == IF status = "unknown" THEN before ELSE status
           episode == IF again THEN Episode(c) + 1 ELSE Episode(c)
           new == [status |-> status, fresh |-> TRUE, confirmed |-> confirmed,
                   episode |-> episode]
<1>1. /\ saving = NoNotice /\ (again => Episode(c) < MaxEpisode)
      /\ fact' = [fact EXCEPT ![c] = new]
      /\ saving' = IF again THEN [chat |-> c, kind |-> "absent"]
                   ELSE IF back THEN [chat |-> c, kind |-> "recovered"] ELSE NoNotice
  BY DEF Observe
<1>2. before \in {"present", "absent", "never"} /\ Episode(c) \in 0..MaxEpisode
  BY MembershipAssumption
     DEF NoticeInv, MemberType, LastConfirmed, Confirmed, Episode, Fact
<1> HIDE DEF before
<1>3. confirmed \in {"present", "absent", "never"} /\ episode \in 0..MaxEpisode
  BY <1>1, <1>2, MembershipAssumption DEF Status
<1>4. new \in Fact /\ new.confirmed = confirmed
  <2> HIDE DEF confirmed, episode
  <2> QED
    BY <1>3 DEF Fact, Status
<1> HIDE DEF new
<1>5. /\ fact' \in [Chat -> Fact \cup {NoFact}] /\ fact'[c] = new
      /\ \A x \in Chat : x # c => fact'[x] = fact[x]
  BY <1>1, <1>4 DEF NoticeInv, MemberType
<1>6. LastConfirmed(c)' = confirmed
  BY <1>4, <1>5, MembershipAssumption DEF LastConfirmed, Confirmed
<1>7. MemberType'
  BY <1>1, <1>5 DEF NoticeInv, MemberType, Notice
<1>8. ASSUME NEW x \in Chat \ lost PROVE NoticeOf(x)'
  <2>1. Alternates(told[x])' /\ ToldAbsent(x)' = ToldAbsent(x)
    BY DEF NoticeInv, NoticeOf, Alternates, ToldAbsent
  <2>2. LastConfirmed(x) = "absent" <=> ToldAbsent(x)
    BY <1>1 DEF NoticeInv, NoticeOf
  <2>3. CASE x = c
    <3>1. (before = "absent") <=> ToldAbsent(c)
      BY <2>2, <2>3 DEF before
    <3>2. CASE again
      <4>1. saving' = [chat |-> c, kind |-> "absent"] /\ confirmed = "absent" /\ ~ToldAbsent(c)
        BY <1>1, <3>1, <3>2
      <4>2. saving' # NoNotice /\ saving'.chat = c /\ saving'.kind = "absent"
        BY <4>1, MembershipAssumption DEF Notice
      <4> QED
        BY <1>6, <2>1, <2>3, <4>1, <4>2 DEF NoticeOf
    <3>3. CASE back
      <4>1. saving' = [chat |-> c, kind |-> "recovered"] /\ confirmed # "absent" /\ ToldAbsent(c)
        BY <1>1, <3>1, <3>3
      <4>2. saving' # NoNotice /\ saving'.chat = c /\ saving'.kind = "recovered"
        BY <4>1, MembershipAssumption DEF Notice
      <4> QED
        BY <1>6, <2>1, <2>3, <4>1, <4>2 DEF NoticeOf
    <3>4. CASE ~again /\ ~back
      <4>1. saving' = NoNotice
        BY <1>1, <3>4
      <4>2. confirmed = "absent" <=> before = "absent"
        BY <3>4 DEF Status
      <4> QED
        BY <1>6, <2>1, <2>3, <3>1, <4>1, <4>2 DEF NoticeOf
    <3> QED
      BY <3>2, <3>3, <3>4
  <2>4. CASE x # c
    <3>1. LastConfirmed(x)' = LastConfirmed(x)
      BY <1>5, <2>4 DEF LastConfirmed, Confirmed
    <3>2. ~(saving' # NoNotice /\ saving'.chat = x)
      BY <1>1, <2>4
    <3> QED
      BY <2>1, <2>2, <3>1, <3>2 DEF NoticeOf
  <2> QED
    BY <2>3, <2>4
<1> QED
  BY <1>7, <1>8 DEF NoticeInv

LEMMA StepNotify ==
  ASSUME NoticeInv, Notify
  PROVE  NoticeInv'
<1>1. /\ saving # NoNotice /\ saving' = NoNotice /\ fact' = fact /\ lost' = lost
      /\ told' = [told EXCEPT ![saving.chat] = Append(told[saving.chat], saving.kind)]
  BY DEF Notify
<1> DEFINE k == saving.chat
           kind == saving.kind
<1>2. k \in Chat /\ kind \in {"absent", "recovered"}
  BY <1>1 DEF NoticeInv, MemberType, Notice
<1>3. told[k] \in Seq({"absent", "recovered"})
  BY <1>2 DEF NoticeInv, MemberType
<1> DEFINE t == Append(told[k], kind)
<1>4. t \in Seq({"absent", "recovered"})
  BY <1>2, <1>3, AppendProperties
<1>5. /\ told' = [told EXCEPT ![k] = t] /\ told' \in [Chat -> Seq({"absent", "recovered"})]
      /\ told'[k] = t
      /\ \A x \in Chat : x # k => told'[x] = told[x]
  BY <1>1, <1>2, <1>4 DEF NoticeInv, MemberType
<1>6. MemberType'
  BY <1>1, <1>5 DEF NoticeInv, MemberType
<1>7. ASSUME NEW x \in Chat \ lost PROVE NoticeOf(x)'
  <2>1. LastConfirmed(x)' = LastConfirmed(x)
    BY <1>1 DEF LastConfirmed, Confirmed
  <2>2. CASE x = k
    <3>1. Alternates(told[k]) /\ (kind = "absent" <=> Len(told[k]) % 2 # 1)
          /\ (kind = "absent" <=> LastConfirmed(k) = "absent")
      BY <1>1, <2>2 DEF NoticeInv, NoticeOf, ToldAbsent
    <3>2. Alternates(t) /\ (kind = "absent" <=> Len(t) % 2 = 1)
      BY <1>2, <1>3, <3>1, NextTurn
    <3> HIDE DEF t, k, kind
    <3> QED
      BY <1>1, <1>5, <2>1, <2>2, <3>1, <3>2 DEF NoticeOf, ToldAbsent, Alternates
  <2>3. CASE x # k
    BY <1>1, <1>5, <2>1, <2>3 DEF NoticeInv, NoticeOf, ToldAbsent, Alternates
  <2> QED
    BY <2>2, <2>3
<1> QED
  BY <1>1, <1>6, <1>7 DEF NoticeInv

LEMMA StepCrashNotice ==
  ASSUME NoticeInv, CrashBeforeNotice
  PROVE  NoticeInv'
<1>1. /\ saving # NoNotice /\ saving' = NoNotice /\ lost' = lost \cup {saving.chat}
      /\ UNCHANGED <<fact, told>>
  BY DEF CrashBeforeNotice
<1>2. ASSUME NEW x \in Chat \ lost' PROVE NoticeOf(x)'
  <2>1. x \in Chat \ lost /\ saving.chat # x
    BY <1>1
  <2>2. LastConfirmed(x)' = LastConfirmed(x)
    BY <1>1 DEF LastConfirmed, Confirmed
  <2> QED
    BY <1>1, <2>1, <2>2 DEF NoticeInv, NoticeOf, ToldAbsent, Alternates
<1> QED
  BY <1>1, <1>2 DEF NoticeInv, MemberType

LEMMA StepExpire ==
  ASSUME NoticeInv, NEW c \in Chat, Expire(c)
  PROVE  NoticeInv'
<1> DEFINE b == fact[c]
           new == [b EXCEPT !.fresh = FALSE]
<1>1. b \in Fact /\ fact' = [fact EXCEPT ![c] = new] /\ UNCHANGED <<saving, told, lost>>
  BY DEF Expire, NoticeInv, MemberType
<1> HIDE DEF b
<1>2. new \in Fact /\ new.confirmed = b.confirmed
  BY <1>1 DEF Fact
<1> HIDE DEF new
<1>3. /\ fact' \in [Chat -> Fact \cup {NoFact}] /\ fact'[c] = new
      /\ \A x \in Chat : x # c => fact'[x] = fact[x]
  BY <1>1, <1>2 DEF NoticeInv, MemberType
<1>4. ASSUME NEW x \in Chat PROVE LastConfirmed(x)' = LastConfirmed(x)
  <2>1. CASE x = c
    BY <1>1, <1>2, <1>3, <2>1, MembershipAssumption DEF LastConfirmed, Confirmed, b
  <2>2. CASE x # c
    BY <1>3, <2>2 DEF LastConfirmed, Confirmed
  <2> QED
    BY <2>1, <2>2
<1> QED
  BY <1>1, <1>3, <1>4 DEF NoticeInv, MemberType, NoticeOf, ToldAbsent, Alternates

(* A step that observes nothing and announces nothing. *)
LEMMA StepUnobserved ==
  ASSUME NoticeInv, UNCHANGED <<fact, saving, told, lost>>
  PROVE  NoticeInv'
<1>1. ASSUME NEW x PROVE LastConfirmed(x)' = LastConfirmed(x)
  BY DEF LastConfirmed, Confirmed
<1> QED
  BY <1>1 DEF NoticeInv, MemberType, NoticeOf, ToldAbsent, Alternates

LEMMA StepRefused ==
  ASSUME NoticeInv, NEW c \in Chat, Refused(c), UNCHANGED <<told, lost>>
  PROVE  NoticeInv'
BY StepObserve DEF Refused, Status

LEMMA StepMember ==
  ASSUME NoticeInv, MemberNext
  PROVE  NoticeInv'
<1>1. ASSUME NEW c \in Chat, Probe(c) PROVE NoticeInv'
  <2>1. PICK status \in {"unknown", IF member[c] THEN "present" ELSE "absent"} :
          Observe(c, status)
    BY <1>1 DEF Probe
  <2>2. status \in Status /\ UNCHANGED <<told, lost>>
    BY <1>1 DEF Probe, Status
  <2> QED
    BY <2>1, <2>2, StepObserve
<1>2. ASSUME NEW c \in Chat, Dispatch(c) PROVE NoticeInv'
  <2>1. UNCHANGED <<told, lost>> /\ (Refused(c) \/ UNCHANGED <<fact, saving>>)
    BY <1>2 DEF Dispatch
  <2> QED
    BY <2>1, StepRefused, StepUnobserved
<1>3. ASSUME NEW c \in Chat, Move(c) \/ \E fit, direct \in BOOLEAN : Draft(c, fit, direct)
      PROVE  NoticeInv'
  BY <1>3, StepUnobserved DEF Move, Draft
<1> QED
  BY <1>1, <1>2, <1>3, StepExpire, StepNotify, StepCrashNotice DEF MemberNext

(* Only a refused download observes. *)
LEMMA FilesObserve ==
  FilesNext => /\ UNCHANGED <<told, lost>>
               /\ UNCHANGED <<fact, saving>> \/ \E c \in Chat : Refused(c)
<1> SUFFICES ASSUME FilesNext
             PROVE  /\ UNCHANGED <<told, lost>>
                    /\ UNCHANGED <<fact, saving>> \/ \E c \in Chat : Refused(c)
  OBVIOUS
<1>1. CASE RecordRefusal
  <2>1. UNCHANGED <<told, lost>>
        /\ (Refused(ChatOf[job.resource]) \/ UNCHANGED <<fact, saving>>)
    BY <1>1 DEF RecordRefusal
  <2>2. Refused(ChatOf[job.resource]) => ChatOf[job.resource] \in Chat
    BY PolicyAssumption DEF Refused
  <2> QED
    BY <2>1, <2>2
<1> USE DEF FactsKept, allMemberVars, memberVars
<1>2. CASE BeginDownloads \/ EndDownloads \/ FetchOk \/ FetchFails \/ FetchRefused
             \/ Accept \/ Publish \/ RecordDownload \/ CrashDownloads
  BY <1>2 DEF BeginDownloads, EndDownloads, FetchOk, FetchFails, FetchRefused,
              Accept, Publish, RecordDownload, CrashDownloads
<1>3. ASSUME NEW r \in Resource, Gate(r) \/ Watch(r) \/ Age(r)
      PROVE  UNCHANGED <<told, lost, fact, saving>>
  BY <1>3 DEF Gate, Watch, Age
<1>4. ASSUME NEW p \in Pruner,
             BeginPrune(p) \/ MarkExpired(p) \/ \E r \in Resource : Unlink(p, r)
      PROVE  UNCHANGED <<told, lost, fact, saving>>
  BY <1>4 DEF BeginPrune, MarkExpired, Unlink
<1> QED
  BY <1>1, <1>2, <1>3, <1>4 DEF FilesNext

(* Whatever the platform does, whichever probes fail and whatever expires: *)
(* the owner hears of absences and recoveries in turn, and the last notice *)
(* says what was last confirmed, in every chat no notice of which was lost *)
(* in a crash between the fact and its notice.                             *)
THEOREM NoticesTakeTurns == Spec => []NoticesAlternate
<1>1. Init => NoticeInv
  <2> SUFFICES ASSUME MemberInit PROVE NoticeInv
    BY DEF Init
  <2>1. MemberType
    BY EmptySeq DEF MemberInit, MemberType
  <2>2. ASSUME NEW c \in Chat PROVE NoticeOf(c)
    <3>1. told[c] = <<>> /\ fact[c] = NoFact /\ saving = NoNotice /\ Len(told[c]) = 0
      BY EmptySeq DEF MemberInit
    <3> QED
      BY <3>1 DEF NoticeOf, Alternates, ToldAbsent, LastConfirmed, Confirmed
  <2> QED
    BY <2>1, <2>2 DEF NoticeInv
<1>2. ASSUME NoticeInv, [Next]_vars PROVE NoticeInv'
  <2>1. CASE MemberNext
    BY <1>2, <2>1, StepMember
  <2>2. CASE FilesNext
    BY <1>2, <2>2, FilesObserve, StepRefused, StepUnobserved
  <2>3. CASE UNCHANGED memberVars
    BY <1>2, <2>3, StepUnobserved DEF memberVars
  <2> QED
    BY <1>2, <2>1, <2>2, <2>3 DEF Next, vars, allMemberVars
<1>3. NoticeInv => NoticesAlternate
  BY DEF NoticeInv, NoticeOf, NoticesAlternate, Alternates, ToldAbsent
<1> QED
  BY <1>1, <1>2, <1>3, PTL DEF Spec

------------------------------------------------------------------------------
(* Downloaded files.  The daemon does not prune while it downloads, so the *)
(* file it has published is still there when its row is written.           *)
JobStep == {"idle", "ready", "fetch", "fetched", "refused", "publish", "record"}
JobRow == [resource: Resource \cup {NoResource}, step: JobStep, left: SUBSET Resource]
PruneRow == [step: {"idle", "unlink"}, listed: SUBSET Resource, gone: SUBSET Resource]

FilesType ==
  /\ row \in [Resource -> Row \cup {NoRow}] /\ file \in [Resource -> {"none", "whole"}]
  /\ job \in JobRow /\ prune \in [Pruner -> PruneRow]

JobInv ==
  /\ job.step \notin {"idle", "ready"} => job.resource \in Resource
  /\ job.step = "record" => file[job.resource] = "whole"
  /\ job.step # "idle" => prune[Daemon].step = "idle"

PruneInv == \A p \in Pruner : prune[p].step = "idle" => prune[p].gone = {}

(* A row that calls its resource downloaded. *)
SaysDownloaded(r) == row[r] # NoRow /\ row[r].status = "downloaded"
BeingPruned(r) == \E p \in Pruner : r \in prune[p].gone

FilesInv == FilesType /\ JobInv /\ PruneInv /\ DownloadedIsThere

LEMMA ThereByRow ==
  DownloadedIsThere <=>
    \A r \in Resource : SaysDownloaded(r) /\ file[r] = "none" => BeingPruned(r)
BY DEF DownloadedIsThere, SaysDownloaded, BeingPruned

(* What a row is overwritten with. *)
LEMMA Upserted ==
  ASSUME FilesType, NEW r \in Resource, NEW status \in DownloadStatus, Upsert(r, status)
  PROVE  /\ row' \in [Resource -> Row \cup {NoRow}]
         /\ \A x \in Resource : SaysDownloaded(x)' =>
              SaysDownloaded(x) \/ (x = r /\ status = "downloaded")
<1> DEFINE has == status = "downloaded"
           new == [status |-> status, path |-> has, old |-> FALSE]
<1>1. row' = [row EXCEPT ![r] = new]
  BY DEF Upsert
<1>2. has \in BOOLEAN
  OBVIOUS
<1>3. new \in Row /\ new.status = status
  <2> HIDE DEF has
  <2> QED
    BY <1>2 DEF Row
<1> HIDE DEF new
<1> QED
  BY <1>1, <1>3 DEF FilesType, SaysDownloaded

(* A step that neither deletes a file nor ends a pruning, and writes       *)
(* "downloaded" only for a file that is there.                             *)
LEMMA FilesKept ==
  ASSUME FilesInv, UNCHANGED prune, job' \in JobRow,
         row' \in [Resource -> Row \cup {NoRow}],
         file' \in [Resource -> {"none", "whole"}],
         \A x \in Resource : SaysDownloaded(x)' => SaysDownloaded(x) \/ file'[x] = "whole",
         \A x \in Resource : file[x] = "whole" => file'[x] = "whole",
         job'.step \notin {"idle", "ready"} => job'.resource \in Resource,
         job'.step = "record" => file'[job'.resource] = "whole",
         job'.step # "idle" => prune[Daemon].step = "idle"
  PROVE  FilesInv'
<1>1. FilesType' /\ JobInv' /\ PruneInv'
  BY DEF FilesInv, FilesType, JobInv, PruneInv
<1>2. ASSUME NEW x \in Resource, SaysDownloaded(x)', file'[x] = "none"
      PROVE  BeingPruned(x)'
  <2>1. SaysDownloaded(x) /\ file[x] = "none"
    BY <1>2 DEF FilesInv, FilesType
  <2>2. BeingPruned(x)
    BY <2>1, ThereByRow DEF FilesInv
  <2> QED
    BY <2>2 DEF BeingPruned
<1>3. DownloadedIsThere'
  BY <1>2 DEF DownloadedIsThere, SaysDownloaded, BeingPruned
<1> QED
  BY <1>1, <1>3 DEF FilesInv

(* The download under way, at another step. *)
LEMMA JobRows ==
  ASSUME NEW j \in JobRow
  PROVE  /\ Done(j) \in JobRow /\ Done(j).step = "ready"
         /\ \A name \in JobStep : /\ [j EXCEPT !.step = name] \in JobRow
                                  /\ [j EXCEPT !.step = name].step = name
                                  /\ [j EXCEPT !.step = name].resource = j.resource
         /\ \A r \in Resource : /\ [j EXCEPT !.left = @ \ {r}] \in JobRow
                                /\ [j EXCEPT !.left = @ \ {r}].step = j.step
BY DEF Done, JobRow, JobStep

LEMMA NoJobRow == NoJob \in JobRow /\ NoJob.step = "idle"
BY DEF NoJob, JobRow, JobStep

LEMMA StepBeginEnd ==
  ASSUME FilesInv, BeginDownloads \/ EndDownloads \/ CrashDownloads
  PROVE  FilesInv'
<1>1. UNCHANGED <<row, file, prune>>
  BY DEF BeginDownloads, EndDownloads, CrashDownloads
<1>2. CASE BeginDownloads
  <2>1. PICK S \in SUBSET Resource : job' = [NoJob EXCEPT !.step = "ready", !.left = S]
    BY <1>2 DEF BeginDownloads
  <2>2. job' \in JobRow /\ job'.step = "ready" /\ prune[Daemon].step = "idle"
    BY <1>2, <2>1, NoJobRow DEF JobRow, JobStep, BeginDownloads
  <2> QED
    BY <1>1, <2>2, FilesKept DEF FilesInv, FilesType, SaysDownloaded
<1>3. CASE EndDownloads \/ CrashDownloads
  <2>1. job' = NoJob
    BY <1>3 DEF EndDownloads, CrashDownloads
  <2> QED
    BY <1>1, <2>1, NoJobRow, FilesKept DEF FilesInv, FilesType, SaysDownloaded
<1> QED
  BY <1>2, <1>3

(* Every step but the last writes the row of a resource not downloaded. *)
LEMMA StepDrops ==
  ASSUME FilesInv, NEW r \in Resource, NEW status \in DownloadStatus \ {"downloaded"},
         Upsert(r, status), UNCHANGED <<file, prune>>, job' \in JobRow, job.step # "idle",
         job'.step \notin {"idle", "record"},
         job'.step # "ready" => job'.resource \in Resource
  PROVE  FilesInv'
<1>1. /\ row' \in [Resource -> Row \cup {NoRow}]
      /\ \A x \in Resource : SaysDownloaded(x)' => SaysDownloaded(x)
  BY Upserted DEF FilesInv
<1>2. prune[Daemon].step = "idle" /\ file' \in [Resource -> {"none", "whole"}]
  BY DEF FilesInv, FilesType, JobInv
<1> QED
  BY <1>1, <1>2, FilesKept

LEMMA StepJobOnly ==
  ASSUME FilesInv, UNCHANGED <<row, file, prune>>, job' \in JobRow, job.step # "idle",
         job'.step \notin {"idle", "record"},
         job'.step # "ready" => job'.resource \in Resource
  PROVE  FilesInv'
<1>1. prune[Daemon].step = "idle" /\ row' \in [Resource -> Row \cup {NoRow}]
      /\ file' \in [Resource -> {"none", "whole"}]
  BY DEF FilesInv, FilesType, JobInv
<1> QED
  BY <1>1, FilesKept DEF SaysDownloaded

LEMMA StepGate ==
  ASSUME FilesInv, NEW r \in Resource, Gate(r)
  PROVE  FilesInv'
<1>1. job \in JobRow /\ job.step = "ready" /\ UNCHANGED <<file, prune>>
  BY DEF Gate, FilesInv, FilesType
<1> DEFINE rest == [job EXCEPT !.left = @ \ {r}]
           fetch == [job EXCEPT !.left = @ \ {r}, !.resource = r, !.step = "fetch"]
<1>2. rest \in JobRow /\ rest.step = "ready"
  BY <1>1, JobRows
<1>3. fetch \in JobRow /\ fetch.step = "fetch" /\ fetch.resource = r
  BY <1>1 DEF JobRow, JobStep
<1>4. \/ \E status \in {"skipped", "bot_not_joined", "quota_exceeded"} :
           Upsert(r, status) /\ job' = rest
      \/ job' = rest /\ UNCHANGED row
      \/ job' = fetch /\ UNCHANGED row
  BY DEF Gate
<1> HIDE DEF rest, fetch
<1>5. ASSUME NEW status \in {"skipped", "bot_not_joined", "quota_exceeded"},
             Upsert(r, status), job' = rest
      PROVE  FilesInv'
  <2>1. status \in DownloadStatus \ {"downloaded"}
    BY DEF DownloadStatus
  <2> QED
    BY <1>1, <1>2, <1>5, <2>1, StepDrops
<1>6. CASE (job' = rest \/ job' = fetch) /\ UNCHANGED row
  BY <1>1, <1>2, <1>3, <1>6, StepJobOnly
<1> QED
  BY <1>4, <1>5, <1>6

LEMMA StepFetch ==
  ASSUME FilesInv, FetchOk \/ FetchFails \/ FetchRefused \/ RecordRefusal
  PROVE  FilesInv'
<1>1. job \in JobRow /\ job.step \in {"fetch", "refused"} /\ job.resource \in Resource
      /\ UNCHANGED <<file, prune>>
  BY DEF FetchOk, FetchFails, FetchRefused, RecordRefusal, FilesInv, FilesType, JobInv
<1>2. CASE FetchOk
  <2>1. job' \in JobRow /\ job'.step = "fetched" /\ job'.resource = job.resource
        /\ UNCHANGED row
    BY <1>1, <1>2, JobRows DEF FetchOk, Step, JobStep
  <2> QED
    BY <1>1, <2>1, StepJobOnly
<1>3. CASE FetchFails
  <2>1. PICK status \in {"failed", "missing_file"} : Upsert(job.resource, status)
    BY <1>3 DEF FetchFails
  <2>2. job' \in JobRow /\ job'.step = "ready"
    BY <1>1, <1>3, JobRows DEF FetchFails
  <2>3. status \in DownloadStatus \ {"downloaded"}
    BY DEF DownloadStatus
  <2> QED
    BY <1>1, <2>1, <2>2, <2>3, StepDrops
<1>4. CASE FetchRefused
  <2>1. Upsert(job.resource, "bot_invisible")
        /\ "bot_invisible" \in DownloadStatus \ {"downloaded"}
    BY <1>4 DEF FetchRefused, DownloadStatus
  <2>2. job' \in JobRow /\ job'.step = "refused" /\ job'.resource = job.resource
    BY <1>1, <1>4, JobRows DEF FetchRefused, Step, JobStep
  <2> QED
    BY <1>1, <2>1, <2>2, StepDrops
<1>5. CASE RecordRefusal
  <2>1. job' \in JobRow /\ job'.step = "ready" /\ UNCHANGED row
    BY <1>1, <1>5, JobRows DEF RecordRefusal
  <2> QED
    BY <1>1, <2>1, StepJobOnly
<1> QED
  BY <1>2, <1>3, <1>4, <1>5

LEMMA StepAccept ==
  ASSUME FilesInv, Accept
  PROVE  FilesInv'
<1>1. job \in JobRow /\ job.step = "fetched" /\ job.resource \in Resource
      /\ UNCHANGED <<file, prune>>
  BY DEF Accept, FilesInv, FilesType, JobInv
<1>2. \/ \E status \in {"too_large", "quota_exceeded"} :
           Upsert(job.resource, status) /\ job' = Done(job)
      \/ Step("publish") /\ UNCHANGED row
  BY DEF Accept
<1>3. ASSUME NEW status \in {"too_large", "quota_exceeded"},
             Upsert(job.resource, status), job' = Done(job)
      PROVE  FilesInv'
  <2>1. job' \in JobRow /\ job'.step = "ready"
    BY <1>1, <1>3, JobRows
  <2>2. status \in DownloadStatus \ {"downloaded"}
    BY DEF DownloadStatus
  <2> QED
    BY <1>1, <1>3, <2>1, <2>2, StepDrops
<1>4. CASE Step("publish") /\ UNCHANGED row
  <2>1. job' \in JobRow /\ job'.step = "publish" /\ job'.resource = job.resource
    BY <1>1, <1>4, JobRows DEF Step, JobStep
  <2> QED
    BY <1>1, <1>4, <2>1, StepJobOnly
<1> QED
  BY <1>2, <1>3, <1>4

LEMMA StepPublish ==
  ASSUME FilesInv, Publish
  PROVE  FilesInv'
<1>1. job \in JobRow /\ job.step = "publish" /\ job.resource \in Resource
      /\ prune[Daemon].step = "idle" /\ prune' = prune
      /\ file \in [Resource -> {"none", "whole"}]
      /\ row \in [Resource -> Row \cup {NoRow}]
  BY DEF Publish, FilesInv, FilesType, JobInv
<1>2. CASE file' = [file EXCEPT ![job.resource] = "whole"] /\ Step("record") /\ UNCHANGED row
  <2>1. job' \in JobRow /\ job'.step = "record" /\ job'.resource = job.resource
    BY <1>1, <1>2, JobRows DEF Step, JobStep
  <2>2. file' \in [Resource -> {"none", "whole"}] /\ file'[job.resource] = "whole"
        /\ \A x \in Resource : file[x] = "whole" => file'[x] = "whole"
    BY <1>1, <1>2
  <2>3. \A x \in Resource : SaysDownloaded(x)' => SaysDownloaded(x)
    BY <1>2 DEF SaysDownloaded
  <2> QED
    BY <1>1, <1>2, <2>1, <2>2, <2>3, FilesKept
<1>3. CASE Upsert(job.resource, "failed") /\ job' = Done(job) /\ UNCHANGED file
  <2>1. job' \in JobRow /\ job'.step = "ready"
    BY <1>1, <1>3, JobRows
  <2>2. "failed" \in DownloadStatus \ {"downloaded"}
    BY DEF DownloadStatus
  <2> QED
    BY <1>1, <1>3, <2>1, <2>2, StepDrops
<1> QED
  BY <1>2, <1>3 DEF Publish

LEMMA StepRecordDownload ==
  ASSUME FilesInv, RecordDownload
  PROVE  FilesInv'
<1>1. job \in JobRow /\ job.resource \in Resource /\ file[job.resource] = "whole"
      /\ prune[Daemon].step = "idle" /\ UNCHANGED <<file, prune>>
      /\ Upsert(job.resource, "downloaded") /\ "downloaded" \in DownloadStatus
      /\ file \in [Resource -> {"none", "whole"}]
  BY DEF RecordDownload, FilesInv, FilesType, JobInv, DownloadStatus
<1>2. job' \in JobRow /\ job'.step = "ready"
  BY <1>1, JobRows DEF RecordDownload
<1>3. row' \in [Resource -> Row \cup {NoRow}]
      /\ \A x \in Resource : SaysDownloaded(x)' => SaysDownloaded(x) \/ x = job.resource
  BY <1>1, Upserted DEF FilesInv
<1> QED
  BY <1>1, <1>2, <1>3, FilesKept

LEMMA StepWatchAge ==
  ASSUME FilesInv, NEW r \in Resource, Watch(r) \/ Age(r)
  PROVE  FilesInv'
<1>1. UNCHANGED <<file, job, prune>>
  BY DEF Watch, Age
<1>2. row' \in [Resource -> Row \cup {NoRow}]
      /\ \A x \in Resource : SaysDownloaded(x)' => SaysDownloaded(x)
  <2>1. CASE Watch(r)
    BY <2>1 DEF Watch, FilesInv, FilesType, SaysDownloaded
  <2>2. CASE Age(r)
    <3> DEFINE b == row[r]
               new == [b EXCEPT !.old = TRUE]
    <3>1. b \in Row /\ b # NoRow /\ row' = [row EXCEPT ![r] = new]
      BY <2>2 DEF Age, FilesInv, FilesType
    <3> HIDE DEF b
    <3>2. new \in Row /\ new.status = b.status
      BY <3>1 DEF Row
    <3> HIDE DEF new
    <3> QED
      BY <3>1, <3>2 DEF FilesInv, FilesType, SaysDownloaded, b
  <2> QED
    BY <2>1, <2>2
<1> QED
  BY <1>1, <1>2, FilesKept DEF FilesInv, FilesType, JobInv

(* The one pruner is the daemon, which does not download meanwhile. *)
LEMMA StepBeginPrune ==
  ASSUME FilesInv, Pruner = {Daemon}, BeginPrune(Daemon)
  PROVE  FilesInv'
<1> DEFINE due == {r \in Resource : Prunable(r)}
           new == [NoPrune EXCEPT !.step = "unlink", !.listed = due]
<1>1. /\ prune' = [prune EXCEPT ![Daemon] = new] /\ UNCHANGED <<row, file, job>>
      /\ prune[Daemon].step = "idle" /\ job.step = "idle"
  BY DEF BeginPrune
<1>2. new \in PruneRow /\ new.step = "unlink"
  BY DEF NoPrune, PruneRow
<1>3. prune' \in [Pruner -> PruneRow] /\ prune'[Daemon] = new
  BY <1>1, <1>2 DEF FilesInv, FilesType
<1> HIDE DEF new
<1>4. \A x \in Resource : ~BeingPruned(x)
  BY <1>1 DEF FilesInv, PruneInv, BeingPruned
<1>5. DownloadedIsThere'
  BY <1>1, <1>4, ThereByRow DEF FilesInv, DownloadedIsThere, SaysDownloaded
<1> QED
  BY <1>1, <1>2, <1>3, <1>5 DEF FilesInv, FilesType, JobInv, PruneInv

LEMMA StepUnlink ==
  ASSUME FilesInv, Pruner = {Daemon}, NEW r \in Resource, Unlink(Daemon, r)
  PROVE  FilesInv'
<1> DEFINE b == prune[Daemon]
           deleted == [b EXCEPT !.listed = @ \ {r}, !.gone = @ \cup {r}]
           kept == [b EXCEPT !.listed = @ \ {r}]
<1>1. b \in PruneRow /\ b.step = "unlink" /\ UNCHANGED <<row, job>> /\ job.step = "idle"
      /\ file \in [Resource -> {"none", "whole"}]
  BY DEF Unlink, FilesInv, FilesType, JobInv
<1>2. \/ file' = [file EXCEPT ![r] = "none"] /\ prune' = [prune EXCEPT ![Daemon] = deleted]
      \/ file' = file /\ prune' = [prune EXCEPT ![Daemon] = kept]
  BY DEF Unlink
<1> HIDE DEF b
<1>3. deleted \in PruneRow /\ deleted.step = "unlink" /\ deleted.gone = b.gone \cup {r}
  BY <1>1 DEF PruneRow
<1>4. kept \in PruneRow /\ kept.step = "unlink" /\ kept.gone = b.gone
  BY <1>1 DEF PruneRow
<1> HIDE DEF deleted, kept
<1>5. PICK new \in {deleted, kept} :
        /\ prune' = [prune EXCEPT ![Daemon] = new]
        /\ \A x \in Resource : file'[x] = file[x] \/ x \in new.gone
        /\ file' \in [Resource -> {"none", "whole"}]
  BY <1>1, <1>2, <1>3
<1>6. prune'[Daemon] = new /\ prune' \in [Pruner -> PruneRow]
      /\ new.step = "unlink" /\ b.gone \subseteq new.gone
  BY <1>3, <1>4, <1>5 DEF FilesInv, FilesType
<1>7. ASSUME NEW x \in Resource, SaysDownloaded(x), file'[x] = "none"
      PROVE  x \in prune'[Daemon].gone
  <2>1. CASE x \in new.gone
    BY <1>6, <2>1
  <2>2. CASE file[x] = "none"
    <3>1. BeingPruned(x)
      BY <1>7, <2>2, ThereByRow DEF FilesInv
    <3> QED
      BY <1>6, <3>1 DEF BeingPruned, b
  <2> QED
    BY <1>5, <1>7, <2>1, <2>2
<1>8. DownloadedIsThere'
  BY <1>1, <1>7 DEF DownloadedIsThere, SaysDownloaded
<1> QED
  BY <1>1, <1>5, <1>6, <1>8 DEF FilesInv, FilesType, JobInv, PruneInv

LEMMA StepMarkExpired ==
  ASSUME FilesInv, Pruner = {Daemon}, MarkExpired(Daemon)
  PROVE  FilesInv'
<1>1. /\ row' = Expired(Daemon) /\ prune' = [prune EXCEPT ![Daemon] = NoPrune]
      /\ UNCHANGED <<file, job>>
  BY DEF MarkExpired
<1>2. NoPrune \in PruneRow /\ NoPrune.step = "idle" /\ NoPrune.gone = {}
  BY DEF NoPrune, PruneRow
<1>3. prune' \in [Pruner -> PruneRow] /\ prune'[Daemon] = NoPrune
  BY <1>1, <1>2 DEF FilesInv, FilesType
<1> DEFINE expired == [status |-> "expired", path |-> FALSE, old |-> FALSE]
<1>4. expired \in Row /\ expired.status = "expired"
  BY DEF Row, DownloadStatus
<1>5. row' = [r \in Resource |-> IF r \in prune[Daemon].gone THEN expired ELSE row[r]]
  BY <1>1 DEF Expired
<1> HIDE DEF expired
<1>6. row' \in [Resource -> Row \cup {NoRow}]
  BY <1>4, <1>5 DEF FilesInv, FilesType
<1>7. ASSUME NEW x \in Resource, SaysDownloaded(x)' PROVE file'[x] # "none"
  <2>1. x \notin prune[Daemon].gone
    BY <1>4, <1>5, <1>7 DEF SaysDownloaded
  <2>2. SaysDownloaded(x) /\ ~BeingPruned(x)
    BY <1>5, <1>7, <2>1 DEF SaysDownloaded, BeingPruned
  <2> QED
    BY <1>1, <2>2, ThereByRow DEF FilesInv
<1>8. DownloadedIsThere'
  BY <1>7 DEF DownloadedIsThere, SaysDownloaded
<1> QED
  BY <1>1, <1>2, <1>3, <1>6, <1>8 DEF FilesInv, FilesType, JobInv, PruneInv

(* Where only the daemon prunes, and whenever downloads fail, are refused, *)
(* do not fit or die: what the row of a resource calls downloaded is in    *)
(* resource_dir, but for the files a pruning has deleted and not yet       *)
(* marked.                                                                 *)
THEOREM DownloadsAreThere ==
  ASSUME Pruner = {Daemon}
  PROVE  Spec => []DownloadedIsThere
<1>1. Init => FilesInv
  <2> SUFFICES ASSUME FilesInit PROVE FilesInv
    BY DEF Init
  <2>1. NoPrune \in PruneRow /\ NoPrune.gone = {}
    BY DEF NoPrune, PruneRow
  <2>2. FilesType /\ JobInv /\ PruneInv
    BY <2>1, NoJobRow DEF FilesInit, FilesType, JobInv, PruneInv
  <2> QED
    BY <2>2 DEF FilesInit, FilesInv, DownloadedIsThere
<1>2. ASSUME FilesInv, [Next]_vars PROVE FilesInv'
  <2>1. CASE FilesNext
    BY <1>2, <2>1, StepBeginEnd, StepGate, StepFetch, StepAccept, StepPublish,
       StepRecordDownload, StepWatchAge, StepBeginPrune, StepUnlink, StepMarkExpired
       DEF FilesNext
  <2>2. CASE UNCHANGED fileVars
    BY <1>2, <2>2 DEF fileVars, FilesInv, FilesType, JobInv, PruneInv, DownloadedIsThere
  <2> QED
    BY <1>2, <2>1, <2>2 DEF Next, vars
<1>3. FilesInv => DownloadedIsThere
  BY DEF FilesInv
<1> QED
  BY <1>1, <1>2, <1>3, PTL DEF Spec

------------------------------------------------------------------------------
(* The quota.  SizeOf is a fold; what it computes is shown by the least    *)
(* set on which a claim would fail, since a finite set has no endless      *)
(* descent of subsets.                                                     *)
LEMMA LeastSet ==
  ASSUME NEW S, IsFiniteSet(S), NEW Bad \in SUBSET SUBSET S, Bad # {}
  PROVE  \E s \in Bad : \A t \in Bad : ~(t \subseteq s /\ t # s)
<1>1. IsWellFoundedOn(StrictSubsetOrdering(S), FiniteSubsetsOf(S))
  BY FS_StrictSubsetOrderingWellFounded
<1>2. Bad \subseteq FiniteSubsetsOf(S)
  BY FS_Subset DEF FiniteSubsetsOf
<1>3. \E s \in Bad : \A t \in Bad : ~(<<t, s>> \in StrictSubsetOrdering(S))
  BY <1>1, <1>2, WFMin
<1> QED
  BY <1>3 DEF StrictSubsetOrdering

AnyOf(s) == CHOOSE x \in s : TRUE

(* The function the fold evaluates. *)
Sums(g, S) ==
  g = [s \in SUBSET S |-> IF s = {} THEN 0 ELSE Size[AnyOf(s)] + g[s \ {AnyOf(s)}]]
SumFcn(S) == CHOOSE g : Sums(g, S)

LEMMA SizeOfFolds == ASSUME NEW S PROVE SizeOf(S) = SumFcn(S)[S]
BY DEF SizeOf, MapThenSumSet, MapThenFoldSet, SumFcn, Sums, AnyOf

LEMMA AnyOfIn == ASSUME NEW s, s # {} PROVE AnyOf(s) \in s
BY DEF AnyOf

LEMMA SumsStep ==
  ASSUME NEW g, NEW S, Sums(g, S), NEW s \in SUBSET S
  PROVE  g[s] = IF s = {} THEN 0 ELSE Size[AnyOf(s)] + g[s \ {AnyOf(s)}]
BY DEF Sums

LEMMA SumsUnique ==
  ASSUME NEW S, IsFiniteSet(S), NEW T \in SUBSET S,
         NEW g, Sums(g, S), NEW h, Sums(h, T)
  PROVE  \A s \in SUBSET T : g[s] = h[s]
<1> DEFINE Bad == {s \in SUBSET T : g[s] # h[s]}
<1> SUFFICES ASSUME Bad # {} PROVE FALSE
  OBVIOUS
<1>1. PICK s \in Bad : \A t \in Bad : ~(t \subseteq s /\ t # s)
  <2>1. Bad \in SUBSET SUBSET S /\ Bad # {}
    OBVIOUS
  <2> HIDE DEF Bad
  <2> QED
    BY <2>1, LeastSet
<1>2. s \in SUBSET T /\ s \in SUBSET S
  OBVIOUS
<1> DEFINE x == AnyOf(s)
<1>3. /\ g[s] = IF s = {} THEN 0 ELSE Size[x] + g[s \ {x}]
      /\ h[s] = IF s = {} THEN 0 ELSE Size[x] + h[s \ {x}]
  BY <1>2, SumsStep
<1>4. s # {}
  BY <1>3
<1>5. x \in s
  BY <1>4, AnyOfIn
<1> HIDE DEF x
<1>6. s \ {x} \notin Bad /\ s \ {x} \in SUBSET T
  BY <1>1, <1>2, <1>5
<1> QED
  BY <1>3, <1>6

LEMMA SumsExist ==
  ASSUME NEW S, IsFiniteSet(S)
  PROVE  Sums(SumFcn(S), S)
<1> DEFINE Bad == {s \in SUBSET S : ~\E g : Sums(g, s)}
<1>1. Bad = {}
  <2> SUFFICES ASSUME Bad # {} PROVE FALSE
    OBVIOUS
  <2>1. PICK s \in Bad : \A t \in Bad : ~(t \subseteq s /\ t # s)
    <3>1. Bad \in SUBSET SUBSET S /\ Bad # {}
      OBVIOUS
    <3> HIDE DEF Bad
    <3> QED
      BY <3>1, LeastSet
  <2>2. ASSUME NEW t \in SUBSET s, t # s
        PROVE  Sums(SumFcn(t), t) /\ IsFiniteSet(t)
    <3>1. t \in SUBSET S /\ t \notin Bad
      BY <2>1, <2>2
    <3>2. \E g : Sums(g, t)
      BY <3>1
    <3> QED
      BY <3>1, <3>2, FS_Subset DEF SumFcn
  <2> DEFINE Value(t) == SumFcn(t)[t]
             g == [t \in SUBSET s |-> IF t = {} THEN 0
                                      ELSE Size[AnyOf(t)] + Value(t \ {AnyOf(t)})]
  <2>3. ASSUME NEW t \in SUBSET s, t # {}
        PROVE  g[t \ {AnyOf(t)}] = Value(t \ {AnyOf(t)})
    <3> DEFINE u == t \ {AnyOf(t)}
    <3>1. u \in SUBSET s /\ u # s
      BY <2>3, AnyOfIn
    <3>2. Sums(SumFcn(u), u) /\ IsFiniteSet(u)
      BY <2>2, <3>1
    <3> HIDE DEF u
    <3>3. Value(u) = IF u = {} THEN 0
                     ELSE Size[AnyOf(u)] + SumFcn(u)[u \ {AnyOf(u)}]
      BY <3>2, SumsStep
    <3>4. CASE u = {}
      BY <3>1, <3>3, <3>4 DEF u
    <3>5. CASE u # {}
      <4> DEFINE v == u \ {AnyOf(u)}
      <4>1. v \in SUBSET s /\ v # s /\ v \in SUBSET u
        BY <3>1, <3>5, AnyOfIn
      <4>2. Sums(SumFcn(v), v)
        BY <2>2, <4>1
      <4> HIDE DEF v
      <4>3. SumFcn(u)[v] = SumFcn(v)[v]
        BY <3>2, <4>1, <4>2, SumsUnique
      <4> QED
        BY <3>1, <3>3, <3>5, <4>3 DEF u, v
    <3> QED
      BY <3>4, <3>5
  <2>4. Sums(g, s)
    <3>1. g = [t \in SUBSET s |-> IF t = {} THEN 0
                                  ELSE Size[AnyOf(t)] + g[t \ {AnyOf(t)}]]
      BY <2>3
    <3> QED
      BY <3>1 DEF Sums
  <2> QED
    BY <2>1, <2>4
<1>2. S \in SUBSET S
  OBVIOUS
<1>3. \E g : Sums(g, S)
  BY <1>1, <1>2
<1> QED
  BY <1>3 DEF SumFcn

(* SizeOf by the element the fold takes first. *)
LEMMA SizeOfFirst ==
  ASSUME NEW S, IsFiniteSet(S)
  PROVE  SizeOf(S) = IF S = {} THEN 0 ELSE Size[AnyOf(S)] + SizeOf(S \ {AnyOf(S)})
<1> DEFINE T == S \ {AnyOf(S)}
<1>1. T \in SUBSET S /\ IsFiniteSet(T)
  BY FS_Subset
<1>2. Sums(SumFcn(S), S) /\ Sums(SumFcn(T), T)
  BY <1>1, SumsExist
<1>3. SumFcn(S)[T] = SumFcn(T)[T]
  BY <1>1, <1>2, SumsUnique
<1>4. SumFcn(S)[S] = IF S = {} THEN 0 ELSE Size[AnyOf(S)] + SumFcn(S)[T]
  BY <1>2, SumsStep
<1> QED
  BY <1>3, <1>4, SizeOfFolds

LEMMA SizeOfNone == SizeOf({}) = 0
BY SizeOfFirst, FS_EmptySet

LEMMA SizeOfNat ==
  ASSUME NEW S \in SUBSET Resource
  PROVE  SizeOf(S) \in Nat
<1> DEFINE Bad == {s \in SUBSET Resource : SizeOf(s) \notin Nat}
<1> SUFFICES ASSUME Bad # {} PROVE FALSE
  OBVIOUS
<1>1. PICK s \in Bad : \A t \in Bad : ~(t \subseteq s /\ t # s)
  <2>1. Bad \in SUBSET SUBSET Resource /\ Bad # {}
    OBVIOUS
  <2> HIDE DEF Bad
  <2> QED
    BY <2>1, LeastSet, ResourceAssumption
<1>2. IsFiniteSet(s)
  BY FS_Subset, ResourceAssumption
<1> DEFINE x == AnyOf(s)
<1>3. SizeOf(s) = IF s = {} THEN 0 ELSE Size[x] + SizeOf(s \ {x})
  BY <1>2, SizeOfFirst
<1>4. s # {}
  BY <1>3
<1>5. x \in s
  BY <1>4, AnyOfIn
<1> HIDE DEF x
<1>6. s \ {x} \notin Bad
  BY <1>1, <1>5
<1>7. SizeOf(s \ {x}) \in Nat
  BY <1>6
<1> QED
  BY <1>3, <1>4, <1>5, <1>7, ResourceAssumption

(* SizeOf by any of its elements. *)
LEMMA SizeOfSplit ==
  ASSUME NEW S \in SUBSET Resource, NEW r \in S
  PROVE  SizeOf(S) = Size[r] + SizeOf(S \ {r})
<1> DEFINE Bad == {s \in SUBSET Resource : \E x \in s : SizeOf(s) # Size[x] + SizeOf(s \ {x})}
<1> SUFFICES ASSUME Bad # {} PROVE FALSE
  OBVIOUS
<1>1. PICK s \in Bad : \A t \in Bad : ~(t \subseteq s /\ t # s)
  <2>1. Bad \in SUBSET SUBSET Resource /\ Bad # {}
    OBVIOUS
  <2> HIDE DEF Bad
  <2> QED
    BY <2>1, LeastSet, ResourceAssumption
<1>2. PICK x \in s : SizeOf(s) # Size[x] + SizeOf(s \ {x})
  OBVIOUS
<1> DEFINE y == AnyOf(s)
<1>3. y \in s /\ IsFiniteSet(s)
  BY <1>2, AnyOfIn, FS_Subset, ResourceAssumption
<1>4. SizeOf(s) = Size[y] + SizeOf(s \ {y})
  BY <1>2, <1>3, SizeOfFirst
<1> HIDE DEF y
<1>5. x # y
  BY <1>2, <1>4
<1>6. s \ {x} \notin Bad /\ s \ {y} \notin Bad
  BY <1>1, <1>2, <1>3
<1>7. SizeOf(s \ {y}) = Size[x] + SizeOf((s \ {y}) \ {x})
  BY <1>2, <1>5, <1>6
<1>8. SizeOf(s \ {x}) = Size[y] + SizeOf((s \ {x}) \ {y})
  BY <1>3, <1>5, <1>6
<1>9. (s \ {y}) \ {x} = (s \ {x}) \ {y}
  OBVIOUS
<1> DEFINE both == (s \ {x}) \ {y}
<1>10. SizeOf(both) \in Nat /\ Size[x] \in Nat /\ Size[y] \in Nat
  BY <1>3, SizeOfNat, ResourceAssumption
<1> HIDE DEF both
<1>11. SizeOf(s \ {y}) = Size[x] + SizeOf(both) /\ SizeOf(s \ {x}) = Size[y] + SizeOf(both)
  BY <1>7, <1>8, <1>9 DEF both
<1> QED
  BY <1>2, <1>4, <1>10, <1>11

LEMMA SizeOfMore ==
  ASSUME NEW S \in SUBSET Resource, NEW T \in SUBSET S
  PROVE  SizeOf(T) <= SizeOf(S)
<1> DEFINE Bad == {s \in SUBSET Resource : \E t \in SUBSET s : ~(SizeOf(t) <= SizeOf(s))}
<1> SUFFICES ASSUME Bad # {} PROVE FALSE
  OBVIOUS
<1>1. PICK s \in Bad : \A t \in Bad : ~(t \subseteq s /\ t # s)
  <2>1. Bad \in SUBSET SUBSET Resource /\ Bad # {}
    OBVIOUS
  <2> HIDE DEF Bad
  <2> QED
    BY <2>1, LeastSet, ResourceAssumption
<1>2. PICK t \in SUBSET s : ~(SizeOf(t) <= SizeOf(s))
  OBVIOUS
<1>3. SizeOf(t) \in Nat /\ SizeOf(s) \in Nat
  BY SizeOfNat
<1>4. t # s
  BY <1>2, <1>3
<1>5. PICK r \in s : r \notin t
  BY <1>4
<1>6. SizeOf(s) = Size[r] + SizeOf(s \ {r})
  BY SizeOfSplit
<1>7. s \ {r} \notin Bad /\ t \in SUBSET (s \ {r})
  BY <1>1, <1>5
<1>8. SizeOf(t) <= SizeOf(s \ {r})
  BY <1>7
<1>9. SizeOf(s \ {r}) \in Nat /\ Size[r] \in Nat
  BY SizeOfNat, ResourceAssumption
<1> QED
  BY <1>2, <1>3, <1>6, <1>8, <1>9

(* What was accepted still fits when it is published: until then files are *)
(* only deleted, and its temporary file is counted.                        *)
Finished == {r \in Resource : file[r] = "whole"}
QuotaType ==
  file \in [Resource -> {"none", "whole"}] /\ job \in JobRow /\ parts \in SUBSET Resource

QuotaInv ==
  /\ QuotaType
  /\ job.step \notin {"idle", "ready"} => job.resource \in Resource
  /\ job.step \in {"fetched", "publish"} => job.resource \in parts
  /\ job.step = "publish" => SizeOf(Finished \ {job.resource}) + SizeOf(parts) <= MaxDir
  /\ SizeOf(Finished) <= MaxDir

(* A step that publishes nothing and accepts nothing. *)
LEMMA QuotaStays ==
  ASSUME QuotaInv, QuotaType',
         \A r \in Resource : file'[r] = "whole" => file[r] = "whole",
         \/ job' = job /\ parts' = parts
         \/ /\ job'.step \notin {"idle", "ready"} => job'.resource \in Resource
            /\ job'.step = "fetched" => job'.resource \in parts'
            /\ job'.step # "publish"
  PROVE  QuotaInv'
<1>1. /\ Finished \in SUBSET Resource /\ Finished' \in SUBSET Finished
      /\ Finished' \ {job.resource} \in SUBSET (Finished \ {job.resource})
  BY DEF Finished
<1>2. SizeOf(Finished') <= SizeOf(Finished)
      /\ SizeOf(Finished' \ {job.resource}) <= SizeOf(Finished \ {job.resource})
  BY <1>1, SizeOfMore
<1>3. /\ SizeOf(Finished) \in Nat /\ SizeOf(Finished') \in Nat /\ SizeOf(parts) \in Nat
      /\ SizeOf(Finished \ {job.resource}) \in Nat
      /\ SizeOf(Finished' \ {job.resource}) \in Nat
  BY <1>1, SizeOfNat DEF QuotaInv, QuotaType
<1>4. SizeOf(Finished') <= MaxDir
  BY <1>2, <1>3, ResourceAssumption DEF QuotaInv, QuotaType
<1>5. SizeOf(Finished)' = SizeOf(Finished')
  BY DEF SizeOf, MapThenSumSet, MapThenFoldSet, Finished
<1>6. CASE job' = job /\ parts' = parts
  <2>1. job.step = "publish" =>
          SizeOf(Finished' \ {job.resource}) + SizeOf(parts) <= MaxDir
    BY <1>2, <1>3, ResourceAssumption DEF QuotaInv, QuotaType
  <2> QED
    BY <1>4, <1>5, <1>6, <2>1 DEF QuotaInv
<1>7. CASE ~(job' = job /\ parts' = parts)
  BY <1>4, <1>5, <1>7 DEF QuotaInv
<1> QED
  BY <1>6, <1>7

LEMMA QuotaDownloads ==
  ASSUME QuotaInv,
         \/ BeginDownloads \/ EndDownloads \/ CrashDownloads \/ FetchOk \/ FetchFails
         \/ FetchRefused \/ RecordRefusal \/ RecordDownload
  PROVE  QuotaInv'
<1>1. file \in [Resource -> {"none", "whole"}] /\ job \in JobRow /\ parts \in SUBSET Resource
  BY DEF QuotaInv, QuotaType
<1>2. file' = file
  BY DEF BeginDownloads, EndDownloads, CrashDownloads, FetchOk, FetchFails, FetchRefused,
         RecordRefusal, RecordDownload
<1>3. CASE BeginDownloads
  <2>1. PICK S \in SUBSET Resource : job' = [NoJob EXCEPT !.step = "ready", !.left = S]
    BY <1>3 DEF BeginDownloads
  <2>2. job' \in JobRow /\ job'.step = "ready" /\ parts' = parts
    BY <1>3, <2>1, NoJobRow DEF JobRow, JobStep, BeginDownloads
  <2> QED
    BY <1>1, <1>2, <2>2, QuotaStays DEF QuotaType
<1>4. CASE EndDownloads \/ CrashDownloads
  <2>1. job' = NoJob
    BY <1>4 DEF EndDownloads, CrashDownloads
  <2>2. CASE EndDownloads
    BY <1>1, <1>2, <2>1, <2>2, NoJobRow, QuotaStays DEF QuotaType, EndDownloads
  <2>3. CASE CrashDownloads
    <3>1. job.step = "fetch" => job.resource \in Resource
      BY DEF QuotaInv
    <3>2. parts' \in SUBSET Resource
      BY <1>1, <2>3, <3>1 DEF CrashDownloads
    <3> QED
      BY <1>1, <1>2, <2>1, <3>2, NoJobRow, QuotaStays DEF QuotaType
  <2> QED
    BY <1>4, <2>2, <2>3
<1>5. CASE FetchOk
  <2>1. job.resource \in Resource
    BY <1>5 DEF FetchOk, QuotaInv
  <2>2. parts' = parts \cup {job.resource} /\ job' = [job EXCEPT !.step = "fetched"]
    BY <1>5 DEF FetchOk, Step
  <2>3. job' \in JobRow /\ job'.step = "fetched" /\ job'.resource = job.resource
    BY <1>1, <2>2, JobRows DEF JobStep
  <2> QED
    BY <1>1, <1>2, <2>1, <2>2, <2>3, QuotaStays DEF QuotaType
<1>6. CASE FetchRefused
  <2>1. job.resource \in Resource /\ parts' = parts /\ job' = [job EXCEPT !.step = "refused"]
    BY <1>6 DEF FetchRefused, QuotaInv, Step
  <2>2. job' \in JobRow /\ job'.step = "refused" /\ job'.resource = job.resource
    BY <1>1, <2>1, JobRows DEF JobStep
  <2> QED
    BY <1>1, <1>2, <2>1, <2>2, QuotaStays DEF QuotaType
<1>7. CASE FetchFails \/ RecordRefusal \/ RecordDownload
  <2>1. job' = Done(job) /\ parts' = parts
    BY <1>7 DEF FetchFails, RecordRefusal, RecordDownload
  <2>2. job' \in JobRow /\ job'.step = "ready"
    BY <1>1, <2>1, JobRows
  <2> QED
    BY <1>1, <1>2, <2>1, <2>2, QuotaStays DEF QuotaType
<1> QED
  BY <1>3, <1>4, <1>5, <1>6, <1>7

LEMMA QuotaGate ==
  ASSUME QuotaInv, NEW r \in Resource, Gate(r)
  PROVE  QuotaInv'
<1>1. /\ job \in JobRow /\ job.step = "ready" /\ file' = file
      /\ parts' \in SUBSET Resource /\ file \in [Resource -> {"none", "whole"}]
  BY DEF Gate, QuotaInv, QuotaType
<1> DEFINE rest == [job EXCEPT !.left = @ \ {r}]
           fetch == [job EXCEPT !.left = @ \ {r}, !.resource = r, !.step = "fetch"]
<1>2. rest \in JobRow /\ rest.step = "ready"
  BY <1>1, JobRows
<1>3. fetch \in JobRow /\ fetch.step = "fetch" /\ fetch.resource = r
  BY <1>1 DEF JobRow, JobStep
<1>4. job' = rest \/ job' = fetch
  BY DEF Gate
<1> HIDE DEF rest, fetch
<1> QED
  BY <1>1, <1>2, <1>3, <1>4, QuotaStays DEF QuotaType

LEMMA FitsCounts ==
  ASSUME NEW r \in Resource, Fits(r)
  PROVE  (SizeOf(Finished) + SizeOf(parts)) - (IF file[r] = "whole" THEN Size[r] ELSE 0)
           <= MaxDir
<1>1. Usage = SizeOf(Finished) + SizeOf(parts)
  BY DEF Usage, Finished
<1> QED
  BY <1>1 DEF Fits

(* Only now is room promised: the file that is replaced is not counted.    *)
LEMMA QuotaAccept ==
  ASSUME QuotaInv, Accept
  PROVE  QuotaInv'
<1> DEFINE r == job.resource
<1>1. /\ job \in JobRow /\ job.step = "fetched" /\ r \in Resource /\ r \in parts
      /\ file' = file /\ file \in [Resource -> {"none", "whole"}]
      /\ parts \in SUBSET Resource
  BY DEF Accept, QuotaInv, QuotaType
<1>2. \/ job' = Done(job) /\ parts' = parts \ {r}
      \/ Fits(r) /\ job' = [job EXCEPT !.step = "publish"] /\ parts' = parts
  BY DEF Accept, Step
<1>3. CASE job' = Done(job) /\ parts' = parts \ {r}
  <2>1. job' \in JobRow /\ job'.step = "ready"
    BY <1>1, <1>3, JobRows
  <2> QED
    BY <1>1, <1>3, <2>1, QuotaStays DEF QuotaType
<1>4. CASE Fits(r) /\ job' = [job EXCEPT !.step = "publish"] /\ parts' = parts
  <2>1. job' \in JobRow /\ job'.step = "publish" /\ job'.resource = r
    BY <1>1, <1>4, JobRows DEF JobStep
  <2>2. Finished \in SUBSET Resource /\ Finished' = Finished
    BY <1>1 DEF Finished
  <2>3. /\ SizeOf(Finished) \in Nat /\ SizeOf(Finished \ {r}) \in Nat
        /\ SizeOf(parts) \in Nat /\ Size[r] \in Nat
    BY <1>1, <2>2, SizeOfNat, ResourceAssumption
  <2>4. (SizeOf(Finished) + SizeOf(parts)) - (IF file[r] = "whole" THEN Size[r] ELSE 0)
          <= MaxDir
    BY <1>1, <1>4, FitsCounts
  <2> HIDE DEF r
  <2>5. SizeOf(Finished \ {r}) + SizeOf(parts) <= MaxDir
    <3>1. CASE file[r] = "whole"
      <4> DEFINE others == SizeOf(Finished \ {r})
                 held == SizeOf(parts)
      <4>1. SizeOf(Finished) = Size[r] + others
        BY <1>1, <2>2, <3>1, SizeOfSplit DEF Finished
      <4>2. ((Size[r] + others) + held) - Size[r] <= MaxDir
        BY <2>4, <3>1, <4>1
      <4>3. others \in Nat /\ held \in Nat /\ Size[r] \in Nat /\ MaxDir \in Nat
        BY <2>3, ResourceAssumption
      <4> HIDE DEF others, held
      <4>4. others + held <= MaxDir
        BY <4>2, <4>3
      <4> QED
        BY <4>4 DEF others, held
    <3>2. CASE file[r] # "whole"
      <4>1. Finished \ {r} = Finished
        BY <3>2 DEF Finished
      <4> DEFINE all == SizeOf(Finished)
                 held == SizeOf(parts)
      <4>2. (all + held) - 0 <= MaxDir /\ all \in Nat /\ held \in Nat /\ MaxDir \in Nat
        BY <2>3, <2>4, <3>2, ResourceAssumption
      <4> HIDE DEF all, held
      <4>3. all + held <= MaxDir
        BY <4>2
      <4> QED
        BY <4>1, <4>3 DEF all, held
    <3> QED
      BY <3>1, <3>2
  <2>6. SizeOf(Finished) <= MaxDir
    BY DEF QuotaInv
  <2> QED
    BY <1>1, <1>4, <2>1, <2>2, <2>5, <2>6 DEF QuotaInv, QuotaType
<1> QED
  BY <1>2, <1>3, <1>4

LEMMA QuotaPublish ==
  ASSUME QuotaInv, Publish
  PROVE  QuotaInv'
<1> DEFINE r == job.resource
<1>1. /\ job \in JobRow /\ job.step = "publish" /\ r \in Resource /\ r \in parts
      /\ file \in [Resource -> {"none", "whole"}]
      /\ parts \in SUBSET Resource /\ parts' = parts \ {r}
      /\ SizeOf(Finished \ {r}) + SizeOf(parts) <= MaxDir
  BY DEF Publish, QuotaInv, QuotaType
<1>2. \/ file' = [file EXCEPT ![r] = "whole"] /\ job' = [job EXCEPT !.step = "record"]
      \/ file' = file /\ job' = Done(job)
  BY DEF Publish, Step
<1>3. CASE file' = file /\ job' = Done(job)
  <2>1. job' \in JobRow /\ job'.step = "ready"
    BY <1>1, <1>3, JobRows
  <2> QED
    BY <1>1, <1>3, <2>1, QuotaStays DEF QuotaType
<1>4. CASE file' = [file EXCEPT ![r] = "whole"] /\ job' = [job EXCEPT !.step = "record"]
  <2>1. job' \in JobRow /\ job'.step = "record" /\ job'.resource = r
    BY <1>1, <1>4, JobRows DEF JobStep
  <2> HIDE DEF r
  <2>2. /\ Finished \in SUBSET Resource /\ Finished' = Finished \cup {r}
        /\ Finished' \in SUBSET Resource /\ Finished' \ {r} = Finished \ {r}
        /\ r \in Finished'
    BY <1>1, <1>4 DEF Finished
  <2>3. SizeOf(Finished') = Size[r] + SizeOf(Finished' \ {r})
    BY <2>2, SizeOfSplit
  <2>4. SizeOf(parts) = Size[r] + SizeOf(parts \ {r})
    BY <1>1, SizeOfSplit
  <2>5. /\ SizeOf(Finished \ {r}) \in Nat /\ SizeOf(parts \ {r}) \in Nat /\ Size[r] \in Nat
    BY <1>1, <2>2, SizeOfNat, ResourceAssumption
  <2>6. SizeOf(Finished') <= MaxDir
    <3>1. SizeOf(Finished') = Size[r] + SizeOf(Finished \ {r})
      BY <2>2, <2>3
    <3> DEFINE others == SizeOf(Finished \ {r})
               left == SizeOf(parts \ {r})
    <3>2. others + (Size[r] + left) <= MaxDir
      BY <1>1, <2>4
    <3>3. others \in Nat /\ left \in Nat /\ Size[r] \in Nat /\ MaxDir \in Nat
      BY <2>5, ResourceAssumption
    <3> HIDE DEF others, left
    <3>4. Size[r] + others <= MaxDir
      BY <3>2, <3>3
    <3> QED
      BY <3>1, <3>4 DEF others
  <2>7. SizeOf(Finished)' = SizeOf(Finished')
    BY DEF SizeOf, MapThenSumSet, MapThenFoldSet, Finished
  <2>8. file' \in [Resource -> {"none", "whole"}] /\ parts' \in SUBSET Resource
    BY <1>1, <1>4
  <2> QED
    BY <1>1, <2>1, <2>6, <2>7, <2>8 DEF QuotaInv, QuotaType
<1> QED
  BY <1>2, <1>3, <1>4

LEMMA QuotaPrunes ==
  ASSUME QuotaInv,
         \/ \E r \in Resource : Watch(r) \/ Age(r)
         \/ \E p \in Pruner : \/ BeginPrune(p) \/ MarkExpired(p)
                              \/ \E r \in Resource : Unlink(p, r)
  PROVE  QuotaInv'
<1>1. job' = job /\ parts' = parts
  BY DEF Watch, Age, BeginPrune, MarkExpired, Unlink
<1>2. file' = file \/ \E r \in Resource : file' = [file EXCEPT ![r] = "none"]
  BY DEF Watch, Age, BeginPrune, MarkExpired, Unlink
<1>3. QuotaType' /\ \A r \in Resource : file'[r] = "whole" => file[r] = "whole"
  BY <1>1, <1>2 DEF QuotaInv, QuotaType
<1> QED
  BY <1>1, <1>3, QuotaStays

(* Whatever is downloaded, replaced, left behind by a crash or pruned by   *)
(* any number of processes at once: the finished files in resource_dir     *)
(* never exceed max_resource_dir_bytes.                                    *)
THEOREM QuotaNeverExceeded == Spec => []QuotaKept
<1>1. Init => QuotaInv
  <2> SUFFICES ASSUME FilesInit PROVE QuotaInv
    BY DEF Init
  <2>1. Finished = {}
    BY DEF FilesInit, Finished
  <2>2. SizeOf(Finished) <= MaxDir
    BY <2>1, SizeOfNone, ResourceAssumption
  <2> QED
    BY <2>2, NoJobRow DEF FilesInit, QuotaInv, QuotaType
<1>2. ASSUME QuotaInv, [Next]_vars PROVE QuotaInv'
  <2>1. CASE FilesNext
    BY <1>2, <2>1, QuotaDownloads, QuotaGate, QuotaAccept, QuotaPublish, QuotaPrunes
       DEF FilesNext
  <2>2. CASE UNCHANGED fileVars
    <3>1. job' = job /\ parts' = parts /\ file' = file
      BY <2>2 DEF fileVars
    <3>2. QuotaType'
      BY <1>2, <3>1 DEF QuotaInv, QuotaType
    <3> QED
      BY <1>2, <3>1, <3>2, QuotaStays
  <2> QED
    BY <1>2, <2>1, <2>2 DEF Next, vars
<1>3. QuotaInv => QuotaKept
  BY DEF QuotaInv, QuotaKept, Finished
<1> QED
  BY <1>1, <1>2, <1>3, PTL DEF Spec
===============================================================================
