------------------------------ MODULE Migration ------------------------------
(***************************************************************************)
(* Opening the store: an empty file gets schema.sql in one transaction, an *)
(* older one is migrated in place by statements of which SQLite commits    *)
(* some at once and some together.  The daemon, the console and command    *)
(* lines may open it at the same time, and any of them may die half-way.   *)
(*                                                                         *)
(* Python's sqlite3 opens a transaction before an INSERT or UPDATE only,   *)
(* and executescript commits it: until the copy of message_processing each *)
(* statement is final, from there to the processing-retry script all is    *)
(* one transaction, and after it each statement is final again.            *)
(***************************************************************************)
EXTENDS Integers, FiniteSets

CONSTANTS
  Opener,     \* processes that open the store
  Columns,    \* columns version 3 and version 5 add
  LateColumn, \* message_type, which version 5 adds
  Rows,       \* message_processing rows of an old store
  MaxAbort,   \* bound: openers that die
  NoOpener

ASSUME MigrationAssumption ==
  LateColumn \in Columns /\ MaxAbort \in Nat /\ NoOpener \notin Opener

VARIABLES
  store,    \* what is committed: see Baseline
  opener,   \* [Opener -> where its initialize() stands, the column it saw missing]
  writer,   \* who is in a write transaction, or NoOpener
  draft,    \* the store as that transaction sees it
  aborts

migrationVars == <<store, opener, writer, draft, aborts>>

CurrentVersion == 7

(* user_version; the added columns; whether message_processing_v3 exists;  *)
(* message_processing keyed by revision, and its rows; actions and         *)
(* approvals bound to their source; the tables of versions 6 and 7.        *)
Baseline(v) ==
  [version |-> v,
   columns |-> CASE v = 2 -> {} [] v = 3 -> Columns \ {LateColumn} [] OTHER -> Columns,
   copy |-> FALSE, keyed |-> v > 2, rows |-> Rows, bound |-> v > 2,
   retries |-> v > 5, backgrounds |-> v > 6]
NoStore == [version |-> 0, columns |-> {}, copy |-> FALSE, keyed |-> FALSE, rows |-> {},
          bound |-> FALSE, retries |-> FALSE, backgrounds |-> FALSE]
NewStore == [Baseline(CurrentVersion) EXCEPT !.rows = {}]

Unopened == [at |-> "closed", missing |-> {}]

MigrationInit ==
  /\ store \in {NoStore} \cup {Baseline(v) : v \in {2, 3, 5, 6, CurrentVersion}}
  /\ opener = [o \in Opener |-> Unopened]
  /\ writer = NoOpener /\ draft = NoStore /\ aborts = MaxAbort

Stands(o, step) == opener[o].at = step
Goes(o, step) == opener' = [opener EXCEPT ![o] = [at |-> step, missing |-> {}]]

(* What an opener reads, and its statement: part of its transaction, or    *)
(* final once no other transaction is open.                                *)
View(o) == IF writer = o THEN draft ELSE store
Puts(o, s) ==
  /\ IF writer = o THEN draft' = s /\ UNCHANGED store
     ELSE writer = NoOpener /\ store' = s /\ UNCHANGED draft
  /\ UNCHANGED <<writer, aborts>>
Looks == UNCHANGED <<store, writer, draft, aborts>>

(* executescript commits first. *)
Script(o, s) ==
  /\ writer \in {o, NoOpener}
  /\ store' = s /\ writer' = NoOpener /\ draft' = NoStore
  /\ UNCHANGED aborts

(* A statement that raises ends the process; SQLite rolls back.            *)
Fails(o) ==
  /\ opener' = [opener EXCEPT ![o] = Unopened]
  /\ IF writer = o THEN writer' = NoOpener /\ draft' = NoStore ELSE UNCHANGED <<writer, draft>>
  /\ UNCHANGED store
------------------------------------------------------------------------------
(* initialize: a store without tables and one that is current get what     *)
(* they lack of the schema; any other version is migrated.                 *)
OpenStore(o) ==
  /\ Stands(o, "closed")
  /\ Goes(o, CASE store.version \in {0, CurrentVersion} -> "schema" [] store.version = 2 -> "columns"
                [] store.version = 3 -> "late" [] store.version = 5 -> "retries"
                [] OTHER -> "backgrounds")
  /\ Looks

RunSchema(o) ==
  /\ Stands(o, "schema") /\ Goes(o, "open")
  /\ Script(o, IF store.version = 0 THEN NewStore ELSE store)

(* _add_column_if_missing: the column list, then the ALTER TABLE, which    *)
(* fails when another opener has added the column in between.              *)
SeeColumns(o, wanted, next) ==
  LET missing == wanted \ View(o).columns IN
  /\ opener[o].missing = {}
  /\ \/ missing = {} /\ Goes(o, next)
     \/ \E c \in missing : opener' = [opener EXCEPT ![o].missing = {c}]
  /\ Looks

EarlyColumns(o) == Stands(o, "columns") /\ SeeColumns(o, Columns \ {LateColumn}, "rebuild")
LateColumns(o) == Stands(o, "late") /\ SeeColumns(o, {LateColumn}, "retries")

AddColumn(o) ==
  /\ opener[o].missing # {}
  /\ IF opener[o].missing \subseteq View(o).columns
     THEN Fails(o) /\ UNCHANGED aborts
     ELSE /\ Puts(o, [View(o) EXCEPT !.columns = @ \cup opener[o].missing])
          /\ opener' = [opener EXCEPT ![o].missing = {}]

(* _rebuild_message_processing_if_needed: not when the key is there. *)
SeeKey(o) ==
  /\ Stands(o, "rebuild") /\ Goes(o, IF store.keyed THEN "bind" ELSE "create")
  /\ Looks

(* CREATE TABLE message_processing_v3 fails when that table exists. *)
CreateCopy(o) ==
  /\ Stands(o, "create")
  /\ IF store.copy THEN Fails(o) /\ UNCHANGED aborts
     ELSE Goes(o, "copy") /\ Puts(o, [store EXCEPT !.copy = TRUE])

(* Variant: the copy is renamed before the rows are in it. *)
RenameFirst(o) ==
  /\ Stands(o, "copy") /\ writer = NoOpener
  /\ IF store.copy
     THEN /\ store' = [store EXCEPT !.copy = FALSE, !.keyed = TRUE, !.rows = {}]
          /\ writer' = o /\ draft' = [store' EXCEPT !.rows = store.rows]
          /\ Goes(o, "bind")
     ELSE Fails(o)
  /\ UNCHANGED aborts

(* The INSERT begins the transaction in which the copy replaces the table, *)
(* or fails when another opener has renamed the copy.                      *)
CopyRows(o) ==
  /\ Stands(o, "copy") /\ writer = NoOpener
  /\ IF store.copy
     THEN /\ writer' = o /\ draft' = [store EXCEPT !.copy = FALSE, !.keyed = TRUE]
          /\ Goes(o, "bind") /\ UNCHANGED store
     ELSE Fails(o)
  /\ UNCHANGED aborts

(* The backfills: in that transaction or, when the table had its key and   *)
(* rows lack their source, in one of their own.                            *)
BindSources(o) ==
  /\ Stands(o, "bind") /\ Goes(o, "late")
  /\ IF View(o).bound THEN UNCHANGED <<writer, draft>>
     ELSE writer \in {o, NoOpener} /\ writer' = o /\ draft' = [View(o) EXCEPT !.bound = TRUE]
  /\ UNCHANGED <<store, aborts>>

(* Variant: the version is written with the first of the new tables. *)
VersionFirst(o) ==
  /\ Stands(o, "retries") /\ Goes(o, "backgrounds")
  /\ Script(o, [View(o) EXCEPT !.retries = TRUE, !.version = CurrentVersion])

MakeRetries(o) ==
  /\ Stands(o, "retries") /\ Goes(o, "backgrounds")
  /\ Script(o, [View(o) EXCEPT !.retries = TRUE])

MakeBackgrounds(o) ==
  /\ Stands(o, "backgrounds") /\ Goes(o, "version")
  /\ Script(o, [store EXCEPT !.backgrounds = TRUE])

(* Only now is the store of the new version. *)
SetVersion(o) ==
  /\ Stands(o, "version") /\ Goes(o, "open")
  /\ Puts(o, [store EXCEPT !.version = CurrentVersion])

AbortOpen(o) ==
  /\ ~Stands(o, "closed") /\ ~Stands(o, "open") /\ aborts > 0
  /\ aborts' = aborts - 1
  /\ Fails(o)

Opens(o) == \/ OpenStore(o) \/ RunSchema(o) \/ AddColumn(o) \/ EarlyColumns(o)
            \/ LateColumns(o) \/ SeeKey(o) \/ CreateCopy(o) \/ CopyRows(o)
            \/ BindSources(o) \/ MakeRetries(o) \/ MakeBackgrounds(o) \/ SetVersion(o)

MigrationNext == \E o \in Opener : Opens(o) \/ AbortOpen(o)
MigrationSpec == MigrationInit /\ [][MigrationNext]_migrationVars
------------------------------------------------------------------------------
(***************************************************************************)
(* A store that calls itself current is: no column, key, source or table   *)
(* of a later version is missing and no row is lost, however many openers  *)
(* migrate it at once and wherever one of them dies.                       *)
(***************************************************************************)
CurrentIsComplete ==
  /\ store.version = CurrentVersion =>
       /\ store.columns = Columns /\ store.keyed /\ store.bound
       /\ store.retries /\ store.backgrounds
  /\ store.version \notin {0, CurrentVersion} => store.rows = Rows
=============================================================================
