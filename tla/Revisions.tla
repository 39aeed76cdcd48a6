------------------------------ MODULE Revisions ------------------------------
(* The stored row of one message and what one polled snapshot does to it:     *)
(* SQLiteStore._upsert_message_revision_locked. A snapshot is an opaque       *)
(* value; two snapshots are equal exactly when their semantic hashes are.     *)
EXTENDS Naturals

CONSTANTS
  Snapshot,   \* what the provider can show of a message
  Unhashed    \* the empty hash of a row migrated from the old schema

\* revision 0: no row. seen is the semantic-hash history.
Row == [rev : Nat, hash : Snapshot \cup {Unhashed}, seen : SUBSET Snapshot,
        gone : BOOLEAN]

NoRow == [rev |-> 0, hash |-> Unhashed, seen |-> {}, gone |-> FALSE]
MigratedRow == [NoRow EXCEPT !.rev = 1]

\* What the upsert reports beside the row it leaves.
Upserted(row, inserted, changed, unsure) ==
  [row |-> row, inserted |-> inserted, changed |-> changed, unsure |-> unsure]

Kept(row) == Upserted(row, FALSE, FALSE, FALSE)

Inserts(s, dead) ==
  Upserted([rev |-> 1, hash |-> s, seen |-> {s}, gone |-> dead], TRUE, TRUE, FALSE)

\* Variant: an order of edits is taken from the poll.
NeverReplay(row, s, confirmed) == s = row.hash /\ ~confirmed

\* An accepted snapshot the store has seen before proves nothing about the
\* order of edits unless it was read back just now.
IsReplay(row, s, confirmed) == s \in row.seen /\ ~confirmed

\* A migrated row takes its first live snapshot without a new revision.
Stamps(row, dead) == row.hash = Unhashed /\ ~dead

Changes(row, s, dead) ==
  LET same == Stamps(row, dead) IN
  Upserted([rev |-> IF same THEN row.rev ELSE row.rev + 1, hash |-> s,
            seen |-> row.seen \cup {s}, gone |-> dead], FALSE, ~same, FALSE)

\* dead says that the snapshot carries a tombstone marker.
Upsert(row, s, dead, confirmed) ==
  CASE row.rev = 0 -> Inserts(s, dead)
    [] row.rev > 0 /\ row.gone -> Kept(row)
    [] row.rev > 0 /\ ~row.gone /\ IsReplay(row, s, confirmed) ->
         [Kept(row) EXCEPT !.unsure = s # row.hash]
    [] row.rev > 0 /\ ~row.gone /\ ~IsReplay(row, s, confirmed) ->
         IF s = row.hash /\ ~dead THEN Kept(row) ELSE Changes(row, s, dead)
=============================================================================
