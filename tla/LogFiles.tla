------------------------------- MODULE LogFiles -------------------------------
(***************************************************************************)
(* The JSONL and text logs: writers of several processes and threads, and  *)
(* the retention that replaces a file by a copy without old payloads.  A   *)
(* thread holds its logger's lock, then one advisory lock per file; a      *)
(* handler that has the replaced file open must notice.                    *)
(***************************************************************************)
EXTENDS Integers, Sequences, FiniteSets, SequencesExt

CONSTANTS
  Writer,     \* threads that log
  LoggerOf,   \* [Writer -> the JSONLLogger of its process]
  Files,      \* number of log files: the JSONL log and the text log
  MaxLine,    \* bound: lines logged
  MaxScrub,   \* bound: prunings
  MaxDeath,   \* bound: processes that die
  Nobody

ASSUME LogFilesAssumption ==
  /\ Files \in Nat \ {0} /\ {MaxLine, MaxScrub, MaxDeath} \subseteq Nat
  /\ Nobody \notin Writer

Logger == {LoggerOf[w] : w \in Writer}
LogFile == 1..Files

VARIABLES
  disk,      \* [LogFile -> its lines: number, whole or pruned]
  inode,     \* [LogFile -> which file the path names]
  opened,    \* [Logger -> [LogFile -> the file its handler has open, 0 closed]]
  guard,     \* [Logger -> the thread in its _handler_lock, or Nobody]
  flock,     \* [LogFile -> the thread that holds its lock file, or Nobody]
  thread,    \* [Writer -> what it is doing]
  lines,     \* lines logged so far
  aged,      \* lines older than the cutoff
  written,   \* history: [LogFile -> the lines written]
  prunings, deaths

logVars == <<disk, inode, opened, guard, flock, thread, lines, aged, written,
             prunings, deaths>>

Quiet == [at |-> "idle", file |-> 0, line |-> 0, copy |-> <<>>, changed |-> FALSE,
          keep |-> {}]

LogsInit ==
  /\ disk = [f \in LogFile |-> <<>>] /\ inode = [f \in LogFile |-> 1]
  /\ opened = [l \in Logger |-> [f \in LogFile |-> 1]]
  /\ guard = [l \in Logger |-> Nobody] /\ flock = [f \in LogFile |-> Nobody]
  /\ thread = [w \in Writer |-> Quiet]
  /\ lines = 0 /\ aged = {} /\ written = [f \in LogFile |-> <<>>]
  /\ prunings = MaxScrub /\ deaths = MaxDeath

At(w, step) == thread[w].at = step
Moves(w, step) == thread' = [thread EXCEPT ![w].at = step]

(* The lock of a logger, and the advisory lock of a file. *)
Guarded(w) == guard[LoggerOf[w]] = Nobody /\ guard' = [guard EXCEPT ![LoggerOf[w]] = w]
Locked(w, f) == flock[f] = Nobody /\ flock' = [flock EXCEPT ![f] = w]
------------------------------------------------------------------------------
(* emit *)
Emit(w) ==
  /\ At(w, "idle") /\ lines < MaxLine /\ Guarded(w)
  /\ lines' = lines + 1
  /\ thread' = [thread EXCEPT ![w] = [Quiet EXCEPT !.at = "lock", !.file = 1, !.line = lines + 1]]
  /\ UNCHANGED <<disk, inode, opened, flock, aged, written, prunings, deaths>>

EmitLocks(w) ==
  /\ At(w, "lock") /\ Locked(w, thread[w].file) /\ Moves(w, "write")
  /\ UNCHANGED <<disk, inode, opened, guard, lines, aged, written, prunings, deaths>>

(* Variant: a handler writes to whatever it opened first. *)
KeepsOpen(l, f) == opened[l][f]

(* _reopen_if_replaced: the path names another file than the one open. *)
Reopened(l, f) == inode[f]

EmitWrites(w) ==
  LET l == LoggerOf[w]  f == thread[w].file IN
  /\ At(w, "write") /\ Moves(w, "unlock")
  /\ opened' = [opened EXCEPT ![l][f] = Reopened(l, f)]
  /\ disk' = IF Reopened(l, f) = inode[f]
             THEN [disk EXCEPT ![f] = Append(@, [line |-> thread[w].line, whole |-> TRUE])]
             ELSE disk
  /\ written' = [written EXCEPT ![f] = Append(@, thread[w].line)]
  /\ UNCHANGED <<inode, guard, flock, lines, aged, prunings, deaths>>

(* One handler after the other, each with its file's lock. *)
EmitUnlocks(w) ==
  LET last == thread[w].file = Files IN
  /\ At(w, "unlock")
  /\ flock' = [flock EXCEPT ![thread[w].file] = Nobody]
  /\ thread' = [thread EXCEPT ![w] = IF last THEN Quiet
                                     ELSE [thread[w] EXCEPT !.at = "lock", !.file = @ + 1]]
  /\ guard' = IF last THEN [guard EXCEPT ![LoggerOf[w]] = Nobody] ELSE guard
  /\ UNCHANGED <<disk, inode, opened, lines, aged, written, prunings, deaths>>
------------------------------------------------------------------------------
(* scrub_before: the lines of watched tasks are listed before, then all    *)
(* files are locked in one order and the logger's own handlers are closed. *)
BeginScrub(w) ==
  /\ At(w, "idle") /\ prunings > 0 /\ Guarded(w)
  /\ prunings' = prunings - 1
  /\ \E keep \in SUBSET aged :
       thread' = [thread EXCEPT ![w] = [Quiet EXCEPT !.at = "claim", !.file = 1, !.keep = keep]]
  /\ UNCHANGED <<disk, inode, opened, flock, lines, aged, written, deaths>>

(* Variant: the files are locked only while they are replaced. *)
ClaimLater(w) ==
  /\ At(w, "claim")
  /\ thread' = [thread EXCEPT ![w].at = "copy", ![w].file = 1]
  /\ UNCHANGED <<disk, inode, opened, guard, flock, lines, aged, written, prunings, deaths>>

Claim(w) ==
  /\ At(w, "claim") /\ Locked(w, thread[w].file)
  /\ IF thread[w].file < Files
     THEN thread' = [thread EXCEPT ![w].file = @ + 1] /\ UNCHANGED opened
     ELSE /\ thread' = [thread EXCEPT ![w].at = "copy", ![w].file = 1]
          /\ opened' = [opened EXCEPT ![LoggerOf[w]] = [f \in LogFile |-> 0]]
  /\ UNCHANGED <<disk, inode, guard, lines, aged, written, prunings, deaths>>

(* _scrub_jsonl_line and _scrub_text_line: what is older than the cutoff   *)
(* and of no watched task keeps only its metadata.                         *)
Scrubbed(entry, keep) ==
  IF entry.line \in aged \ keep THEN [entry EXCEPT !.whole = FALSE] ELSE entry

(* _scrub_log_file: the temporary copy, then the replacement, if anything  *)
(* changed; an error leaves the file as it is.                             *)
Copy(w) ==
  LET f == thread[w].file
      copy == [i \in DOMAIN disk[f] |-> Scrubbed(disk[f][i], thread[w].keep)] IN
  /\ At(w, "copy")
  /\ \/ thread' = [thread EXCEPT ![w].at = "replace", ![w].copy = copy,
                                 ![w].changed = copy # disk[f]]
     \/ Moves(w, "reopen")
  /\ UNCHANGED <<disk, inode, opened, guard, flock, lines, aged, written, prunings, deaths>>

Replace(w) ==
  LET f == thread[w].file IN
  /\ At(w, "replace")
  /\ IF thread[w].changed
     THEN /\ disk' = [disk EXCEPT ![f] = thread[w].copy]
          /\ inode' = [inode EXCEPT ![f] = @ + 1]
     ELSE UNCHANGED <<disk, inode>>
  /\ thread' = [thread EXCEPT ![w].at = IF f = Files THEN "reopen" ELSE "copy",
                              ![w].file = IF f = Files THEN f ELSE f + 1,
                              ![w].copy = <<>>, ![w].changed = FALSE]
  /\ UNCHANGED <<opened, guard, flock, lines, aged, written, prunings, deaths>>

(* _configure_handlers, in any case, and then the locks. *)
Reopen(w) ==
  /\ At(w, "reopen")
  /\ opened' = [opened EXCEPT ![LoggerOf[w]] = inode]
  /\ flock' = [f \in LogFile |-> IF flock[f] = w THEN Nobody ELSE flock[f]]
  /\ guard' = [guard EXCEPT ![LoggerOf[w]] = Nobody]
  /\ thread' = [thread EXCEPT ![w] = Quiet]
  /\ UNCHANGED <<disk, inode, lines, aged, written, prunings, deaths>>

(* A line reaches the retention cutoff. *)
AgeLine(n) ==
  /\ n \in 1..lines \ aged /\ aged' = aged \cup {n}
  /\ UNCHANGED <<disk, inode, opened, guard, flock, thread, lines, written, prunings, deaths>>

(* A process dies with all its threads; its locks go with it, and the next *)
(* one opens the files anew.                                               *)
Die(l) ==
  LET dead == {w \in Writer : LoggerOf[w] = l} IN
  /\ deaths > 0 /\ deaths' = deaths - 1
  /\ \E w \in dead : ~At(w, "idle")
  /\ thread' = [w \in Writer |-> IF w \in dead THEN Quiet ELSE thread[w]]
  /\ flock' = [f \in LogFile |-> IF flock[f] \in dead THEN Nobody ELSE flock[f]]
  /\ guard' = [guard EXCEPT ![l] = Nobody]
  /\ opened' = [opened EXCEPT ![l] = inode]
  /\ UNCHANGED <<disk, inode, lines, aged, written, prunings>>

Writes(w) == \/ EmitLocks(w) \/ EmitWrites(w) \/ EmitUnlocks(w)
             \/ Claim(w) \/ Copy(w) \/ Replace(w) \/ Reopen(w)

LogsNext ==
  \/ \E w \in Writer : Emit(w) \/ BeginScrub(w) \/ Writes(w)
  \/ \E n \in 1..MaxLine : AgeLine(n)
  \/ \E l \in Logger : Die(l)

LogsSpec == LogsInit /\ [][LogsNext]_logVars
------------------------------------------------------------------------------
(***************************************************************************)
(* Retention loses no line: what any thread of any process has written is  *)
(* in the file its path names now, once and in order, however the writers  *)
(* and the prunings of other processes overlap and whoever dies between;   *)
(* and only lines past the cutoff lose their payload.                      *)
(***************************************************************************)
LinesKept ==
  \A f \in LogFile :
    /\ [i \in DOMAIN disk[f] |-> disk[f][i].line] = written[f]
    /\ \A i \in DOMAIN disk[f] : disk[f][i].whole \/ disk[f][i].line \in aged
=============================================================================
