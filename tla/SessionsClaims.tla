--------------------------- MODULE SessionsClaims ---------------------------
(* A statement of the code about runtime sessions that it does not keep; the *)
(* run that checks it is expected to fail.                                   *)
EXTENDS Sessions

(***************************************************************************)
(* "Resumed agent sessions already carry task history"                     *)
(* (task_session_runner.py:211): when a session is resumed for a message,  *)
(* the session or the prompt has each message of the task before it.       *)
(***************************************************************************)
HistoryCarried ==
  ask.at = "call" /\ ask.resumes # NoSession =>
    \A i \in 1..(IndexFirstSubSeq(<<ask.message>>, held) - 1) :
      \E q \in memory[ask.resumes].told \cup ToSet(ask.plan) : q[1] = held[i]
=============================================================================
