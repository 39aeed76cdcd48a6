------------------------------- MODULE Sessions -------------------------------
(***************************************************************************)
(* The runtime session of a task: what TaskSessionRunner puts in a prompt, *)
(* how often a failing backend is called, whose session id the task row    *)
(* keeps, and what a runtime session therefore remembers of the task.      *)
(*                                                                         *)
(* One process asks, message after message; the configured provider may    *)
(* change at a restart, the owner may set the task's background and        *)
(* retention may forget the session.  The runtimes are external: a session *)
(* remembers every prompt that reached it.                                 *)
(***************************************************************************)
EXTENDS Integers, Sequences, FiniteSets, SequencesExt

CONSTANTS
  Sent,         \* the messages of the task, in the order they were sent
  Waiting,      \* those that are unavailable P2P resources alone
  Providers,    \* hermes, codex, claude_code
  Forks,        \* providers that give a resumed session a new id
  MaxAttempts,  \* AGENT_MAX_ATTEMPTS
  Adjacent,     \* P2P_ADJACENT_RESOURCE_CONTEXT_LIMIT
  MaxSession,   \* bound: sessions the runtimes open
  MaxEdit,      \* bound: revisions of a message
  MaxBreak,     \* bound: calls that fail, crashes, restarts, forgettings
  NoSession, NoMessage

ASSUME SessionsAssumption ==
  /\ Sent \in Seq(ToSet(Sent)) /\ Waiting \subseteq ToSet(Sent) /\ Forks \subseteq Providers
  /\ {MaxAttempts, MaxSession, MaxEdit} \subseteq Nat \ {0}
  /\ {Adjacent, MaxBreak} \subseteq Nat
  /\ NoSession \notin 1..MaxSession /\ NoMessage \notin Providers \cup ToSet(Sent)

VARIABLES
  held,        \* the task's messages in the order they were sent
  revs,        \* [Asked -> current revision]
  settled,     \* <<message, revision>> whose session stage is processed
  stuck,       \* messages whose session stage failed or is blocked
  provider,    \* the configured one, of this process
  session,     \* the task row: session id and its provider
  background,  \* the task's background: 0 none, 1 set
  memory,      \* external: [session -> what its prompts told it]
  ask,         \* the call under way
  breaks

sessionVars == <<held, revs, settled, stuck, provider, session, background,
                 memory, ask, breaks>>

Asked == ToSet(Sent)
SessionId == 1..MaxSession
Unopened == [provider |-> NoMessage, told |-> {}, background |-> 0]
NoAsk == [at |-> "idle", message |-> NoMessage, plan |-> <<>>, resumes |-> NoSession,
          background |-> 0, attempt |-> 0, answer |-> NoSession]

SessionsInit ==
  /\ held = <<>> /\ revs = [m \in Asked |-> 1] /\ settled = {} /\ stuck = {}
  /\ provider \in Providers
  /\ session = [id |-> NoSession, provider |-> NoMessage]
  /\ background = 0
  /\ memory = [s \in SessionId |-> Unopened]
  /\ ask = NoAsk /\ breaks = MaxBreak

Opened == {s \in SessionId : memory[s].provider # NoMessage}
NextSession == IF Opened = SessionId THEN NoSession
               ELSE CHOOSE s \in SessionId \ Opened : \A z \in SessionId \ Opened : s <= z

Current(m) == <<m, revs[m]>>
------------------------------------------------------------------------------
(* Messages are handled one by one: the next is attached when the session  *)
(* stage of the others is final, and a later revision is asked about again. *)
Unasked == {m \in ToSet(held) \ (Waiting \cup stuck) : Current(m) \notin settled}

AttachNext ==
  /\ ask.at = "idle" /\ Len(held) < Len(Sent) /\ Unasked = {}
  /\ held' = SubSeq(Sent, 1, Len(held) + 1)
  /\ UNCHANGED <<revs, settled, stuck, provider, session, background, memory, ask, breaks>>

Edit(m) ==
  /\ ask.at = "idle" /\ m \in ToSet(held) \ Waiting /\ revs[m] < MaxEdit
  /\ revs' = [revs EXCEPT ![m] = @ + 1] /\ stuck' = stuck \ {m}
  /\ UNCHANGED <<held, settled, provider, session, background, memory, ask, breaks>>

(* update_task_background appends a version and leaves the session alone. *)
SetBackground ==
  /\ background = 0 /\ background' = 1
  /\ UNCHANGED <<held, revs, settled, stuck, provider, session, memory, ask, breaks>>

(* Variant: whoever started the session. *)
AnySession == session.id

(* get_initialized_agent_session_id *)
Initialized == IF session.provider = provider THEN session.id ELSE NoSession

(* Where a message stands, and the contiguous tail of waiting resources before it. *)
Place(m) == CHOOSE i \in DOMAIN held : held[i] = m

WaitingBefore(m) ==
  LET tails == {i \in 1..Place(m) : /\ Place(m) - i <= Adjacent
                                    /\ \A j \in i..(Place(m) - 1) : held[j] \in Waiting}
  IN SubSeq(held, Min(tails), Place(m) - 1)

(* Variant: a fresh session is given what a resumed one is. *)
PromptAfresh(m, id) == WaitingBefore(m) \o <<m>>

(* A fresh session is told the task, a resumed one the message. *)
PromptMessages(m, id) ==
  IF id = NoSession THEN held ELSE WaitingBefore(m) \o <<m>>

(* build_plan: session, messages, background are read before the call.  A  *)
(* waiting resource alone is not asked about.                              *)
BuildPlan(m) ==
  LET id == Initialized IN
  /\ ask.at = "idle" /\ m \in Unasked
  /\ ask' = [at |-> "call", message |-> m, resumes |-> id, attempt |-> 1,
             plan |-> [i \in 1..Len(PromptMessages(m, id)) |-> Current(PromptMessages(m, id)[i])],
             background |-> IF id = NoSession THEN background ELSE 0,
             answer |-> NoSession]
  /\ UNCHANGED <<held, revs, settled, stuck, provider, session, background, memory, breaks>>

(* An operator's retry of a failed or blocked stage. *)
RetryAsk(m) ==
  /\ ask.at = "idle" /\ m \in stuck
  /\ stuck' = stuck \ {m}
  /\ UNCHANGED <<held, revs, settled, provider, session, background, memory, ask, breaks>>

(* Resource preflight blocks the message before any call. *)
Blocked ==
  /\ ask.at = "call" /\ ask.attempt = 1 /\ breaks > 0
  /\ breaks' = breaks - 1
  /\ stuck' = stuck \cup {ask.message} /\ ask' = NoAsk
  /\ UNCHANGED <<held, revs, settled, provider, session, background, memory>>

Told == ToSet(ask.plan)

(* What a prompt leaves behind in a runtime: a new session, the resumed    *)
(* one, or a copy of it under a new id.                                    *)
Reached(s) ==
  IF ask.resumes = NoSession
  THEN /\ s # NoSession /\ s = NextSession
       /\ memory' = [memory EXCEPT ![s] =
            [provider |-> provider, told |-> Told, background |-> ask.background]]
  ELSE IF provider \in Forks
  THEN /\ s # NoSession /\ s = NextSession
       /\ memory' = [memory EXCEPT ![s] =
            [memory[ask.resumes] EXCEPT !.told = @ \cup Told]]
  ELSE /\ s = ask.resumes
       /\ memory' = [memory EXCEPT ![s].told = @ \cup Told]

(* The backend answers with JSON and the id of the session it used. *)
CallAnswers ==
  /\ ask.at = "call"
  /\ \E s \in SessionId : Reached(s) /\ ask' = [ask EXCEPT !.at = "audit", !.answer = s]
  /\ UNCHANGED <<held, revs, settled, stuck, provider, session, background, breaks>>

(* is_retryable_agent_result, and the three attempts of call_with_retries. *)
Again(retryable) == retryable /\ ask.attempt < MaxAttempts

(* It times out, raises, exits non-zero or answers no JSON: before or      *)
(* after the prompt reached the session.                                   *)
CallFails ==
  /\ ask.at = "call" /\ breaks > 0 /\ breaks' = breaks - 1
  /\ UNCHANGED memory \/ \E s \in SessionId : Reached(s)
  /\ \E retryable \in BOOLEAN :
       ask' = IF Again(retryable) THEN [ask EXCEPT !.attempt = @ + 1]
              ELSE [ask EXCEPT !.at = "failed"]
  /\ UNCHANGED <<held, revs, settled, stuck, provider, session, background>>

(* The audit is written either way; a failed call ends in its marker. *)
MarkFailed ==
  /\ ask.at = "failed"
  /\ stuck' = stuck \cup {ask.message} /\ ask' = NoAsk
  /\ UNCHANGED <<held, revs, settled, provider, session, background, memory, breaks>>

(* An answer the schema rejects fails the stage and keeps the old session. *)
SchemaFails ==
  /\ ask.at = "audit" /\ breaks > 0 /\ breaks' = breaks - 1
  /\ ask' = [ask EXCEPT !.at = "failed"]
  /\ UNCHANGED <<held, revs, settled, stuck, provider, session, background, memory>>

(* Variant: only the first session of a task is saved. *)
SaveFirst ==
  /\ ask.at = "audit"
  /\ session' = IF session.id = NoSession
                THEN [id |-> ask.answer, provider |-> provider] ELSE session
  /\ ask' = [ask EXCEPT !.at = "answered"]
  /\ UNCHANGED <<held, revs, settled, stuck, provider, background, memory, breaks>>

(* A validated answer: its session becomes the task's. *)
SaveSession ==
  /\ ask.at = "audit"
  /\ session' = IF ask.answer # ask.resumes
                THEN [id |-> ask.answer, provider |-> provider] ELSE session
  /\ ask' = [ask EXCEPT !.at = "answered"]
  /\ UNCHANGED <<held, revs, settled, stuck, provider, background, memory, breaks>>

(* The reply, the task update and the processed marker. *)
MarkProcessed ==
  /\ ask.at = "answered"
  /\ settled' = settled \cup {Current(ask.message)} /\ ask' = NoAsk
  /\ UNCHANGED <<held, revs, stuck, provider, session, background, memory, breaks>>

(* The process dies, or is stopped and configured for another runtime. *)
Restart ==
  /\ breaks > 0 /\ breaks' = breaks - 1
  /\ ask' = NoAsk /\ provider' \in Providers
  /\ UNCHANGED <<held, revs, settled, stuck, session, background, memory>>

(* Retention scrubs the row of a task that is watched no more. *)
Forget ==
  /\ breaks > 0 /\ breaks' = breaks - 1
  /\ ask.at = "idle" /\ session.id # NoSession
  /\ session' = [session EXCEPT !.id = NoSession]
  /\ UNCHANGED <<held, revs, settled, stuck, provider, background, memory, ask>>

SessionsNext ==
  \/ \E m \in Asked : Edit(m) \/ BuildPlan(m) \/ RetryAsk(m)
  \/ AttachNext \/ SetBackground \/ Blocked \/ CallAnswers \/ CallFails \/ MarkFailed \/ SchemaFails
  \/ SaveSession \/ MarkProcessed \/ Restart \/ Forget

SessionsSpec == SessionsInit /\ [][SessionsNext]_sessionVars
------------------------------------------------------------------------------
(***************************************************************************)
(* A session the row would resume belongs to the provider that runs and    *)
(* knows every revision that was answered: whatever calls failed half-way, *)
(* ids were forked, processes died and providers were switched since.      *)
(***************************************************************************)
AnswersKnown ==
  LET id == Initialized IN
  ask.at = "idle" /\ id # NoSession =>
    /\ memory[id].provider = provider
    /\ \A p \in settled : \E q \in memory[id].told : q[1] = p[1] /\ q[2] >= p[2]
=============================================================================
