------------------------------- MODULE Routing -------------------------------
(* Which task a message belongs to: candidate collection, the deterministic   *)
(* shortcuts and their order (CandidateCollector, MessageRouter.route), and   *)
(* message eligibility. Pure: the store is a parameter.                       *)
EXTENDS Naturals, Sequences, FiniteSets

CONSTANTS
  Message,    \* message ids
  Task,       \* task ids
  NoTask,
  Chat,       \* Chat[m]: the chat m was posted in
  Sender,     \* Sender[m]
  Role,       \* Role[m]: "other", "owner_message" or "self_message"
  SentAt,     \* SentAt[m]: seconds
  Burst       \* lifecycle.burst_attach_seconds

\* Snapshots are records with at least these fields; NoKey when absent.
CONSTANT NoKey
Sources == {"p2p", "group_at_me", "active_watch"}
Trigger == {"p2p", "group_at_me"}
ChatType(c) == c[1]                       \* a chat is <<type, id>>

TaskStatus == {"none", "watching", "closed", "closed_by_owner", "human_taken_over"}

NoTaskRow == [status |-> "none", chat |-> NoKey, thread |-> NoKey, holds |-> {},
              lapsed |-> FALSE, keys |-> {}]

Active(row) == row.status = "watching" /\ ~row.lapsed
TheOnly(ts) == IF Cardinality(ts) = 1 THEN CHOOSE t \in ts : TRUE ELSE NoTask

WatchKeys(m, s) ==
  {<<"msg", m>>, <<"user", Sender[m]>>}
    \cup (IF s.thread = NoKey THEN {} ELSE {<<"thread", s.thread>>})

Created(m, s) ==
  [status |-> "watching", chat |-> Chat[m], thread |-> s.thread, holds |-> {m},
   lapsed |-> FALSE, keys |-> WatchKeys(m, s)]

Attached(row, m, s) ==
  [row EXCEPT !.holds = @ \cup {m}, !.keys = @ \cup WatchKeys(m, s), !.lapsed = FALSE]

\* A readback of the agent's own reply is watched, but not as a user's message.
AgentSaid(row, m, s) ==
  [row EXCEPT !.holds = @ \cup {m}, !.lapsed = FALSE,
              !.keys = @ \cup (WatchKeys(m, s) \ {<<"user", Sender[m]>>})]

Watching(tasks, m, key) ==
  {t \in Task : Active(tasks[t]) /\ tasks[t].chat = Chat[m] /\ key \in tasks[t].keys}

ReplyMatches(tasks, m, s) ==
  IF s.reply = NoKey THEN {} ELSE Watching(tasks, m, <<"msg", s.reply>>)

\* A task found by the reply is not counted again for the thread.
ThreadMatches(tasks, m, s) ==
  IF s.thread = NoKey THEN {}
  ELSE Watching(tasks, m, <<"thread", s.thread>>) \ ReplyMatches(tasks, m, s)

MentionMatches(tasks, m, s) ==
  {t \in Task : s.mention /\ Active(tasks[t]) /\ tasks[t].chat = Chat[m]}

Candidates(tasks, m, s) ==
  ReplyMatches(tasks, m, s) \cup ThreadMatches(tasks, m, s)
    \cup Watching(tasks, m, <<"user", Sender[m]>>) \cup MentionMatches(tasks, m, s)

DeterministicMatch(tasks, m, s) ==
  LET reply == TheOnly(ReplyMatches(tasks, m, s)) IN
  IF reply # NoTask THEN reply ELSE TheOnly(ThreadMatches(tasks, m, s))

\* Tasks whose latest message of the same sender is at most Burst seconds older.
BurstMatches(tasks, m, s) ==
  {t \in Candidates(tasks, m, s) :
     LET earlier == {n \in tasks[t].holds \ {m} : Sender[n] = Sender[m]} IN
     /\ Burst > 0
     /\ \E n \in earlier :
          /\ \A k \in earlier : SentAt[k] <= SentAt[n]
          /\ SentAt[n] <= SentAt[m] /\ SentAt[m] <= SentAt[n] + Burst}

\* Closed tasks of the chat that share a sender, a thread or the replied message.
RelatedClosed(tasks, m, s) ==
  {t \in Task :
     /\ tasks[t].status = "closed" /\ tasks[t].chat = Chat[m]
     /\ \/ <<"user", Sender[m]>> \in tasks[t].keys
        \/ s.thread # NoKey /\ (tasks[t].thread = s.thread
                                \/ <<"thread", s.thread>> \in tasks[t].keys)
        \/ s.reply # NoKey /\ (s.reply \in tasks[t].holds
                               \/ <<"msg", s.reply>> \in tasks[t].keys)}

\* The one active task that already holds m.
Home(tasks, m) == TheOnly({t \in Task : m \in tasks[t].holds /\ Active(tasks[t])})

\* The task an owner's message takes over: by the message it answers, in the
\* same chat only, else by the thread.
TakenOver(tasks, m, s) ==
  LET answered == TheOnly({t \in Task : /\ s.reply # NoKey /\ s.reply \in tasks[t].holds
                                        /\ tasks[t].chat = Chat[m] /\ Active(tasks[t])})
  IN  IF answered # NoTask THEN answered
      ELSE IF s.thread = NoKey THEN NoTask
      ELSE TheOnly(Watching(tasks, m, <<"thread", s.thread>>))

Decision(route, task) == [route |-> route, task |-> task]
Rule(when, route, task) == [when |-> when, then |-> Decision(route, task)]

\* MessageRouter.route after the duplicate check, in the order of its returns.
\* readback is the task whose recorded send produced m, if any.
Rules(tasks, m, s, src, changed, readback) ==
  LET alone == Candidates(tasks, m, s) = {}
      trigger == src \in Trigger
      exact == DeterministicMatch(tasks, m, s)
      burst == TheOnly(BurstMatches(tasks, m, s))
      owned == TakenOver(tasks, m, s)
  IN <<
    Rule(changed /\ Home(tasks, m) # NoTask, "attach_task", Home(tasks, m)),
    Rule(readback # NoTask, "ignore", readback),
    Rule(Role[m] = "self_message", "ignore", NoTask),
    Rule(Role[m] = "owner_message" /\ owned # NoTask, "human_taken_over", owned),
    Rule(Role[m] = "owner_message", "ignore", NoTask),
    Rule(s.all, "ignore", NoTask),
    Rule(src = "group_at_me" /\ ~s.mention, "ignore", NoTask),
    Rule(exact # NoTask, "attach_task", exact),
    Rule(trigger /\ burst # NoTask, "attach_task", burst),
    Rule(alone /\ trigger /\ RelatedClosed(tasks, m, s) # {}, "recall_placeholder", NoTask),
    Rule(alone /\ trigger, "new_task", NoTask),
    Rule(alone, "ignore", NoTask),
    Rule(TRUE, "router_placeholder", NoTask) >>

Route(tasks, m, s, src, changed, readback) ==
  LET rules == Rules(tasks, m, s, src, changed, readback)
      first == CHOOSE i \in DOMAIN rules :
                 rules[i].when /\ \A j \in 1..(i - 1) : ~rules[j].when
  IN  rules[first].then

\* MessageEligibilityPolicy.decide for the sources a message can come from.
Eligible(m, s, src) ==
  /\ Role[m] # "self_message" /\ ~s.all
  /\ \/ ChatType(Chat[m]) = "p2p"
     \/ Role[m] = "owner_message"
     \/ src = "active_watch"
     \/ src = "group_at_me" /\ s.mention
=============================================================================
