----------------------------- MODULE MCPipeline -----------------------------
(* Small casts of messages for Pipeline and, in a scene of its own, what the *)
(* runtime sessions of one task are told over three messages.               *)
EXTENDS Pipeline, Sessions, TLC

CONSTANTS edited, returned, recalled, file, next, question, owner, mine, m1, m2, m3

VARIABLE scene

MCMessage == {edited, returned, recalled, file, next, question, owner, mine}
Snap(tag) == [tag |-> tag, text |-> TRUE, thread |-> NoKey, reply |-> NoKey,
              mention |-> FALSE, all |-> FALSE, dead |-> FALSE, res |-> FALSE]
InThread(tag) == [Snap(tag) EXCEPT !.thread = "th"]
ToAll(tag) == [Snap(tag) EXCEPT !.all = TRUE]

\* returned: A, B and back to A; recalled: withdrawn; file: an attachment alone.
MCScript ==
  [m \in MCMessage |->
     CASE m = edited -> <<Snap("A"), Snap("B")>>
       [] m = returned -> <<ToAll("A"), ToAll("B"), ToAll("A")>>
       [] m = recalled -> <<Snap("A"), [Snap("D") EXCEPT !.dead = TRUE]>>
       [] m = file -> <<[Snap("F") EXCEPT !.res = TRUE, !.text = FALSE]>>
       [] m = next -> <<Snap("N")>>
       [] m = question -> <<[InThread("A") EXCEPT !.mention = TRUE]>>
       [] m = owner -> <<InThread("O")>>
       [] m = mine -> <<InThread("M")>>]

MCRole == [m \in MCMessage |-> IF m = owner THEN "owner_message"
                               ELSE IF m = mine THEN "self_message" ELSE "other"]
MCChat == [m \in MCMessage |-> IF m \in {question, owner, mine} THEN <<"group", 1>>
                               ELSE <<"p2p", 1>>]
MCSender == [m \in MCMessage |-> IF m \in {owner, mine} THEN "owner" ELSE "user"]
MCSentAt == [m \in MCMessage |-> IF m = next THEN 1 ELSE 0]

Cast(messages, retried, faulty, ended, late) ==
  [messages |-> messages, retried |-> retried, faults |-> faulty, ends |-> ended,
   late |-> late]

RaceCasts == {
  Cast(<<edited, edited>>, {}, 1, 0, FALSE), Cast(<<edited, edited>>, {edited}, 0, 0, FALSE),
  Cast(<<edited, edited>>, {}, 0, 1, FALSE), Cast(<<edited, edited>>, {}, 0, 0, TRUE),
  Cast(<<returned, returned>>, {}, 1, 0, TRUE), Cast(<<recalled, recalled>>, {recalled}, 1, 1, TRUE),
  Cast(<<file, file>>, {file}, 1, 1, FALSE), Cast(<<question, owner>>, {question}, 1, 0, FALSE),
  Cast(<<question, mine>>, {}, 1, 1, TRUE), Cast(<<recalled, next>>, {}, 0, 0, FALSE) }

MCSent == <<m1, m2, m3>>

MCInit ==
  /\ Init /\ SessionsInit /\ scene \in {"messages", "sessions"}
  /\ scene = "sessions" => cast = CHOOSE c \in Casts : TRUE
  /\ scene = "messages" => provider = CHOOSE p \in Providers : TRUE

MCNext ==
  /\ UNCHANGED scene
  /\ \/ scene = "messages" /\ Next /\ UNCHANGED sessionVars
     \/ scene = "sessions" /\ SessionsNext /\ UNCHANGED vars

MCSpec == MCInit /\ [][MCNext]_<<vars, sessionVars, scene>> /\ (scene = "messages" => Fairness)
=============================================================================
