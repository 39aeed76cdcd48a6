---------------------------- MODULE SessionsProofs ----------------------------
(***************************************************************************)
(* Proofs about runtime sessions: the session a task row would resume      *)
(* knows every revision that was answered.  What the invariant adds is the *)
(* call under way: which session it resumes, what its prompt tells, and    *)
(* what the session that answered therefore knows.                         *)
(***************************************************************************)
EXTENDS Sessions, SequenceTheorems, WellFoundedInduction, TLAPS

Revisions == Asked \X Nat
SessionRow == [provider: Providers \cup {NoMessage}, told: SUBSET Revisions, background: Nat]
AskRow == [at: {"idle", "call", "audit", "answered", "failed"},
           message: Asked \cup {NoMessage}, plan: Seq(Revisions),
           resumes: SessionId \cup {NoSession}, background: Nat, attempt: Nat,
           answer: SessionId \cup {NoSession}]

SessionsType ==
  /\ held \in Seq(Asked) /\ revs \in [Asked -> Nat] /\ settled \in SUBSET Revisions
  /\ provider \in Providers
  /\ session \in [id: SessionId \cup {NoSession}, provider: Providers \cup {NoMessage}]
  /\ background \in Nat /\ memory \in [SessionId -> SessionRow] /\ ask \in AskRow

(* A session that knows every answered revision, or a later one.           *)
Knows(s) ==
  \A p \in settled : \E q \in memory[s].told : q[1] = p[1] /\ q[2] >= p[2]

(* The task holds the first messages of those that are sent.               *)
HeldInv == Len(held) <= Len(Sent) /\ \A i \in DOMAIN held : held[i] = Sent[i]

(* Only what the task holds was answered, and no revision to come.         *)
SettledInv == \A p \in settled : p[1] \in ToSet(held) /\ p[2] <= revs[p[1]]

RowInv ==
  session.id # NoSession =>
    memory[session.id].provider = session.provider /\ session.provider \in Providers
      /\ Knows(session.id)

AskInv ==
  /\ ask.at # "idle" => ask.message \in ToSet(held)
  /\ ask.at \in {"call", "audit"} => ask.resumes = Initialized
  /\ ask.at = "call" =>
       /\ Current(ask.message) \in Told
       /\ ask.resumes = NoSession => \A m \in ToSet(held) : Current(m) \in Told
  /\ ask.at = "audit" =>
       /\ ask.answer \in SessionId /\ memory[ask.answer].provider = provider
       /\ Knows(ask.answer) /\ Current(ask.message) \in memory[ask.answer].told
  /\ ask.at = "answered" =>
       session.id \in SessionId /\ Current(ask.message) \in memory[session.id].told

SessionsInv == SessionsType /\ HeldInv /\ SettledInv /\ RowInv /\ AskInv

--------------------------------------------------------------------------------
(* The prompt of a message: the task it belongs to, or the message itself. *)

LEMMA NatMin ==
  ASSUME NEW S \in SUBSET Nat, S # {}
  PROVE  \E n \in S : \A k \in S : n <= k
<1>1. PICK n \in S : \A k \in S : <<k, n>> \notin OpToRel(<, Nat)
  BY NatLessThanWellFounded, WFMin
<1>2. \A k \in S : ~(k < n)
  BY <1>1 DEF OpToRel
<1> QED
  BY <1>2

LEMMA PlaceIs ==
  ASSUME SessionsType, NEW m \in ToSet(held)
  PROVE  Place(m) \in 1..Len(held) /\ held[Place(m)] = m /\ m \in Asked
<1>1. DOMAIN held = 1..Len(held) /\ \A i \in DOMAIN held : held[i] \in Asked
  BY DEF SessionsType
<1>2. \E i \in DOMAIN held : held[i] = m
  BY DEF ToSet
<1> QED
  BY <1>1, <1>2 DEF Place

LEMMA WaitingSeq ==
  ASSUME SessionsType, NEW m \in ToSet(held)
  PROVE  WaitingBefore(m) \in Seq(Asked)
<1> DEFINE at == Place(m)
           tails == {i \in 1..at : at - i <= Adjacent
                                     /\ \A j \in i..(at - 1) : held[j] \in Waiting}
           from == Min(tails)
<1>1. at \in 1..Len(held) /\ Len(held) \in Nat /\ \A i \in 1..Len(held) : held[i] \in Asked
  BY PlaceIs DEF SessionsType
<1> HIDE DEF at
<1>2. tails \in SUBSET Nat /\ at \in tails
  BY <1>1, SessionsAssumption
<1>3. from \in tails
  <2> HIDE DEF tails
  <2>1. \E n \in tails : \A k \in tails : n <= k
    BY <1>2, NatMin
  <2> QED
    BY <2>1 DEF Min
<1>4. from \in 1..at
  BY <1>3
<1> HIDE DEF from, tails
<1>5. from \in Int /\ at - 1 \in Int /\ \A i \in from..(at - 1) : held[i] \in Asked
  BY <1>1, <1>4
<1>6. SubSeq(held, from, at - 1) \in Seq(Asked)
  BY <1>5, SubSeqProperties
<1> QED
  BY <1>6 DEF WaitingBefore, from, tails, at

LEMMA PromptTells ==
  ASSUME SessionsType, NEW m \in ToSet(held), NEW id
  PROVE  /\ PromptMessages(m, id) \in Seq(Asked)
         /\ m \in ToSet(PromptMessages(m, id))
         /\ id = NoSession => PromptMessages(m, id) = held
<1>1. held \in Seq(Asked) /\ m \in Asked
  BY PlaceIs DEF SessionsType
<1>2. CASE id = NoSession
  BY <1>1, <1>2 DEF PromptMessages
<1>3. CASE id # NoSession
  <2>1. WaitingBefore(m) \in Seq(Asked) /\ <<m>> \in Seq(Asked)
    BY <1>1, WaitingSeq
  <2> DEFINE w == WaitingBefore(m)
             p == w \o <<m>>
  <2> HIDE DEF w
  <2>2. p \in Seq(Asked) /\ Len(p) = Len(w) + 1 /\ p[Len(w) + 1] = m
    BY <1>1, <2>1 DEF w
  <2>3. m \in ToSet(p)
    BY <2>2 DEF ToSet
  <2> QED
    BY <1>3, <2>2, <2>3 DEF PromptMessages, w
<1> QED
  BY <1>2, <1>3

LEMMA PlanTells ==
  ASSUME SessionsType, NEW m \in ToSet(held), NEW P \in Seq(Asked), m \in ToSet(P),
         NEW plan, plan = [i \in 1..Len(P) |-> Current(P[i])]
  PROVE  plan \in Seq(Revisions) /\ \A n \in ToSet(P) : Current(n) \in ToSet(plan)
<1>1. Len(P) \in Nat /\ DOMAIN P = 1..Len(P) /\ \A i \in 1..Len(P) : P[i] \in Asked
  OBVIOUS
<1>2. \A n \in Asked : Current(n) \in Revisions
  BY DEF Current, Revisions, SessionsType
<1>3. plan \in Seq(Revisions) /\ DOMAIN plan = 1..Len(P)
  BY <1>1, <1>2
<1> QED
  BY <1>1, <1>3 DEF ToSet

--------------------------------------------------------------------------------
(* A prompt that reached a session.                                        *)

LEMMA NextIsNew ==
  ASSUME NextSession # NoSession
  PROVE  NextSession \in SessionId /\ memory[NextSession].provider = NoMessage
<1> DEFINE free == SessionId \ Opened
<1>1. free \in SUBSET Nat /\ free # {}
  BY SessionsAssumption DEF SessionId, NextSession, Opened
<1>2. \E s \in free : \A z \in free : s <= z
  <2> HIDE DEF free
  <2> QED
    BY <1>1, NatMin
<1>3. NextSession \in free
  BY <1>2 DEF NextSession
<1> QED
  BY <1>3 DEF Opened

(* It knows what it knew, and what it is told; no other session changes.   *)
LEMMA ReachedKnows ==
  ASSUME SessionsInv, ask.at = "call", NEW s \in SessionId, Reached(s),
         settled' = settled
  PROVE  /\ memory' \in [SessionId -> SessionRow] /\ memory'[s].provider = provider
         /\ Knows(s)' /\ Current(ask.message) \in memory'[s].told
         /\ \A x \in SessionId : memory[x].provider # NoMessage =>
              memory'[x].provider = memory[x].provider /\ memory[x].told \subseteq memory'[x].told
<1>1. /\ memory \in [SessionId -> SessionRow] /\ provider \in Providers /\ ask \in AskRow
      /\ provider # NoMessage /\ settled \in SUBSET Revisions /\ revs \in [Asked -> Nat]
  BY SessionsAssumption DEF SessionsInv, SessionsType
<1>2. Told \in SUBSET Revisions /\ ask.background \in Nat
  BY <1>1 DEF Told, AskRow, ToSet
<1>3. Current(ask.message) \in Told /\ ask.resumes = Initialized
  BY DEF SessionsInv, AskInv
<1>4. ask.resumes # NoSession =>
        /\ ask.resumes \in SessionId /\ memory[ask.resumes].provider = provider
        /\ Knows(ask.resumes)
  BY <1>1, <1>3 DEF SessionsInv, RowInv, Initialized, AskRow
<1> DEFINE fresh == [provider |-> provider, told |-> Told, background |-> ask.background]
<1>5. fresh \in SessionRow /\ fresh.told = Told /\ fresh.provider = provider
  BY <1>1, <1>2 DEF SessionRow
<1>6. CASE ask.resumes = NoSession
  <2>1. s = NextSession /\ NextSession # NoSession /\ memory' = [memory EXCEPT ![s] = fresh]
    BY <1>6 DEF Reached
  <2>2. memory[s].provider = NoMessage
    BY <2>1, NextIsNew
  <2> HIDE DEF fresh
  <2>3. memory'[s] = fresh /\ \A x \in SessionId \ {s} : memory'[x] = memory[x]
    BY <1>1, <2>1
  <2>4. Knows(s)'
    <3> SUFFICES ASSUME NEW p \in settled
                 PROVE  \E q \in memory'[s].told : q[1] = p[1] /\ q[2] >= p[2]
      BY DEF Knows
    <3>1. p \in Revisions /\ p[1] \in ToSet(held) /\ p[2] <= revs[p[1]]
      BY <1>1 DEF SessionsInv, SettledInv
    <3>2. Current(p[1]) \in Told
      BY <1>6, <3>1 DEF SessionsInv, AskInv
    <3>3. Current(p[1]) = <<p[1], revs[p[1]]>> /\ revs[p[1]] \in Nat /\ p[2] \in Nat
      BY <1>1, <3>1 DEF Current, Revisions
    <3> QED
      BY <1>5, <2>3, <3>1, <3>2, <3>3
  <2>5. memory' \in [SessionId -> SessionRow]
    BY <1>1, <1>5, <2>1
  <2> QED
    BY <1>3, <1>5, <2>2, <2>3, <2>4, <2>5
<1>7. CASE ask.resumes # NoSession
  <2> DEFINE old == memory[ask.resumes]
             new == [old EXCEPT !.told = old.told \cup Told]
  <2>1. old \in SessionRow /\ old.provider = provider
    BY <1>1, <1>4, <1>7
  <2>2. /\ new \in SessionRow /\ new.provider = provider /\ new.told = old.told \cup Told
    BY <1>2, <2>1 DEF SessionRow
  <2>3. memory' = [memory EXCEPT ![s] = new]
    BY <1>7 DEF Reached
  <2>4. s = ask.resumes \/ memory[s].provider = NoMessage
    BY <1>7, NextIsNew DEF Reached
  <2>5. \A p \in settled : \E q \in old.told : q[1] = p[1] /\ q[2] >= p[2]
    BY <1>4, <1>7 DEF Knows
  <2> HIDE DEF new
  <2>6. memory'[s] = new /\ \A x \in SessionId \ {s} : memory'[x] = memory[x]
    BY <1>1, <2>3
  <2>7. Knows(s)'
    BY <2>2, <2>5, <2>6 DEF Knows
  <2>8. memory' \in [SessionId -> SessionRow]
    BY <1>1, <2>2, <2>3
  <2>9. \A x \in SessionId : memory[x].provider # NoMessage =>
          memory'[x].provider = memory[x].provider /\ memory[x].told \subseteq memory'[x].told
    BY <2>1, <2>2, <2>4, <2>6
  <2> QED
    BY <1>3, <2>2, <2>6, <2>7, <2>8, <2>9
<1> QED
  BY <1>6, <1>7

--------------------------------------------------------------------------------
(* The steps between two calls.                                            *)

LEMMA InitSessions == SessionsInit => SessionsInv
<1> SUFFICES ASSUME SessionsInit PROVE SessionsInv
  OBVIOUS
<1>1. NoSession \notin SessionId /\ {} \in SUBSET Revisions
  BY SessionsAssumption DEF SessionId
<1>2. Unopened \in SessionRow /\ NoAsk \in AskRow /\ NoAsk.at = "idle"
  BY DEF Unopened, SessionRow, NoAsk, AskRow
<1>3. revs \in [Asked -> Nat] /\ held \in Seq(Asked) /\ background \in Nat
  BY DEF SessionsInit
<1>4. memory \in [SessionId -> SessionRow] /\ ask \in AskRow /\ ask.at = "idle"
  BY <1>2 DEF SessionsInit
<1>5. SessionsType
  BY <1>1, <1>3, <1>4 DEF SessionsInit, SessionsType
<1>6. HeldInv /\ SettledInv /\ RowInv /\ AskInv
  BY <1>1, <1>4, SessionsAssumption DEF SessionsInit, HeldInv, SettledInv, RowInv, AskInv
<1> QED
  BY <1>5, <1>6 DEF SessionsInv

LEMMA AttachNextSafe == ASSUME SessionsInv, AttachNext PROVE SessionsInv'
<1>1. held \in Seq(Asked) /\ Sent \in Seq(Asked) /\ Len(held) < Len(Sent)
  BY SessionsAssumption DEF SessionsInv, SessionsType, AttachNext, Asked
<1>2. /\ held' \in Seq(Asked) /\ Len(held') = Len(held) + 1
      /\ \A i \in 1..(Len(held) + 1) : held'[i] = Sent[i]
  <2>1. \A i \in 1..(Len(held) + 1) : Sent[i] \in Asked
    BY <1>1
  <2>2. held' = SubSeq(Sent, 1, Len(held) + 1)
    BY DEF AttachNext
  <2> QED
    BY <1>1, <2>1, <2>2, SubSeqProperties
<1>3. HeldInv'
  BY <1>1, <1>2 DEF HeldInv
<1>4. ToSet(held) \subseteq ToSet(held')
  <2>1. \A i \in 1..Len(held) : held[i] = held'[i] /\ i \in 1..Len(held')
    BY <1>1, <1>2 DEF SessionsInv, HeldInv
  <2> QED
    BY <1>1, <1>2, <2>1 DEF ToSet
<1>5. SessionsType'
  BY <1>2 DEF SessionsInv, SessionsType, AttachNext
<1>6. SettledInv'
  BY <1>4 DEF SessionsInv, SettledInv, AttachNext
<1>7. RowInv' /\ AskInv'
  BY DEF SessionsInv, RowInv, AskInv, Knows, Current, Told, Initialized, AttachNext
<1> QED
  BY <1>3, <1>5, <1>6, <1>7 DEF SessionsInv

LEMMA EditSafe == ASSUME SessionsInv, NEW m \in Asked, Edit(m) PROVE SessionsInv'
<1>1. /\ revs \in [Asked -> Nat] /\ revs' = [revs EXCEPT ![m] = revs[m] + 1]
      /\ settled \in SUBSET Revisions
  BY DEF SessionsInv, SessionsType, Edit
<1>2. revs' \in [Asked -> Nat] /\ \A x \in Asked : revs[x] <= revs'[x]
  BY <1>1
<1>3. SessionsType' /\ HeldInv'
  BY <1>2 DEF SessionsInv, SessionsType, HeldInv, Edit
<1>4. SettledInv'
  <2> SUFFICES ASSUME NEW p \in settled PROVE p[1] \in ToSet(held) /\ p[2] <= revs'[p[1]]
    BY DEF SettledInv, Edit
  <2>1. p[1] \in Asked /\ p[2] \in Nat /\ p[1] \in ToSet(held) /\ p[2] <= revs[p[1]]
    BY <1>1 DEF SessionsInv, SettledInv, Revisions
  <2>2. revs[p[1]] \in Nat /\ revs'[p[1]] \in Nat /\ revs[p[1]] <= revs'[p[1]]
    BY <1>1, <1>2, <2>1
  <2> QED
    BY <2>1, <2>2
<1>5. RowInv' /\ AskInv'
  BY DEF SessionsInv, RowInv, AskInv, Knows, Edit
<1> QED
  BY <1>3, <1>4, <1>5 DEF SessionsInv

LEMMA BuildPlanSafe == ASSUME SessionsInv, NEW m \in Asked, BuildPlan(m) PROVE SessionsInv'
<1>1. /\ m \in ToSet(held) /\ SessionsType /\ background \in Nat /\ held \in Seq(Asked)
  BY DEF SessionsInv, SessionsType, BuildPlan, Unasked
<1>2. PICK P : P = PromptMessages(m, Initialized)
  OBVIOUS
<1>3. PICK plan : plan = [i \in 1..Len(P) |-> Current(P[i])]
  OBVIOUS
<1>4. PICK told : told = IF Initialized = NoSession THEN background ELSE 0
  OBVIOUS
<1>5. P \in Seq(Asked) /\ m \in ToSet(P) /\ (Initialized = NoSession => P = held)
  BY <1>1, <1>2, PromptTells
<1>6. plan \in Seq(Revisions) /\ \A n \in ToSet(P) : Current(n) \in ToSet(plan)
  BY <1>1, <1>3, <1>5, PlanTells
<1>7. ask' = [at |-> "call", message |-> m, resumes |-> Initialized, attempt |-> 1,
              plan |-> plan, background |-> told, answer |-> NoSession]
  BY <1>2, <1>3, <1>4 DEF BuildPlan
<1>8. Initialized \in SessionId \cup {NoSession} /\ told \in Nat
  BY <1>1, <1>4 DEF SessionsType, Initialized
<1>9. /\ ask' \in AskRow /\ ask'.at = "call" /\ ask'.message = m /\ ask'.plan = plan
      /\ ask'.resumes = Initialized
  BY <1>6, <1>7, <1>8 DEF AskRow
<1>10. /\ UNCHANGED <<held, revs, settled, provider, session, background, memory>>
  BY DEF BuildPlan
<1>11. SessionsType' /\ HeldInv' /\ SettledInv' /\ RowInv'
  BY <1>9, <1>10 DEF SessionsInv, SessionsType, HeldInv, SettledInv, RowInv, Knows
<1>12. AskInv'
  BY <1>1, <1>5, <1>6, <1>9, <1>10 DEF AskInv, Told, Current, Initialized
<1> QED
  BY <1>11, <1>12 DEF SessionsInv

LEMMA QuietSafe ==
  ASSUME SessionsInv, UNCHANGED <<held, revs, settled, provider, session, memory>>,
         background' \in Nat, ask' = ask \/ ask' = NoAsk
  PROVE  SessionsInv'
<1>1. NoAsk \in AskRow /\ NoAsk.at = "idle"
  BY DEF NoAsk, AskRow
<1>2. SessionsType' /\ HeldInv' /\ SettledInv' /\ RowInv'
  BY <1>1 DEF SessionsInv, SessionsType, HeldInv, SettledInv, RowInv, Knows
<1>3. AskInv'
  BY <1>1 DEF SessionsInv, AskInv, Told, Current, Initialized, Knows
<1> QED
  BY <1>2, <1>3 DEF SessionsInv

--------------------------------------------------------------------------------
(* The steps of a call.                                                    *)

(* What a call changes when the prompt did or did not reach a session.     *)
LEMMA CallStep ==
  ASSUME SessionsInv, ask.at = "call",
         memory' = memory \/ \E s \in SessionId : Reached(s),
         UNCHANGED <<held, revs, settled, provider, session, background>>,
         ask' \in AskRow
  PROVE  SessionsType' /\ HeldInv' /\ SettledInv' /\ RowInv'
<1>1. CASE memory' = memory
  BY <1>1 DEF SessionsInv, SessionsType, HeldInv, SettledInv, RowInv, Knows
<1>2. CASE \E s \in SessionId : Reached(s)
  <2>1. PICK s \in SessionId : Reached(s)
    BY <1>2
  <2>2. /\ memory' \in [SessionId -> SessionRow]
        /\ \A x \in SessionId : memory[x].provider # NoMessage =>
              memory'[x].provider = memory[x].provider /\ memory[x].told \subseteq memory'[x].told
    BY <2>1, ReachedKnows
  <2>3. SessionsType' /\ HeldInv' /\ SettledInv'
    BY <2>2 DEF SessionsInv, SessionsType, HeldInv, SettledInv
  <2>4. RowInv'
    <3> SUFFICES ASSUME session.id # NoSession
                 PROVE  /\ memory'[session.id].provider = session.provider
                        /\ session.provider \in Providers /\ Knows(session.id)'
      BY DEF RowInv
    <3>1. /\ session.id \in SessionId /\ session.provider \in Providers /\ Knows(session.id)
          /\ memory[session.id].provider = session.provider
      BY DEF SessionsInv, SessionsType, RowInv
    <3>2. memory[session.id].provider # NoMessage
      BY <3>1, SessionsAssumption
    <3> QED
      BY <2>2, <3>1, <3>2 DEF Knows
  <2> QED
    BY <2>3, <2>4
<1> QED
  BY <1>1, <1>2

LEMMA CallAnswersSafe == ASSUME SessionsInv, CallAnswers PROVE SessionsInv'
<1>1. PICK s \in SessionId : Reached(s) /\ ask' = [ask EXCEPT !.at = "audit", !.answer = s]
  BY DEF CallAnswers
<1>2. /\ ask.at = "call" /\ ask \in AskRow
      /\ UNCHANGED <<held, revs, settled, provider, session, background>>
  BY DEF SessionsInv, SessionsType, CallAnswers
<1>3. /\ ask' \in AskRow /\ ask'.at = "audit" /\ ask'.answer = s
      /\ ask'.message = ask.message /\ ask'.resumes = ask.resumes
  BY <1>1, <1>2 DEF AskRow
<1>4. SessionsType' /\ HeldInv' /\ SettledInv' /\ RowInv'
  BY <1>1, <1>2, <1>3, CallStep
<1>5. /\ memory'[s].provider = provider /\ Knows(s)'
      /\ Current(ask.message) \in memory'[s].told
  BY <1>1, <1>2, ReachedKnows
<1>6. AskInv'
  <2>1. ask.message \in ToSet(held) /\ ask.resumes = Initialized
    BY <1>2 DEF SessionsInv, AskInv
  <2> QED
    BY <1>2, <1>3, <1>5, <2>1 DEF AskInv, Current, Initialized, Knows
<1> QED
  BY <1>4, <1>6 DEF SessionsInv

LEMMA CallFailsSafe == ASSUME SessionsInv, CallFails PROVE SessionsInv'
<1>1. /\ ask.at = "call" /\ ask \in AskRow
      /\ UNCHANGED <<held, revs, settled, provider, session, background>>
      /\ memory' = memory \/ \E s \in SessionId : Reached(s)
      /\ ask' = [ask EXCEPT !.attempt = ask.attempt + 1] \/ ask' = [ask EXCEPT !.at = "failed"]
  BY DEF SessionsInv, SessionsType, CallFails
<1>2. /\ ask' \in AskRow /\ ask'.at \in {"call", "failed"}
      /\ ask'.message = ask.message /\ ask'.resumes = ask.resumes /\ ask'.plan = ask.plan
  BY <1>1 DEF AskRow
<1>3. SessionsType' /\ HeldInv' /\ SettledInv' /\ RowInv'
  BY <1>1, <1>2, CallStep
<1>4. AskInv'
  BY <1>1, <1>2 DEF SessionsInv, AskInv, Told, Current, Initialized
<1> QED
  BY <1>3, <1>4 DEF SessionsInv

LEMMA SchemaFailsSafe == ASSUME SessionsInv, SchemaFails PROVE SessionsInv'
<1>1. /\ ask.at = "audit" /\ ask \in AskRow /\ ask' = [ask EXCEPT !.at = "failed"]
      /\ UNCHANGED <<held, revs, settled, provider, session, background, memory>>
  BY DEF SessionsInv, SessionsType, SchemaFails
<1>2. ask' \in AskRow /\ ask'.at = "failed" /\ ask'.message = ask.message
  BY <1>1 DEF AskRow
<1>3. SessionsType' /\ HeldInv' /\ SettledInv' /\ RowInv'
  BY <1>1, <1>2 DEF SessionsInv, SessionsType, HeldInv, SettledInv, RowInv, Knows
<1>4. AskInv'
  BY <1>1, <1>2 DEF SessionsInv, AskInv
<1> QED
  BY <1>3, <1>4 DEF SessionsInv

(* The answer comes from the session that is saved, or from the row's own. *)
LEMMA SaveSessionSafe == ASSUME SessionsInv, SaveSession PROVE SessionsInv'
<1>1. /\ ask.at = "audit" /\ ask \in AskRow /\ ask' = [ask EXCEPT !.at = "answered"]
      /\ provider \in Providers
      /\ UNCHANGED <<held, revs, settled, provider, background, memory>>
  BY DEF SessionsInv, SessionsType, SaveSession
<1>2. ask' \in AskRow /\ ask'.at = "answered" /\ ask'.message = ask.message
  BY <1>1 DEF AskRow
<1>3. /\ ask.answer \in SessionId /\ memory[ask.answer].provider = provider
      /\ Knows(ask.answer) /\ Current(ask.message) \in memory[ask.answer].told
      /\ ask.resumes = Initialized /\ ask.message \in ToSet(held)
  BY <1>1 DEF SessionsInv, AskInv
<1>4. NoSession \notin SessionId
  BY SessionsAssumption DEF SessionId
<1>5. CASE ask.answer # ask.resumes
  <2>1. session' = [id |-> ask.answer, provider |-> provider]
    BY <1>5 DEF SaveSession
  <2>2. session'.id = ask.answer /\ session'.provider = provider
    BY <2>1
  <2>3. SessionsType' /\ HeldInv' /\ SettledInv'
    BY <1>1, <1>2, <1>3, <2>1 DEF SessionsInv, SessionsType, HeldInv, SettledInv
  <2>4. RowInv'
    BY <1>1, <1>3, <2>2 DEF RowInv, Knows
  <2>5. AskInv'
    BY <1>1, <1>2, <1>3, <2>2 DEF AskInv, Current
  <2> QED
    BY <2>3, <2>4, <2>5 DEF SessionsInv
<1>6. CASE ask.answer = ask.resumes
  <2>1. session' = session /\ session.id = ask.answer
    BY <1>3, <1>4, <1>6 DEF SaveSession, Initialized
  <2>2. SessionsType' /\ HeldInv' /\ SettledInv' /\ RowInv'
    BY <1>1, <1>2, <2>1 DEF SessionsInv, SessionsType, HeldInv, SettledInv, RowInv, Knows
  <2>3. AskInv'
    BY <1>1, <1>2, <1>3, <2>1 DEF AskInv, Current
  <2> QED
    BY <2>2, <2>3 DEF SessionsInv
<1> QED
  BY <1>5, <1>6

LEMMA MarkProcessedSafe == ASSUME SessionsInv, MarkProcessed PROVE SessionsInv'
<1>1. /\ ask.at = "answered" /\ settled' = settled \cup {Current(ask.message)} /\ ask' = NoAsk
      /\ UNCHANGED <<held, revs, provider, session, background, memory>>
  BY DEF MarkProcessed
<1>2. /\ ask.message \in ToSet(held) /\ session.id \in SessionId
      /\ Current(ask.message) \in memory[session.id].told
  BY <1>1 DEF SessionsInv, AskInv
<1>3. PICK p : p = Current(ask.message)
  OBVIOUS
<1>4. p \in Revisions /\ p[1] \in ToSet(held) /\ p[2] = revs[p[1]] /\ p[2] \in Nat
  BY <1>2, <1>3, PlaceIs DEF SessionsInv, SessionsType, Revisions, Current
<1>5. NoAsk \in AskRow /\ NoAsk.at = "idle"
  BY DEF NoAsk, AskRow
<1>6. SessionsType' /\ HeldInv' /\ SettledInv' /\ AskInv'
  BY <1>1, <1>3, <1>4, <1>5
     DEF SessionsInv, SessionsType, HeldInv, SettledInv, AskInv
<1>7. RowInv'
  BY <1>1, <1>2, <1>3, <1>4 DEF SessionsInv, RowInv, Knows
<1> QED
  BY <1>6, <1>7 DEF SessionsInv

(* A restart abandons the call; the row is the store's.                    *)
LEMMA RestartSafe == ASSUME SessionsInv, Restart PROVE SessionsInv'
<1>1. NoAsk \in AskRow /\ NoAsk.at = "idle"
  BY DEF NoAsk, AskRow
<1> QED
  BY <1>1 DEF SessionsInv, SessionsType, HeldInv, SettledInv, RowInv, AskInv, Knows, Restart

LEMMA ForgetSafe == ASSUME SessionsInv, Forget PROVE SessionsInv'
<1>1. /\ ask.at = "idle" /\ session' = [session EXCEPT !.id = NoSession]
      /\ UNCHANGED <<held, revs, settled, provider, background, memory, ask>>
  BY DEF Forget
<1>2. /\ session'.id = NoSession
      /\ session' \in [id: SessionId \cup {NoSession}, provider: Providers \cup {NoMessage}]
  BY <1>1 DEF SessionsInv, SessionsType
<1> QED
  BY <1>1, <1>2 DEF SessionsInv, SessionsType, HeldInv, SettledInv, RowInv, AskInv

--------------------------------------------------------------------------------
LEMMA SessionsStep == ASSUME SessionsInv, [SessionsNext]_sessionVars PROVE SessionsInv'
<1>1. background \in Nat
  BY DEF SessionsInv, SessionsType
<1>2. ASSUME NEW m \in Asked, Edit(m) PROVE SessionsInv'
  BY <1>2, EditSafe
<1>3. ASSUME NEW m \in Asked, BuildPlan(m) PROVE SessionsInv'
  BY <1>3, BuildPlanSafe
<1>4. ASSUME NEW m \in Asked, RetryAsk(m) PROVE SessionsInv'
  BY <1>1, <1>4, QuietSafe DEF RetryAsk
<1>5. CASE AttachNext
  BY <1>5, AttachNextSafe
<1>6. CASE SetBackground
  BY <1>6, QuietSafe DEF SetBackground
<1>7. CASE Blocked
  BY <1>1, <1>7, QuietSafe DEF Blocked
<1>8. CASE CallAnswers
  BY <1>8, CallAnswersSafe
<1>9. CASE CallFails
  BY <1>9, CallFailsSafe
<1>10. CASE MarkFailed
  BY <1>1, <1>10, QuietSafe DEF MarkFailed
<1>11. CASE SchemaFails
  BY <1>11, SchemaFailsSafe
<1>12. CASE SaveSession
  BY <1>12, SaveSessionSafe
<1>13. CASE MarkProcessed
  BY <1>13, MarkProcessedSafe
<1>14. CASE Restart
  BY <1>14, RestartSafe
<1>15. CASE Forget
  BY <1>15, ForgetSafe
<1>16. CASE UNCHANGED sessionVars
  BY <1>1, <1>16, QuietSafe DEF sessionVars
<1> QED
  BY <1>2, <1>3, <1>4, <1>5, <1>6, <1>7, <1>8, <1>9, <1>10, <1>11, <1>12, <1>13,
     <1>14, <1>15, <1>16 DEF SessionsNext

(* Whatever calls failed half-way, ids were forked, processes died and     *)
(* providers were switched, a session that the task row would resume       *)
(* (get_initialized_agent_session_id) belongs to the provider that runs    *)
(* and was told every revision the task was answered for, or a later one.  *)
THEOREM AnswersRemembered == SessionsSpec => []AnswersKnown
<1>1. SessionsInv => AnswersKnown
  BY DEF SessionsInv, RowInv, Knows, Initialized, AnswersKnown
<1> QED
  BY <1>1, InitSessions, SessionsStep, PTL DEF SessionsSpec
===============================================================================
