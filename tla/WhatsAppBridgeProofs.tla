------------------------- MODULE WhatsAppBridgeProofs -------------------------
(***************************************************************************)
(* What WhatsAppBridge promises, for every number of messages, tasks,      *)
(* chats and failures: no outcome is dropped unsent, a message makes one   *)
(* task at most while the bridge remembers it, and nothing is sent or      *)
(* recorded twice unless a send raised.  Each invariant is inductive for   *)
(* itself, but the last, which also needs that messages are written once   *)
(* (OnceInv).                                                              *)
(***************************************************************************)
EXTENDS WhatsAppBridge, FiniteSetTheorems, SequenceTheorems, TLAPS

------------------------------------------------------------------------------
(* Outcomes.                                                               *)

Told(t) == shown[t] > 0 \/ t \in refused

\* When only the note of the files is left to send, the text has arrived, or was
\* refused.
OutcomeInv ==
  /\ shown \in [Tasks -> Nat]
  /\ \A t \in Tasks : poll = [task |-> t, part |-> "note"] => Told(t)
  /\ owed \subseteq Tasks /\ NoOutcomeLost

\* The step sends nothing, or waits for one more task.
SendsNothing ==
  /\ UNCHANGED <<shown, refused, poll>>
  /\ \/ UNCHANGED <<owed, pending>>
     \/ \E t \in Tasks : owed' = owed \cup {t} /\ pending' = pending \cup {t}

LEMMA SendsNothingKeeps == ASSUME OutcomeInv, SendsNothing PROVE OutcomeInv'
  BY DEF OutcomeInv, NoOutcomeLost, SendsNothing, Told

\* The handler of a message sends no outcome.
LEMMA WebhookSendsNothing == ASSUME NEW m \in Messages, Webhook(m) PROVE SendsNothing
<1>1. CASE FamilyGate(m) BY <1>1 DEF FamilyGate, pollVars, SendsNothing
<1>2. CASE ReadCommand(m) BY <1>2 DEF ReadCommand, pollVars, SendsNothing
<1>3. CASE FamilyCommand(m) BY <1>3 DEF FamilyCommand, pollVars, SendsNothing
<1>4. CASE QueueCommand(m) BY <1>4 DEF QueueCommand, pollVars, SendsNothing
<1>5. CASE AgentCommand(m) BY <1>5 DEF AgentCommand, pollVars, SendsNothing
<1>6. CASE EndSession(m) BY <1>6 DEF EndSession, pollVars, SendsNothing
<1>7. CASE ContinueSession(m) BY <1>7 DEF ContinueSession, pollVars, SendsNothing
<1>8. CASE Unknown(m) BY <1>8 DEF Unknown, pollVars, SendsNothing
<1>9. CASE Created(m) BY <1>9 DEF Created, Await, pollVars, SendsNothing
<1>10. CASE NotCreated(m) BY <1>10 DEF NotCreated, pollVars, SendsNothing
<1> QED BY <1>1, <1>2, <1>3, <1>4, <1>5, <1>6, <1>7, <1>8, <1>9, <1>10 DEF Webhook

\* A send that raises changes no more than what may have arrived.
LEMMA RaisesKeeps ==
  ASSUME BridgeAssumption, OutcomeInv, NEW t \in Tasks, SendRaises(t), UNCHANGED owed
  PROVE  OutcomeInv'
<1>1. shown' \in [Tasks -> Nat] /\ \A u \in Tasks : Told(u) => Told(u)'
  BY DEF OutcomeInv, SendRaises, Told
<1>2. \A u \in Tasks : poll' # [task |-> u, part |-> "note"]
  BY DEF SendRaises, BridgeAssumption
<1> QED BY <1>1, <1>2 DEF OutcomeInv, NoOutcomeLost, SendRaises, Told

LEMMA SentTells ==
  ASSUME OutcomeInv, NEW t \in Tasks, Sent(t)
  PROVE  shown' \in [Tasks -> Nat] /\ Told(t)' /\ \A u \in Tasks : Told(u) => Told(u)'
  BY DEF OutcomeInv, Sent, Told

\* A task is popped by a step that sends its outcome, or after one.
LEMMA PopKeeps ==
  ASSUME BridgeAssumption, OutcomeInv, NEW t \in Tasks, Pop(t), UNCHANGED owed,
         Sent(t) \/ (UNCHANGED <<shown, refused>> /\ Told(t))
  PROVE  OutcomeInv'
<1>1. shown' \in [Tasks -> Nat] /\ Told(t)' /\ \A u \in Tasks : Told(u) => Told(u)'
  BY SentTells DEF OutcomeInv, Told
<1>2. \A u \in Tasks : poll' # [task |-> u, part |-> "note"]
  BY DEF Pop, BridgeAssumption
<1> QED BY <1>1, <1>2 DEF OutcomeInv, NoOutcomeLost, Pop, Told

LEMMA PollLoopKeeps ==
  ASSUME BridgeAssumption, OutcomeInv, NEW t \in Tasks, PollLoop(t) PROVE OutcomeInv'
<1>1. CASE SendAndPop(t) BY <1>1, PopKeeps, RaisesKeeps DEF SendAndPop
<1>2. CASE PollTimeout(t) \/ PollEnded(t) BY <1>1, <1>2 DEF PollTimeout, PollEnded
<1>3. CASE PollDone(t) BY <1>3 DEF PollDone, OutcomeInv, NoOutcomeLost, Told
<1>4. CASE SendAnswer(t)
  <2>1. CASE /\ Sent(t)
             /\ poll = [task |-> t, part |-> "text"]
             /\ poll' = [poll EXCEPT !.part = "note"]
             /\ UNCHANGED <<owed, pending>>
    BY <2>1, SentTells DEF OutcomeInv, NoOutcomeLost, Told
  <2> QED BY <1>4, <2>1, PopKeeps, RaisesKeeps DEF SendAnswer
<1>5. CASE SendNote(t)
  <2>1. Told(t) BY <1>5 DEF SendNote, OutcomeInv
  <2> QED BY <1>5, <2>1, PopKeeps, RaisesKeeps DEF SendNote
<1> QED BY <1>2, <1>3, <1>4, <1>5 DEF PollLoop

LEMMA OutcomeStep ==
  ASSUME BridgeAssumption, OutcomeInv, [Next]_bridgeVars PROVE OutcomeInv'
<1>1. CASE \E s \in Says : Write(s[1], s[2])
  BY <1>1, SendsNothingKeeps DEF Write, pollVars, SendsNothing
<1>2. CASE Echo BY <1>2, SendsNothingKeeps DEF Echo, pollVars, SendsNothing
<1>3. CASE \E m \in Messages : Webhook(m) BY <1>3, WebhookSendsNothing, SendsNothingKeeps
<1>4. CASE \E m \in Messages : SeenExpires(m)
  BY <1>4, SendsNothingKeeps DEF SeenExpires, pollVars, SendsNothing
<1>5. CASE MorningBrief BY <1>5, SendsNothingKeeps DEF MorningBrief, pollVars, SendsNothing
<1>6. CASE \E t \in Tasks : TaskEnds(t)
  BY <1>6, SendsNothingKeeps DEF TaskEnds, pollVars, SendsNothing
<1>7. CASE \E t \in Tasks : TaskLate(t) BY <1>7, SendsNothingKeeps DEF TaskLate, SendsNothing
<1>8. CASE \E t \in Tasks : PollLoop(t) BY <1>8, PollLoopKeeps
<1>9. CASE \E c \in Chats : SessionIdle(c)
  BY <1>9, SendsNothingKeeps DEF SessionIdle, pollVars, SendsNothing
<1>10. CASE Restart BY <1>10 DEF Restart, OutcomeInv, NoOutcomeLost, BridgeAssumption, Told
<1>11. CASE UNCHANGED bridgeVars
  BY <1>11, SendsNothingKeeps DEF bridgeVars, pollVars, SendsNothing
<1> QED BY <1>1, <1>2, <1>3, <1>4, <1>5, <1>6, <1>7, <1>8, <1>9, <1>10, <1>11 DEF Next

\* NoOutcomeLost: a task is no longer awaited only when the chat has received
\* its outcome, or was told that it timed out, or Waha refused a message of it.
THEOREM OutcomesSent == Spec => []NoOutcomeLost
<1>1. Init => OutcomeInv BY BridgeAssumption DEF Init, OutcomeInv, NoOutcomeLost, Told
<1>2. OutcomeInv /\ [Next]_bridgeVars => OutcomeInv' BY BridgeAssumption, OutcomeStep
<1>3. OutcomeInv => NoOutcomeLost BY DEF OutcomeInv
<1> QED BY <1>1, <1>2, <1>3, PTL DEF Spec

------------------------------------------------------------------------------
(* One task per message.                                                   *)

\* The tasks message m has made.
Of(m) == {t \in Tasks : row[t] # None /\ row[t].msg = m}

OnceTypes ==
  /\ lapses \in Nat
  /\ sent = [m \in Messages |-> sent[m]]
  /\ request = [m \in Messages |-> request[m]]
  /\ row = [t \in Tasks |-> row[t]]
  /\ \A t \in Tasks : row[t] # None => "msg" \in DOMAIN row[t]
  /\ \A m \in Messages : request[m] # None => "msg" \in DOMAIN request[m] /\ request[m].msg = m

\* Each task of a message beyond the first cost a lapse, and a task that the
\* message can still make costs one, or is the first: a message that makes one
\* is remembered, and one not yet written cannot be.
OnceCounts ==
  /\ \A m \in Messages : request[m] # None => m \in seen /\ Cardinality(Of(m)) <= lapses
  /\ \A m \in Messages \ seen : Cardinality(Of(m)) <= lapses
  /\ \A m \in Messages : Cardinality(Of(m)) <= 1 + lapses
  /\ \A m \in Messages : sent[m] = None => m \notin seen

OnceInv == OnceTypes /\ OnceCounts

LEMMA OfIsFinite ==
  ASSUME BridgeAssumption, NEW m PROVE IsFiniteSet(Of(m)) /\ Cardinality(Of(m)) \in Nat
  BY FS_Subset, FS_CardinalityType DEF BridgeAssumption, Of

\* A message that is handled is written, and from now on remembered.
Remembers ==
  /\ UNCHANGED <<sent, request, row, lapses>>
  /\ seen' = seen \/ \E m \in Messages : sent[m] # None /\ seen' = seen \cup {m}

LEMMA RemembersKeeps == ASSUME OnceInv, Remembers PROVE OnceInv'
  BY DEF OnceInv, OnceTypes, OnceCounts, Remembers, Of

\* A message that is not remembered asks for a task.
Asks ==
  /\ UNCHANGED <<row, lapses>>
  /\ \E m, sid, conv, c, b :
       /\ m \in Messages \ seen
       /\ request' = [request EXCEPT ![m] = Body(m, c, sid, conv, b)]
       /\ seen' = seen \cup {m}
       /\ sent'[m] # None
  /\ sent' = [m \in Messages |-> sent'[m]]
  /\ \A m \in Messages : sent'[m] = None => sent[m] = None

LEMMA AsksKeeps == ASSUME OnceInv, Asks PROVE OnceInv'
<1> PICK m, sid, conv, c, b :
      /\ m \in Messages \ seen
      /\ request' = [request EXCEPT ![m] = Body(m, c, sid, conv, b)]
      /\ seen' = seen \cup {m}
      /\ sent'[m] # None
  BY DEF Asks
<1>1. /\ request' = [n \in Messages |-> request'[n]]
      /\ request'[m] = Body(m, c, sid, conv, b)
      /\ \A n \in Messages \ {m} : request'[n] = request[n]
  BY DEF OnceInv, OnceTypes
<1>2. "msg" \in DOMAIN request'[m] /\ request'[m].msg = m BY <1>1 DEF Body
<1>3. OnceTypes' BY <1>1, <1>2 DEF OnceInv, OnceTypes, Asks
<1>4. \A n : Of(n)' = Of(n) BY DEF Asks, Of
<1>5. OnceCounts' BY <1>1, <1>4 DEF OnceInv, OnceCounts, Asks
<1> QED BY <1>3, <1>5 DEF OnceInv

\* A request ends, and its task was stored or was not.
Answered(m) ==
  /\ request[m] # None /\ request' = [request EXCEPT ![m] = None]
  /\ UNCHANGED <<sent, seen, lapses>>
  /\ row' = row \/ \E t \in Tasks : row[t] = None /\ row' = [row EXCEPT ![t] = request[m]]

LEMMA AnsweredKeeps ==
  ASSUME BridgeAssumption, OnceInv, NEW m \in Messages, Answered(m) PROVE OnceInv'
<1>1. /\ request' = [n \in Messages |-> request'[n]] /\ request'[m] = None
      /\ \A n \in Messages \ {m} : request'[n] = request[n]
  BY DEF OnceInv, OnceTypes, Answered
<1>2. request[m] # None /\ UNCHANGED <<sent, seen, lapses>> BY DEF Answered
<1>3. CASE row' = row
  <2>1. \A n : Of(n)' = Of(n) BY <1>3 DEF Of
  <2> QED BY <1>1, <1>2, <1>3, <2>1 DEF OnceInv, OnceTypes, OnceCounts
<1>4. CASE row' # row
  <2> PICK t \in Tasks : row[t] = None /\ row' = [row EXCEPT ![t] = request[m]]
    BY <1>4 DEF Answered
  <2>1. /\ row' = [u \in Tasks |-> row'[u]] /\ row'[t] = request[m]
        /\ \A u \in Tasks \ {t} : row'[u] = row[u]
    BY DEF OnceInv, OnceTypes
  <2>2. "msg" \in DOMAIN request[m] /\ request[m].msg = m BY <1>2 DEF OnceInv, OnceTypes
  <2>3. OnceTypes' BY <1>1, <1>2, <2>1, <2>2 DEF OnceInv, OnceTypes
  <2>4. \A n \in Messages \ {m} : Of(n)' = Of(n) BY <2>1, <2>2 DEF Of
  <2>5. Of(m)' = Of(m) \cup {t} BY <1>2, <2>1, <2>2 DEF Of
  <2>6. Cardinality(Of(m)') <= Cardinality(Of(m)) + 1
    <3>1. IsFiniteSet(Of(m)) /\ Cardinality(Of(m)) \in Nat BY OfIsFinite
    <3>2. Cardinality(Of(m) \cup {t}) = IF t \in Of(m) THEN Cardinality(Of(m)) ELSE Cardinality(Of(m)) + 1
      BY <3>1, FS_AddElement
    <3> QED BY <2>5, <3>1, <3>2
  <2>7. m \in seen /\ Cardinality(Of(m)) <= lapses BY <1>2 DEF OnceInv, OnceCounts
  <2>8. Cardinality(Of(m)') <= 1 + lapses
    <3>1. Cardinality(Of(m)) \in Nat /\ Cardinality(Of(m)') \in Nat
      BY <2>5, OfIsFinite, FS_AddElement, FS_CardinalityType
    <3> QED BY <2>6, <2>7, <3>1 DEF OnceInv, OnceTypes
  <2>9. OnceCounts' BY <1>1, <1>2, <2>4, <2>7, <2>8 DEF OnceInv, OnceCounts
  <2> QED BY <2>3, <2>9 DEF OnceInv
<1> QED BY <1>3, <1>4

\* The bridge forgets messages, at the price of a lapse, and requests.
Forgets ==
  /\ lapses' = lapses + 1 /\ UNCHANGED <<sent, row>>
  /\ seen' \subseteq seen
  /\ request' = [m \in Messages |-> request'[m]]
  /\ \A m \in Messages : request'[m] # None => request'[m] = request[m] /\ m \in seen'

LEMMA ForgetsKeeps == ASSUME BridgeAssumption, OnceInv, Forgets PROVE OnceInv'
<1>1. OnceTypes' BY DEF OnceInv, OnceTypes, Forgets
<1>2. \A n : Of(n)' = Of(n) BY DEF Forgets, Of
<1>3. \A n \in Messages : Cardinality(Of(n)) <= lapses' /\ Cardinality(Of(n)) <= 1 + lapses'
  <2> SUFFICES ASSUME NEW n \in Messages
               PROVE  Cardinality(Of(n)) <= lapses' /\ Cardinality(Of(n)) <= 1 + lapses'
    OBVIOUS
  <2>1. Cardinality(Of(n)) \in Nat BY OfIsFinite
  <2> QED BY <2>1 DEF OnceInv, OnceTypes, OnceCounts, Forgets
<1>4. OnceCounts' BY <1>2, <1>3 DEF OnceInv, OnceCounts, Forgets
<1> QED BY <1>1, <1>4 DEF OnceInv

\* A task that ends keeps the message it is of.
LEMMA TaskEndsKeeps ==
  ASSUME BridgeAssumption, OnceInv, NEW t \in Tasks, TaskEnds(t) PROVE OnceInv'
<1> PICK s, own : row' = [row EXCEPT ![t].st = s, ![t].own = own] BY DEF TaskEnds
<1>1. /\ row' = [u \in Tasks |-> row'[u]]
      /\ row'[t] = [row[t] EXCEPT !.st = s, !.own = own]
      /\ \A u \in Tasks \ {t} : row'[u] = row[u]
  BY DEF OnceInv, OnceTypes
<1>2. row[t] # None /\ "msg" \in DOMAIN row[t] BY DEF TaskEnds, OnceInv, OnceTypes
<1>3. "msg" \in DOMAIN row'[t] /\ row'[t].msg = row[t].msg BY <1>1, <1>2
<1>4. UNCHANGED <<sent, seen, request, lapses>> BY DEF TaskEnds
<1>5. OnceTypes' BY <1>1, <1>3, <1>4 DEF OnceInv, OnceTypes
<1>6. \A n \in Messages : Cardinality(Of(n)') <= Cardinality(Of(n))
  <2> SUFFICES ASSUME NEW n \in Messages PROVE Cardinality(Of(n)') <= Cardinality(Of(n))
    OBVIOUS
  <2>1. Of(n)' \subseteq Of(n) BY <1>1, <1>2, <1>3 DEF Of
  <2> QED BY <2>1, OfIsFinite, FS_Subset
<1>7. \A n \in Messages : Cardinality(Of(n)') \in Nat /\ Cardinality(Of(n)) \in Nat
  <2> SUFFICES ASSUME NEW n \in Messages
               PROVE  Cardinality(Of(n)') \in Nat /\ Cardinality(Of(n)) \in Nat
    OBVIOUS
  <2>1. Of(n)' \subseteq Tasks BY DEF Of
  <2> QED BY <2>1, OfIsFinite, FS_Subset, FS_CardinalityType DEF BridgeAssumption
<1>8. OnceCounts' BY <1>4, <1>6, <1>7 DEF OnceInv, OnceTypes, OnceCounts
<1> QED BY <1>5, <1>8 DEF OnceInv

LEMMA AcceptRemembers ==
  ASSUME NEW m \in Messages, NEW kinds, Accept(m, kinds), UNCHANGED <<sent, request, row, lapses>>
  PROVE  Remembers
  BY DEF Accept, Remembers

LEMMA AcceptAsks ==
  ASSUME OnceInv, NEW m \in Messages, NEW kinds, Accept(m, kinds), UNCHANGED <<sent, row, lapses>>,
         NEW sid, NEW conv, NEW b, Ask(m, sid, conv, b)
  PROVE  Asks
<1>1. m \in Messages \ seen /\ sent[m] # None /\ seen' = seen \cup {m}
  BY DEF Accept, IsDuplicate
<1>2. request' = [request EXCEPT ![m] = Body(m, sent[m].chat, sid, conv, b)] BY DEF Ask
<1>3. sent' = [n \in Messages |-> sent'[n]] BY DEF OnceInv, OnceTypes
<1> QED BY <1>1, <1>2, <1>3 DEF Asks

LEMMA WebhookKeeps ==
  ASSUME BridgeAssumption, OnceInv, NEW m \in Messages, Webhook(m) PROVE OnceInv'
<1>1. CASE FamilyGate(m) BY <1>1, RemembersKeeps DEF FamilyGate, Remembers
<1>2. CASE ReadCommand(m) BY <1>2, AcceptRemembers, RemembersKeeps DEF ReadCommand
<1>3. CASE FamilyCommand(m) BY <1>3, AcceptRemembers, RemembersKeeps DEF FamilyCommand
<1>4. CASE QueueCommand(m) BY <1>4, AcceptAsks, AsksKeeps DEF QueueCommand
<1>5. CASE AgentCommand(m) BY <1>5, AcceptAsks, AsksKeeps DEF AgentCommand
<1>6. CASE EndSession(m) BY <1>6, AcceptRemembers, RemembersKeeps DEF EndSession
<1>7. CASE ContinueSession(m) BY <1>7, AcceptAsks, AsksKeeps DEF ContinueSession
<1>8. CASE Unknown(m) BY <1>8, AcceptRemembers, RemembersKeeps DEF Unknown
<1>9. CASE Created(m)
  <2>1. Answered(m) BY <1>9 DEF Created, Insert, IsNext, Answered
  <2> QED BY <2>1, AnsweredKeeps
<1>10. CASE NotCreated(m)
  <2>1. Answered(m) BY <1>10 DEF NotCreated, Insert, IsNext, Answered
  <2> QED BY <2>1, AnsweredKeeps
<1> QED BY <1>1, <1>2, <1>3, <1>4, <1>5, <1>6, <1>7, <1>8, <1>9, <1>10 DEF Webhook

\* A message that is written gets a number that none has.
LEMMA SpeakWrites ==
  ASSUME OnceInv, NEW m \in Messages, NEW c, NEW k, NEW author, Speak(m, c, k, author)
  PROVE  /\ sent[m] = None /\ sent'[m] = [chat |-> c, kind |-> k, author |-> author]
         /\ sent' = [n \in Messages |-> sent'[n]]
         /\ \A n \in Messages : sent'[n] = None => sent[n] = None
<1>1. sent[m] = None BY DEF Speak, IsNext
<1>2. sent' = [sent EXCEPT ![m] = [chat |-> c, kind |-> k, author |-> author]] BY DEF Speak
<1> QED BY <1>1, <1>2 DEF OnceInv, OnceTypes

LEMMA SpeakKeeps ==
  ASSUME OnceInv, NEW m \in Messages, NEW c, NEW k, NEW author, Speak(m, c, k, author),
         UNCHANGED <<seen, request, row, lapses>>
  PROVE  OnceInv'
<1>1. /\ sent' = [n \in Messages |-> sent'[n]]
      /\ \A n \in Messages : sent'[n] = None => sent[n] = None
  BY SpeakWrites
<1>2. \A n : Of(n)' = Of(n) BY DEF Of
<1> QED BY <1>1, <1>2 DEF OnceInv, OnceTypes, OnceCounts

LEMMA MorningBriefKeeps == ASSUME BridgeAssumption, OnceInv, MorningBrief PROVE OnceInv'
<1> PICK m \in Messages :
      /\ Speak(m, Owner, "brief", "scheduler")
      /\ seen' = seen \cup {m}
      /\ request' = [request EXCEPT ![m] = Body(m, Owner, None, None, FALSE)]
  BY DEF MorningBrief
<1>1. /\ sent[m] = None /\ sent'[m] = [chat |-> Owner, kind |-> "brief", author |-> "scheduler"]
      /\ sent' = [n \in Messages |-> sent'[n]]
      /\ \A n \in Messages : sent'[n] = None => sent[n] = None
  BY SpeakWrites
<1>2. sent'[m] # None BY <1>1 DEF BridgeAssumption
<1>3. m \notin seen BY <1>1 DEF OnceInv, OnceCounts
<1>4. UNCHANGED <<row, lapses>> BY DEF MorningBrief
<1>5. Asks BY <1>1, <1>2, <1>3, <1>4 DEF Asks
<1> QED BY <1>5, AsksKeeps

LEMMA OnceStep ==
  ASSUME BridgeAssumption, OnceInv, [Next]_bridgeVars PROVE OnceInv'
<1>1. CASE \E s \in Says : Write(s[1], s[2]) BY <1>1, SpeakKeeps DEF Write
<1>2. CASE Echo BY <1>2, SpeakKeeps DEF Echo
<1>3. CASE \E m \in Messages : Webhook(m) BY <1>3, WebhookKeeps
<1>4. CASE \E m \in Messages : SeenExpires(m)
  <2>1. Forgets BY <1>4 DEF SeenExpires, Forgets, OnceInv, OnceTypes, OnceCounts
  <2> QED BY <2>1, ForgetsKeeps
<1>5. CASE MorningBrief BY <1>5, MorningBriefKeeps
<1>6. CASE \E t \in Tasks : TaskEnds(t) BY <1>6, TaskEndsKeeps
<1>7. CASE \E t \in Tasks : TaskLate(t) BY <1>7, RemembersKeeps DEF TaskLate, Remembers
<1>8. CASE \E t \in Tasks : PollLoop(t)
  <2>1. Remembers
    BY <1>8 DEF PollLoop, PollTimeout, PollEnded, PollDone, SendAndPop, SendAnswer, SendNote,
                Remembers
  <2> QED BY <2>1, RemembersKeeps
<1>9. CASE \E c \in Chats : SessionIdle(c) BY <1>9, RemembersKeeps DEF SessionIdle, Remembers
<1>10. CASE Restart
  <2>1. Forgets BY <1>10 DEF Restart, Forgets
  <2> QED BY <2>1, ForgetsKeeps
<1>11. CASE UNCHANGED bridgeVars BY <1>11, RemembersKeeps DEF bridgeVars, Remembers
<1> QED BY <1>1, <1>2, <1>3, <1>4, <1>5, <1>6, <1>7, <1>8, <1>9, <1>10, <1>11 DEF Next

LEMMA OnceInitially == Init => OnceInv
<1> SUFFICES ASSUME Init PROVE OnceInv OBVIOUS
<1>1. \A m : Of(m) = {} BY DEF Init, Of
<1>2. \A m : Cardinality(Of(m)) = 0 BY <1>1, FS_EmptySet
<1> QED BY <1>2 DEF Init, OnceInv, OnceTypes, OnceCounts

\* OneTaskPerMessage: however often a message is delivered, it makes one task
\* at most, and one more each time the bridge forgets what it has seen.
THEOREM OncePerMessage == Spec => []OneTaskPerMessage
<1>1. Init => OnceInv BY OnceInitially
<1>2. OnceInv /\ [Next]_bridgeVars => OnceInv' BY BridgeAssumption, OnceStep
<1>3. OnceInv => OneTaskPerMessage BY DEF OnceInv, OnceCounts, Of, OneTaskPerMessage
<1> QED BY <1>1, <1>2, <1>3, PTL DEF Spec

------------------------------------------------------------------------------
(* Outcomes sent again, and answers recorded again.                        *)

Turns == [role : {"user", "assistant"}, of : Messages \cup Tasks]
Bodies ==
  [msg : Messages, chat : Chats, sid : Messages \cup {None}, conv : Messages \cup {None},
   session : BOOLEAN, st : {"open", "done", "failed"}, own : BOOLEAN]
Sessions == [conv : Messages, sid : Messages \cup {None}, idle : BOOLEAN, hist : Seq(Turns)]

RepeatTypes ==
  /\ \A m \in Messages : sent[m] # None => sent[m].chat \in Chats
  /\ \A m \in Messages : request[m] # None => sent[m] # None
  /\ request \in [Messages -> Bodies \cup {None}] /\ row \in [Tasks -> Bodies \cup {None}]
  /\ sessions \in [Chats -> Sessions \cup {None}] /\ disk \in [Chats -> Sessions \cup {None}]
  /\ shown \in [Tasks -> Nat] /\ errors \in [Tasks -> Nat]
  /\ pending \subseteq {t \in Tasks : row[t] # None} /\ late \subseteq pending
  /\ poll # None => poll.task \in pending /\ \E part \in {"text", "note"} : poll = [task |-> poll.task, part |-> part]

\* No chat's session in f holds more than n answers of task t.
Holds(f, t, n) == \A c \in Chats : f[c] # None => Cardinality(AnswersOf(t, f[c].hist)) <= n

Recorded(t, n) == Holds(sessions, t, n) /\ Holds(disk, t, n)

Sending(t) == poll # None /\ poll.task = t

\* A task that was not sent yet has nothing to repeat; one that waits was sent and
\* recorded once for every error; the one in hand is recorded once more, and shown
\* once more when only the note is left.
CountsOf(t) ==
  /\ row[t] = None => shown[t] = 0 /\ Recorded(t, 0)
  /\ t \in pending /\ ~(Sending(t) /\ poll.part = "note") => shown[t] <= errors[t]
  /\ t \in pending /\ ~Sending(t) => Recorded(t, errors[t])
  /\ shown[t] <= 1 + errors[t] /\ Recorded(t, 1 + errors[t])

RepeatInv == RepeatTypes /\ \A t \in Tasks : CountsOf(t)


LEMMA AnswersFinite ==
  ASSUME NEW t, NEW h \in Seq(Turns)
  PROVE  IsFiniteSet(AnswersOf(t, h)) /\ Cardinality(AnswersOf(t, h)) \in Nat
<1>1. PICK n \in Nat : n = Len(h) /\ DOMAIN h = 1..n  OBVIOUS
<1>2. IsFiniteSet(1..n)  BY FS_Interval
<1>3. AnswersOf(t, h) \subseteq 1..n  BY <1>1 DEF AnswersOf
<1> QED  BY <1>2, <1>3, FS_Subset, FS_CardinalityType

LEMMA AnswersAppend ==
  ASSUME NEW t, NEW h \in Seq(Turns), NEW e \in Turns, NEW g, g = Append(h, e)
  PROVE  /\ g \in Seq(Turns)
         /\ Cardinality(AnswersOf(t, g)) <= Cardinality(AnswersOf(t, h)) + 1
         /\ ~(e.role = "assistant" /\ e.of = t) => AnswersOf(t, g) = AnswersOf(t, h)
<1>1. PICK n \in Nat : n = Len(h) /\ DOMAIN h = 1..n  OBVIOUS
<1>2. /\ g \in Seq(Turns) /\ DOMAIN g = 1..(n + 1) /\ g[n + 1] = e
      /\ \A i \in 1..n : g[i] = h[i]
  BY <1>1
<1>3. 1..(n + 1) = 1..n \cup {n + 1}  OBVIOUS
<1>4. AnswersOf(t, g) = AnswersOf(t, h) \/ AnswersOf(t, g) = AnswersOf(t, h) \cup {n + 1}
  <2>1. CASE e.role = "assistant" /\ e.of = t
    BY <1>1, <1>2, <1>3, <2>1 DEF AnswersOf
  <2>2. CASE ~(e.role = "assistant" /\ e.of = t)
    BY <1>1, <1>2, <1>3, <2>2 DEF AnswersOf
  <2> QED  BY <2>1, <2>2
<1>5. ~(e.role = "assistant" /\ e.of = t) => AnswersOf(t, g) = AnswersOf(t, h)
  BY <1>1, <1>2, <1>3 DEF AnswersOf
<1>6. PICK k \in Nat : k = Cardinality(AnswersOf(t, h)) /\ IsFiniteSet(AnswersOf(t, h))
  BY AnswersFinite
<1>7. Cardinality(AnswersOf(t, h) \cup {n + 1}) \in {k, k + 1}
  BY <1>6, FS_AddElement
<1>8. Cardinality(AnswersOf(t, g)) \in {k, k + 1}  BY <1>4, <1>6, <1>7
<1> QED  BY <1>2, <1>5, <1>6, <1>8

\* What the history loses at its beginning adds no answer to it.
LEMMA AnswersTrim ==
  ASSUME BridgeAssumption, NEW t, NEW h \in Seq(Turns), NEW g, g = Trim(h)
  PROVE  g \in Seq(Turns) /\ Cardinality(AnswersOf(t, g)) <= Cardinality(AnswersOf(t, h))
<1>1. PICK n \in Nat : n = Len(h) /\ DOMAIN h = 1..n  OBVIOUS
<1>2. PICK a \in Nat : a = (IF n > HistMax THEN n - HistMax + 1 ELSE 1) /\ a >= 1 /\ a <= n + 1
  <2>0. HistMax \in Nat \ {0}  BY DEF BridgeAssumption
  <2>1. CASE n > HistMax
    <3>1. n - HistMax + 1 \in Nat /\ n - HistMax + 1 >= 1 /\ n - HistMax + 1 <= n + 1  BY <2>0, <2>1
    <3> QED  BY <2>1, <3>1
  <2>2. CASE ~(n > HistMax)  BY <2>2
  <2> QED  BY <2>1, <2>2
<1>3. g = SubSeq(h, a, n)  BY <1>1, <1>2 DEF Trim
<1>4. /\ g \in Seq(Turns) /\ DOMAIN g = 1..(n - a + 1)
      /\ \A i \in 1..(n - a + 1) : g[i] = h[a + i - 1]
  <2>1. \A i \in a..n : h[i] \in Turns  BY <1>1, <1>2
  <2>2. /\ g \in Seq(Turns) /\ Len(g) = IF a <= n THEN n - a + 1 ELSE 0
        /\ \A i \in 1..(n - a + 1) : g[i] = h[a + i - 1]
    BY <1>1, <1>2, <1>3, <2>1, SubSeqProperties
  <2>3. Len(g) = n - a + 1  BY <1>2, <2>2
  <2> QED  BY <2>2, <2>3
<1>5. PICK f : f = [i \in AnswersOf(t, g) |-> a + i - 1]  OBVIOUS
<1>6. ASSUME NEW i \in AnswersOf(t, g) PROVE f[i] = a + i - 1 /\ i \in Nat /\ f[i] \in AnswersOf(t, h)
  <2>1. i \in 1..(n - a + 1) /\ g[i].role = "assistant" /\ g[i].of = t  BY <1>4 DEF AnswersOf
  <2>2. a + i - 1 \in 1..n /\ h[a + i - 1] = g[i]  BY <1>2, <1>4, <2>1
  <2> QED  BY <1>1, <1>5, <2>1, <2>2 DEF AnswersOf
<1>7. f \in Injection(AnswersOf(t, g), AnswersOf(t, h))
  <2>1. f \in [AnswersOf(t, g) -> AnswersOf(t, h)]  BY <1>5, <1>6
  <2>2. \A i, j \in AnswersOf(t, g) : f[i] = f[j] => i = j  BY <1>2, <1>6
  <2> QED  BY <2>1, <2>2 DEF Injection, IsInjective
<1> QED  BY <1>4, <1>7, AnswersFinite, FS_Injection


\* No answer is recorded.
NoNew == \A t \in Tasks, n \in Nat : Recorded(t, n) => Recorded(t, n)'

SessionsTyped ==
  sessions \in [Chats -> Sessions \cup {None}] /\ disk \in [Chats -> Sessions \cup {None}]

\* One chat's session changes, on disk too if the write succeeds.
LEMMA OneChat ==
  ASSUME SessionsTyped, NEW c \in Chats, NEW v \in Sessions \cup {None},
         SaveSessions([sessions EXCEPT ![c] = v])
  PROVE  /\ SessionsTyped'
         /\ \A t, n : Recorded(t, n) /\ (v # None => Cardinality(AnswersOf(t, v.hist)) <= n)
                      => Recorded(t, n)'
<1>1. /\ sessions' \in [Chats -> Sessions \cup {None}] /\ sessions'[c] = v
      /\ \A d \in Chats : d # c => sessions'[d] = sessions[d]
      /\ disk' = sessions' \/ disk' = disk
  BY DEF SaveSessions, SessionsTyped
<1>2. SessionsTyped'  BY <1>1 DEF SessionsTyped
<1>3. ASSUME NEW t, NEW n, Recorded(t, n), v # None => Cardinality(AnswersOf(t, v.hist)) <= n
      PROVE  Recorded(t, n)'
  <2>1. Holds(sessions', t, n)  BY <1>1, <1>3 DEF Recorded, Holds
  <2>2. Holds(disk', t, n)  BY <1>1, <1>3, <2>1 DEF Recorded
  <2> QED  BY <2>1, <2>2 DEF Recorded, Holds
<1> QED  BY <1>2, <1>3

\* A turn is added to a session, and may push out older ones.
LEMMA OneTurn ==
  ASSUME BridgeAssumption, NEW x \in Sessions, NEW e \in Turns, NEW i \in Messages \cup {None},
         NEW v, v = [x EXCEPT !.hist = Trim(Append(@, e)), !.sid = i]
  PROVE  /\ v \in Sessions
         /\ \A t : /\ Cardinality(AnswersOf(t, v.hist)) <= Cardinality(AnswersOf(t, x.hist)) + 1
                   /\ ~(e.role = "assistant" /\ e.of = t) =>
                        Cardinality(AnswersOf(t, v.hist)) <= Cardinality(AnswersOf(t, x.hist))
<1>1. PICK h \in Seq(Turns) : h = x.hist  BY DEF Sessions
<1>2. PICK g : g = Append(h, e)  OBVIOUS
<1>3. PICK k : k = Trim(g)  OBVIOUS
<1>4. v = [conv |-> x.conv, sid |-> i, idle |-> x.idle, hist |-> k]
  BY <1>1, <1>2, <1>3 DEF Sessions
<1>5. g \in Seq(Turns)  BY <1>2
<1>6. k \in Seq(Turns)  BY <1>3, <1>5, AnswersTrim
<1>7. v \in Sessions  BY <1>4, <1>6 DEF Sessions
<1>8. ASSUME NEW t
      PROVE  /\ Cardinality(AnswersOf(t, k)) <= Cardinality(AnswersOf(t, h)) + 1
             /\ ~(e.role = "assistant" /\ e.of = t) =>
                  Cardinality(AnswersOf(t, k)) <= Cardinality(AnswersOf(t, h))
  <2>1. PICK a \in Nat, b \in Nat, c \in Nat :
          /\ a = Cardinality(AnswersOf(t, h)) /\ b = Cardinality(AnswersOf(t, g))
          /\ c = Cardinality(AnswersOf(t, k))
    BY <1>5, <1>6, AnswersFinite
  <2>2. c <= b  BY <1>3, <1>5, <2>1, AnswersTrim
  <2>3. b <= a + 1  BY <1>2, <2>1, AnswersAppend
  <2>4. ~(e.role = "assistant" /\ e.of = t) => b = a  BY <1>2, <2>1, AnswersAppend
  <2> QED  BY <2>1, <2>2, <2>3, <2>4
<1>9. v.hist = k
  <2>1. PICK w : w = [conv |-> x.conv, sid |-> i, idle |-> x.idle, hist |-> k]  OBVIOUS
  <2>2. w.hist = k  BY <2>1
  <2>3. v = w  BY <1>4, <2>1
  <2> QED  BY <2>2, <2>3
<1> QED  BY <1>1, <1>7, <1>8, <1>9

LEMMA OpensNoAnswer ==
  ASSUME NEW m \in Messages
  PROVE  NewSession(m) \in Sessions /\ \A t : Cardinality(AnswersOf(t, NewSession(m).hist)) = 0
<1>0. [role |-> "user", of |-> m] \in Turns  BY DEF Turns
<1>1. PICK e \in Turns : e = [role |-> "user", of |-> m]  BY <1>0
<1>2. PICK h : h = <<[role |-> "user", of |-> m]>>  OBVIOUS
<1>3. NewSession(m) = [conv |-> m, sid |-> m, idle |-> FALSE, hist |-> h]
  BY <1>2 DEF NewSession
<1>4. h \in Seq(Turns) /\ \A i \in DOMAIN h : h[i] = e
  <2>1. h = <<e>>  BY <1>1, <1>2
  <2> QED  BY <2>1
<1>5. \A t : AnswersOf(t, h) = {}
  <2>1. e.role # "assistant"  BY <1>1
  <2> QED  BY <1>4, <2>1 DEF AnswersOf
<1>6. \A t : Cardinality(AnswersOf(t, h)) = 0  BY <1>5, FS_EmptySet
<1> QED  BY <1>3, <1>4, <1>6 DEF Sessions

LEMMA DropsNoAnswer ==
  ASSUME SessionsTyped, NEW c \in Chats, SaveSessions([sessions EXCEPT ![c] = None])
  PROVE  SessionsTyped' /\ NoNew
<1>1. None \in Sessions \cup {None}  OBVIOUS
<1> QED  BY <1>1, OneChat DEF NoNew

LEMMA SessionsKept == ASSUME UNCHANGED <<sessions, disk>>, SessionsTyped PROVE SessionsTyped' /\ NoNew
<1>1. SessionsTyped'  BY DEF SessionsTyped
<1>2. NoNew  BY DEF NoNew, Recorded, Holds
<1> QED  BY <1>1, <1>2

\* The webhook adds no answer to a session.
LEMMA WebhookSessions ==
  ASSUME BridgeAssumption, RepeatTypes, NEW m \in Messages, Webhook(m)
  PROVE  SessionsTyped' /\ NoNew
<1>0. SessionsTyped  BY DEF RepeatTypes, SessionsTyped
<1>1. sent[m] # None => sent[m].chat \in Chats  BY DEF RepeatTypes
<1>2. CASE UNCHANGED <<sessions, disk>>  BY <1>0, <1>2, SessionsKept
<1>3. CASE AgentCommand(m)
  <2>1. sent[m].chat \in Chats  BY <1>1, <1>3 DEF AgentCommand, Accept
  <2>2. CASE sent[m].kind = "agent"
    <3>1. PICK v \in Sessions : v = NewSession(m) /\ \A t : Cardinality(AnswersOf(t, v.hist)) = 0
      BY OpensNoAnswer
    <3>2. SaveSessions([sessions EXCEPT ![sent[m].chat] = v])  BY <1>3, <2>2, <3>1 DEF AgentCommand
    <3>3. \A t, n : Recorded(t, n) /\ (v # None => Cardinality(AnswersOf(t, v.hist)) <= n)
                    => Recorded(t, n)'
      BY <1>0, <2>1, <3>2, OneChat
    <3>4. SessionsTyped'  BY <1>0, <2>1, <3>2, OneChat
    <3>5. NoNew  BY <3>1, <3>3 DEF NoNew
    <3> QED  BY <3>4, <3>5
  <2>3. CASE sent[m].kind # "agent"
    BY <1>0, <1>3, <2>1, <2>3, DropsNoAnswer DEF AgentCommand
  <2> QED  BY <2>2, <2>3
<1>4. CASE EndSession(m)
  BY <1>0, <1>1, <1>4, DropsNoAnswer DEF EndSession, Accept
<1>5. CASE ContinueSession(m)
  <2>1. PICK c \in Chats : c = sent[m].chat  BY <1>1, <1>5 DEF ContinueSession, Accept
  <2>2. sessions[c] # None
    BY <1>5, <2>1 DEF ContinueSession, LiveSession
  <2>3. PICK x \in Sessions : x = sessions[c]  BY <1>0, <2>2 DEF SessionsTyped
  <2>11. [role |-> "user", of |-> m] \in Turns  BY DEF Turns
  <2>4. PICK e \in Turns : e = [role |-> "user", of |-> m]  BY <2>11
  <2>5. PICK i \in Messages \cup {None} : i = x.sid  BY DEF Sessions
  <2>6. PICK v : v = [x EXCEPT !.hist = Trim(Append(@, e)), !.sid = i]  OBVIOUS
  <2>7. /\ v \in Sessions
        /\ \A t : Cardinality(AnswersOf(t, v.hist)) <= Cardinality(AnswersOf(t, x.hist))
    <3>1. e.role # "assistant"  BY <2>4
    <3> QED  BY <2>4, <2>6, <3>1, OneTurn
  <2>8. SaveSessions([sessions EXCEPT ![c] = v])
    <3>1. v = [x EXCEPT !.hist = Trim(Append(@, e))]  BY <2>5, <2>6 DEF Sessions
    <3>2. SaveSessions([sessions EXCEPT ![c].hist = Trim(Append(@, e))])
      BY <1>5, <2>1, <2>4 DEF ContinueSession
    <3>3. [sessions EXCEPT ![c].hist = Trim(Append(@, e))] = [sessions EXCEPT ![c] = v]
      BY <2>3, <3>1
    <3> QED  BY <3>2, <3>3
  <2>9. /\ SessionsTyped'
        /\ \A t, n : Recorded(t, n) /\ (v # None => Cardinality(AnswersOf(t, v.hist)) <= n)
                     => Recorded(t, n)'
    BY <1>0, <2>7, <2>8, OneChat
  <2>10. ASSUME NEW t \in Tasks, NEW n \in Nat, Recorded(t, n)
         PROVE  Cardinality(AnswersOf(t, v.hist)) <= n
    <3>1. Cardinality(AnswersOf(t, x.hist)) <= n  BY <2>2, <2>3, <2>10 DEF Recorded, Holds
    <3>2. PICK a \in Nat, b \in Nat :
            a = Cardinality(AnswersOf(t, v.hist)) /\ b = Cardinality(AnswersOf(t, x.hist))
      BY <2>7, AnswersFinite DEF Sessions
    <3> QED  BY <2>7, <3>1, <3>2
  <2> QED  BY <2>9, <2>10 DEF NoNew
<1>6. CASE Unknown(m)
  BY <1>0, <1>1, <1>2, <1>6, DropsNoAnswer DEF Unknown, Accept, chatVars
<1>7. CASE NotCreated(m)
  <2>1. sent[m] # None  BY <1>7 DEF NotCreated, RepeatTypes
  <2> QED  BY <1>0, <1>1, <1>2, <1>7, <2>1, DropsNoAnswer DEF NotCreated, chatVars
<1>8. CASE ~(AgentCommand(m) \/ EndSession(m) \/ ContinueSession(m) \/ Unknown(m) \/ NotCreated(m))
  BY <1>2, <1>8 DEF Webhook, FamilyGate, ReadCommand, FamilyCommand, QueueCommand, Created, chatVars
<1> QED  BY <1>3, <1>4, <1>5, <1>6, <1>7, <1>8


\* The other half of the types: what is written, asked for and awaited.
AsksTyped ==
  /\ \A m \in Messages : sent[m] # None => sent[m].chat \in Chats
  /\ \A m \in Messages : request[m] # None => sent[m] # None
  /\ request \in [Messages -> Bodies \cup {None}] /\ row \in [Tasks -> Bodies \cup {None}]

WaitsTyped ==
  /\ shown \in [Tasks -> Nat] /\ errors \in [Tasks -> Nat]
  /\ pending \subseteq {t \in Tasks : row[t] # None} /\ late \subseteq pending
  /\ poll # None => poll.task \in pending /\ \E part \in {"text", "note"} : poll = [task |-> poll.task, part |-> part]

LEMMA TypesParts == RepeatTypes <=> AsksTyped /\ SessionsTyped /\ WaitsTyped
  BY DEF RepeatTypes, AsksTyped, SessionsTyped, WaitsTyped

LEMMA AskTyped ==
  ASSUME AsksTyped, NEW m \in Messages, NEW c \in Chats, NEW sid \in Messages \cup {None},
         NEW conv \in Messages \cup {None}, NEW b \in BOOLEAN,
         request' = [request EXCEPT ![m] = Body(m, c, sid, conv, b)],
         sent' = sent /\ sent[m] # None, row' = row
  PROVE  AsksTyped'
<1>1. Body(m, c, sid, conv, b) \in Bodies  BY DEF Body, Bodies
<1> QED  BY <1>1 DEF AsksTyped

LEMMA EndAskTyped ==
  ASSUME AsksTyped, NEW m \in Messages, request[m] # None, request' = [request EXCEPT ![m] = None],
         sent' = sent, row' = row \/ \E t \in Tasks : Insert(t, request[m])
  PROVE  AsksTyped'
<1>1. request[m] \in Bodies  BY DEF AsksTyped
<1>2. row' \in [Tasks -> Bodies \cup {None}]  BY <1>1 DEF AsksTyped, Insert
<1> QED  BY <1>2 DEF AsksTyped

\* What is inserted is there from then on.
LEMMA Kept ==
  ASSUME BridgeAssumption, AsksTyped, NEW m \in Messages, request[m] # None, NEW t \in Tasks,
         Insert(t, request[m])
  PROVE  row[t] = None /\ row'[t] # None /\ \A u \in Tasks : u # t => row'[u] = row[u]
<1>1. request[m] \in Bodies  BY DEF AsksTyped
<1> QED  BY <1>1 DEF AsksTyped, Insert, IsNext

LEMMA WebhookAsks ==
  ASSUME BridgeAssumption, RepeatTypes, NEW m \in Messages, Webhook(m)
  PROVE  AsksTyped'
<1>0. AsksTyped /\ SessionsTyped  BY TypesParts
<1>1. CASE UNCHANGED <<sent, request, row>>  BY <1>0, <1>1 DEF AsksTyped
<1>2. CASE QueueCommand(m)
  <2>1. sent[m] # None /\ sent[m].chat \in Chats  BY <1>0, <1>2 DEF QueueCommand, Accept, AsksTyped
  <2> QED  BY <1>0, <1>2, <2>1, AskTyped DEF QueueCommand, Ask
<1>3. CASE AgentCommand(m)
  <2>1. sent[m] # None /\ sent[m].chat \in Chats  BY <1>0, <1>3 DEF AgentCommand, Accept, AsksTyped
  <2>2. CASE sent[m].kind = "agent"
    BY <1>0, <1>3, <2>1, <2>2, AskTyped DEF AgentCommand, Ask
  <2>3. CASE sent[m].kind # "agent"
    BY <1>0, <1>3, <2>1, <2>3, AskTyped DEF AgentCommand, Ask
  <2> QED  BY <2>2, <2>3
<1>4. CASE ContinueSession(m)
  <2>1. sent[m] # None /\ sent[m].chat \in Chats  BY <1>0, <1>4 DEF ContinueSession, Accept, AsksTyped
  <2>2. PICK x : x = sessions[sent[m].chat]  OBVIOUS
  <2>3. x \in Sessions  BY <1>0, <1>4, <2>1, <2>2 DEF ContinueSession, LiveSession, SessionsTyped
  <2>4. x.sid \in Messages \cup {None} /\ x.conv \in Messages \cup {None}  BY <2>3 DEF Sessions
  <2>5. request' = [request EXCEPT ![m] = Body(m, sent[m].chat, x.sid, x.conv, TRUE)]
    BY <1>4, <2>2 DEF ContinueSession, Ask
  <2>6. sent' = sent /\ row' = row  BY <1>4 DEF ContinueSession
  <2> QED  BY <1>0, <2>1, <2>4, <2>5, <2>6, AskTyped
<1>5. CASE Created(m)
  BY <1>0, <1>5, EndAskTyped DEF Created
<1>6. CASE NotCreated(m)
  BY <1>0, <1>6, EndAskTyped DEF NotCreated
<1>7. CASE ~(QueueCommand(m) \/ AgentCommand(m) \/ ContinueSession(m) \/ Created(m) \/ NotCreated(m))
  BY <1>1, <1>7 DEF Webhook, FamilyGate, ReadCommand, FamilyCommand, EndSession, Unknown
<1> QED  BY <1>2, <1>3, <1>4, <1>5, <1>6, <1>7

\* The handlers leave the outcomes alone; a created task is waited for from now on.
LEMMA WebhookWaits ==
  ASSUME BridgeAssumption, RepeatTypes, NEW m \in Messages, Webhook(m)
  PROVE  /\ UNCHANGED <<shown, errors, poll, late>>
         /\ \A t \in Tasks : row[t] # None => row'[t] # None
         /\ \/ pending' = pending
            \/ \E t \in Tasks : row[t] = None /\ row'[t] # None /\ pending' = pending \cup {t}
<1>0. AsksTyped  BY TypesParts
<1>1. CASE Created(m)
  <2>1. PICK t \in Tasks : Insert(t, request[m]) /\ Await(t)  BY <1>1 DEF Created
  <2>2. row[t] = None /\ row'[t] # None /\ \A u \in Tasks : u # t => row'[u] = row[u]
    BY <1>0, <1>1, <2>1, Kept DEF Created
  <2> QED  BY <1>1, <2>1, <2>2 DEF Created, Await
<1>2. CASE NotCreated(m)
  <2>1. CASE row' = row  BY <1>2, <2>1 DEF NotCreated, pollVars
  <2>2. CASE \E t \in Tasks : Insert(t, request[m])
    <3>1. PICK t \in Tasks : Insert(t, request[m])  BY <2>2
    <3>2. row[t] = None /\ row'[t] # None /\ \A u \in Tasks : u # t => row'[u] = row[u]
      BY <1>0, <1>2, <3>1, Kept DEF NotCreated
    <3> QED  BY <1>2, <3>2 DEF NotCreated, pollVars
  <2> QED  BY <1>2, <2>1, <2>2 DEF NotCreated
<1>3. CASE ~(Created(m) \/ NotCreated(m))
  BY <1>3 DEF Webhook, FamilyGate, ReadCommand, FamilyCommand, QueueCommand, AgentCommand, EndSession,
              ContinueSession, Unknown, pollVars
<1> QED  BY <1>1, <1>2, <1>3

LEMMA RecordedMore ==
  ASSUME SessionsTyped, NEW t, NEW a \in Nat, NEW b \in Nat, a <= b, Recorded(t, a)
  PROVE  Recorded(t, b)
<1>1. ASSUME NEW s \in Sessions, Cardinality(AnswersOf(t, s.hist)) <= a
      PROVE  Cardinality(AnswersOf(t, s.hist)) <= b
  <2>1. PICK n \in Nat : n = Cardinality(AnswersOf(t, s.hist))  BY AnswersFinite DEF Sessions
  <2> QED  BY <1>1, <2>1
<1> QED  BY <1>1 DEF SessionsTyped, Recorded, Holds

\* A step that sends and records nothing, and may begin to wait for a new task.
LEMMA QuietKeeps ==
  ASSUME RepeatInv, AsksTyped', SessionsTyped', NoNew, UNCHANGED <<shown, errors, poll>>,
         late' = late \/ (late' \subseteq pending /\ pending' = pending),
         \A t \in Tasks : row[t] # None => row'[t] # None,
         \/ pending' = pending
         \/ \E t \in Tasks : row[t] = None /\ row'[t] # None /\ pending' = pending \cup {t}
  PROVE  RepeatInv'
<1>0. RepeatTypes /\ WaitsTyped  BY TypesParts DEF RepeatInv
<1>1. pending \subseteq pending' /\ pending' \subseteq {t \in Tasks : row'[t] # None}
  BY <1>0 DEF WaitsTyped
<1>2. WaitsTyped'  BY <1>0, <1>1 DEF WaitsTyped
<1>3. RepeatTypes'  BY <1>2, TypesParts DEF RepeatTypes, AsksTyped, SessionsTyped, WaitsTyped
<1>5. ASSUME NEW t \in Tasks PROVE CountsOf(t)'
  <2>1. PICK k \in Nat : k = errors[t] /\ k = errors'[t] /\ 1 + k \in Nat  BY <1>0 DEF WaitsTyped
  <2>2. /\ row[t] = None => shown[t] = 0 /\ Recorded(t, 0)
        /\ t \in pending /\ ~(Sending(t) /\ poll.part = "note") => shown[t] <= k
        /\ t \in pending /\ ~Sending(t) => Recorded(t, k)
        /\ shown[t] <= 1 + k /\ Recorded(t, 1 + k)
    BY <2>1 DEF RepeatInv, CountsOf, Recorded, Holds
  <2>3. row[t] = None => Recorded(t, k)
    <3>1. 0 <= k  BY <2>1
    <3> QED  BY <1>0, <2>1, <2>2, <3>1, RecordedMore, TypesParts
  <2>4. /\ Recorded(t, k) => Recorded(t, k)'
        /\ Recorded(t, 0) => Recorded(t, 0)'
        /\ Recorded(t, 1 + k) => Recorded(t, 1 + k)'
    BY <2>1 DEF NoNew
  <2>5. t \in pending' => t \in pending \/ row[t] = None  OBVIOUS
  <2>6. t \in pending' /\ ~Sending(t)' => Recorded(t, k)'
    BY <2>2, <2>3, <2>4, <2>5 DEF Sending
  <2>7. t \in pending' /\ ~(Sending(t)' /\ poll'.part = "note") => shown'[t] <= k
    BY <2>1, <2>2, <2>5 DEF Sending
  <2>8. row'[t] = None => shown'[t] = 0 /\ Recorded(t, 0)'  BY <2>2, <2>4
  <2> QED  BY <2>1, <2>2, <2>4, <2>6, <2>7, <2>8 DEF CountsOf, Recorded, Holds
<1> QED  BY <1>3, <1>5 DEF RepeatInv


\* The loop has sent something of task t, or tried to: it may wait for it no more.
LEMMA SentKeeps ==
  ASSUME RepeatInv, NEW t \in Tasks, t \in pending, \A u \in Tasks : Sending(u) => u = t,
         UNCHANGED <<sent, request, row, sessions, disk>>, poll' = None,
         \/ pending' = pending /\ late' = late
         \/ pending' = pending \ {t} /\ late' = late \ {t},
         NEW s \in Nat, NEW e \in Nat,
         shown' = [shown EXCEPT ![t] = s], errors' = [errors EXCEPT ![t] = e],
         errors[t] <= e, s <= 1 + e,
         pending' = pending => s <= e /\ 1 + errors[t] <= e
  PROVE  RepeatInv'
<1>0. AsksTyped /\ SessionsTyped /\ WaitsTyped  BY TypesParts DEF RepeatInv
<1>1. AsksTyped' /\ SessionsTyped'  BY <1>0 DEF AsksTyped, SessionsTyped
<1>2. WaitsTyped'  BY <1>0 DEF WaitsTyped
<1>3. RepeatTypes'
  BY <1>1, <1>2 DEF RepeatTypes, AsksTyped, SessionsTyped, WaitsTyped
<1>4. \A u, n : Recorded(u, n)' <=> Recorded(u, n)  BY DEF Recorded, Holds
<1>5. ASSUME NEW u \in Tasks, u # t PROVE CountsOf(u)'
  <2>1. shown'[u] = shown[u] /\ errors'[u] = errors[u] /\ row'[u] = row[u]
    BY <1>0, <1>5 DEF WaitsTyped
  <2>2. u \in pending' <=> u \in pending  BY <1>5
  <2>3. ~Sending(u) /\ ~Sending(u)'  BY <1>5 DEF Sending
  <2>4. CountsOf(u)  BY DEF RepeatInv
  <2>5. PICK k : k = errors[u] /\ k = errors'[u]  BY <2>1
  <2>6. /\ Recorded(u, k)' <=> Recorded(u, k)
        /\ Recorded(u, 1 + k)' <=> Recorded(u, 1 + k)
        /\ Recorded(u, 0)' <=> Recorded(u, 0)
    BY <1>4
  <2> QED  BY <2>1, <2>2, <2>3, <2>4, <2>5, <2>6 DEF CountsOf, Recorded, Holds
<1>6. CountsOf(t)'
  <2>1. shown'[t] = s /\ errors'[t] = e /\ errors[t] \in Nat  BY <1>0 DEF WaitsTyped
  <2>2. Recorded(t, 1 + errors[t])  BY DEF RepeatInv, CountsOf
  <2>3. Recorded(t, 1 + e)
    <3>1. 1 + errors[t] <= 1 + e  BY <2>1
    <3>2. PICK a \in Nat, b \in Nat : a = 1 + errors[t] /\ b = 1 + e  BY <2>1
    <3>3. Recorded(t, a)  BY <2>2, <3>2 DEF Recorded, Holds
    <3>4. Recorded(t, b)  BY <1>0, <3>1, <3>2, <3>3, RecordedMore
    <3> QED  BY <3>2, <3>4 DEF Recorded, Holds
  <2>4. pending' = pending => Recorded(t, e)
    <3> SUFFICES ASSUME 1 + errors[t] <= e PROVE Recorded(t, e)  OBVIOUS
    <3>1. PICK a \in Nat : a = 1 + errors[t]  BY <2>1
    <3>2. Recorded(t, a)  BY <2>2, <3>1 DEF Recorded, Holds
    <3> QED  BY <1>0, <3>1, <3>2, RecordedMore
  <2>5. t \in pending' => pending' = pending  OBVIOUS
  <2>6. row'[t] # None  BY <1>0 DEF WaitsTyped
  <2>7. Recorded(t, 1 + e)' /\ (t \in pending' => Recorded(t, e)')
    BY <1>4, <2>3, <2>4, <2>5
  <2> QED  BY <2>1, <2>5, <2>6, <2>7 DEF CountsOf, Recorded, Holds
<1>7. \A u \in Tasks : CountsOf(u)'  BY <1>5, <1>6
<1> QED  BY <1>3, <1>7 DEF RepeatInv

\* What passes for sent shows the outcome once more at most.
LEMMA SentShows ==
  ASSUME WaitsTyped, NEW t \in Tasks, Sent(t)
  PROVE  /\ errors' = errors /\ shown' \in [Tasks -> Nat]
         /\ \E s \in Nat : shown' = [shown EXCEPT ![t] = s] /\ s <= shown[t] + 1
<1>1. PICK a \in Nat : a = shown[t] /\ a + 1 \in Nat  BY DEF WaitsTyped
<1>2. shown' = [shown EXCEPT ![t] = a] \/ shown' = [shown EXCEPT ![t] = a + 1]
  BY <1>1 DEF Sent, WaitsTyped
<1>3. a <= a + 1 /\ a + 1 <= a + 1  BY <1>1
<1>4. \E s \in Nat : shown' = [shown EXCEPT ![t] = s] /\ s <= a + 1  BY <1>1, <1>2, <1>3
<1>5. errors' = errors  BY DEF Sent
<1>6. shown' \in [Tasks -> Nat]  BY <1>1, <1>2 DEF WaitsTyped
<1> QED  BY <1>1, <1>4, <1>5, <1>6

\* A task that was not sent since the last error is sent, or the sending raises.
LEMMA SendRepeats ==
  ASSUME RepeatInv, NEW t \in Tasks, t \in pending, \A u \in Tasks : Sending(u) => u = t,
         shown[t] <= errors[t], UNCHANGED <<sent, request, row, sessions, disk>>,
         \/ Sent(t) /\ Pop(t)
         \/ SendRaises(t)
  PROVE  RepeatInv'
<1>1. WaitsTyped  BY TypesParts DEF RepeatInv
<1>2. PICK a \in Nat, b \in Nat : a = shown[t] /\ b = errors[t] /\ a + 1 \in Nat /\ b + 1 \in Nat
  BY <1>1 DEF WaitsTyped
<1>3. CASE Sent(t) /\ Pop(t)
  <2>0. PICK s \in Nat : shown' = [shown EXCEPT ![t] = s] /\ s <= a + 1
    BY <1>1, <1>2, <1>3, SentShows
  <2>1. errors' = [errors EXCEPT ![t] = b]  BY <1>1, <1>2, <1>3 DEF Sent, WaitsTyped
  <2>2. pending' = pending \ {t} /\ late' = late \ {t} /\ poll' = None  BY <1>3 DEF Pop
  <2>3. pending' # pending  BY <2>2
  <2>4. errors[t] <= b /\ s <= 1 + b  BY <1>2, <2>0
  <2> QED  BY <1>2, <2>0, <2>1, <2>2, <2>3, <2>4, SentKeeps
<1>4. CASE SendRaises(t)
  <2>1. errors' = [errors EXCEPT ![t] = b + 1]  BY <1>2, <1>4 DEF SendRaises
  <2>2. PICK s \in Nat : shown' = [shown EXCEPT ![t] = s] /\ s <= a + 1
    <3>1. CASE shown' = shown
      <4>1. shown' = [shown EXCEPT ![t] = a]  BY <1>1, <1>2, <3>1 DEF WaitsTyped
      <4>2. a \in Nat /\ a <= a + 1  OBVIOUS
      <4> QED  BY <4>1, <4>2
    <3>2. CASE shown' = [shown EXCEPT ![t] = @ + 1]
      <4>1. shown' = [shown EXCEPT ![t] = a + 1]  BY <1>2, <3>2
      <4>2. a + 1 \in Nat /\ a + 1 <= a + 1  OBVIOUS
      <4> QED  BY <4>1, <4>2
    <3> QED  BY <1>4, <3>1, <3>2 DEF SendRaises
  <2>3. pending' = pending /\ late' = late /\ poll' = None  BY <1>4 DEF SendRaises
  <2>4. errors[t] <= b + 1 /\ s <= b + 1 /\ s <= 1 + (b + 1) /\ 1 + errors[t] <= b + 1
    BY <1>2, <2>2
  <2> QED  BY <1>2, <2>1, <2>2, <2>3, <2>4, SentKeeps
<1> QED  BY <1>3, <1>4

LEMMA SendAndPopRepeats ==
  ASSUME RepeatInv, NEW t \in Tasks, t \in pending, poll = None, SendAndPop(t)
  PROVE  RepeatInv'
<1>1. shown[t] <= errors[t]  BY DEF RepeatInv, CountsOf, Sending
<1>2. \A u \in Tasks : Sending(u) => u = t  BY DEF Sending
<1>3. UNCHANGED <<sent, request, row, sessions, disk>>  BY DEF SendAndPop, chatVars
<1> QED  BY <1>1, <1>2, <1>3, SendRepeats DEF SendAndPop

LEMMA SendAnswerRepeats ==
  ASSUME RepeatInv, NEW t \in Tasks, SendAnswer(t) PROVE RepeatInv'
<1>1. AsksTyped /\ SessionsTyped /\ WaitsTyped  BY TypesParts DEF RepeatInv
<1>2. poll = [task |-> t, part |-> "text"]  BY DEF SendAnswer
<1>3. poll # None /\ poll.task = t /\ poll.part = "text" /\ t \in pending
  <2>1. poll # None  BY <1>2, BridgeAssumption DEF BridgeAssumption
  <2> QED  BY <1>1, <1>2, <2>1 DEF WaitsTyped
<1>4. \A u \in Tasks : Sending(u) => u = t  BY <1>3 DEF Sending
<1>5. shown[t] <= errors[t]  BY <1>3 DEF RepeatInv, CountsOf
<1>6. UNCHANGED <<sent, request, row, sessions, disk>>  BY DEF SendAnswer, chatVars
<1>7. CASE /\ Sent(t) /\ UNCHANGED <<pending, late>>
           /\ poll' = [poll EXCEPT !.part = "note"]
  <2>0. PICK s \in Nat : shown' = [shown EXCEPT ![t] = s] /\ s <= shown[t] + 1
    BY <1>1, <1>7, SentShows
  <2>1. poll' = [task |-> t, part |-> "note"]  BY <1>2, <1>7
  <2>2. poll' # None /\ poll'.task = t /\ poll'.part = "note"
    <3>1. [task |-> t, part |-> "note"] # None  BY BridgeAssumption DEF BridgeAssumption
    <3> QED  BY <2>1, <3>1
  <2>3. AsksTyped' /\ SessionsTyped'  BY <1>1, <1>6 DEF AsksTyped, SessionsTyped
  <2>4. WaitsTyped'
    <3>1. \E part \in {"text", "note"} : poll' = [task |-> poll'.task, part |-> part]
      BY <2>1, <2>2
    <3>2. shown' \in [Tasks -> Nat] /\ errors' \in [Tasks -> Nat]  BY <1>1, <1>7, SentShows DEF WaitsTyped
    <3>3. /\ pending' \subseteq {u \in Tasks : row'[u] # None} /\ late' \subseteq pending'
          /\ poll'.task \in pending'
      BY <1>1, <1>3, <1>6, <1>7, <2>2 DEF WaitsTyped
    <3> QED  BY <3>1, <3>2, <3>3 DEF WaitsTyped
  <2>5. RepeatTypes'  BY <2>3, <2>4 DEF RepeatTypes, AsksTyped, SessionsTyped, WaitsTyped
  <2>6. ASSUME NEW u \in Tasks PROVE CountsOf(u)'
    <3>1. \A n : Recorded(u, n)' <=> Recorded(u, n)  BY <1>6 DEF Recorded, Holds
    <3>2. PICK k \in Nat : k = errors[u] /\ k = errors'[u]  BY <1>1, <1>7, SentShows DEF WaitsTyped
    <3>3. /\ row[u] = None => shown[u] = 0 /\ Recorded(u, 0)
          /\ u \in pending /\ ~(Sending(u) /\ poll.part = "note") => shown[u] <= k
          /\ u \in pending /\ ~Sending(u) => Recorded(u, k)
          /\ shown[u] <= 1 + k /\ Recorded(u, 1 + k)
      BY <3>2 DEF RepeatInv, CountsOf, Recorded, Holds
    <3>4. /\ Recorded(u, k)' <=> Recorded(u, k)
          /\ Recorded(u, 1 + k)' <=> Recorded(u, 1 + k)
          /\ Recorded(u, 0)' <=> Recorded(u, 0)
      BY <3>1
    <3>5. CASE u = t
      <4>1. shown'[u] = s /\ shown[u] <= k /\ shown[u] \in Nat
        BY <1>1, <1>5, <2>0, <3>2, <3>5 DEF WaitsTyped
      <4>2. shown'[u] <= 1 + k  BY <2>0, <3>5, <4>1
      <4>3. row'[u] # None  BY <1>1, <1>3, <1>6, <3>5 DEF WaitsTyped
      <4>4. Sending(u)' /\ poll'.part = "note"  BY <2>2, <3>5 DEF Sending
      <4> QED  BY <3>2, <3>3, <3>4, <4>2, <4>3, <4>4 DEF CountsOf, Recorded, Holds
    <3>6. CASE u # t
      <4>1. shown'[u] = shown[u] /\ row'[u] = row[u] /\ (u \in pending' <=> u \in pending)
        BY <1>1, <1>6, <1>7, <2>0, <3>6 DEF WaitsTyped
      <4>2. ~Sending(u) /\ ~Sending(u)'  BY <1>3, <2>2, <3>6 DEF Sending
      <4> QED  BY <3>2, <3>3, <3>4, <4>1, <4>2 DEF CountsOf, Recorded, Holds
    <3> QED  BY <3>5, <3>6
  <2> QED  BY <2>5, <2>6 DEF RepeatInv
<1> QED  BY <1>3, <1>4, <1>5, <1>6, <1>7, SendRepeats DEF SendAnswer

LEMMA SendNoteRepeats ==
  ASSUME RepeatInv, NEW t \in Tasks, SendNote(t) PROVE RepeatInv'
<1>1. WaitsTyped  BY TypesParts DEF RepeatInv
<1>2. poll = [task |-> t, part |-> "note"]  BY DEF SendNote
<1>3. t \in pending /\ \A u \in Tasks : Sending(u) => u = t
  <2>1. poll.task = t  BY <1>2
  <2>2. poll # None => poll.task \in pending  BY <1>1 DEF WaitsTyped
  <2>3. None \notin [task : Tasks, part : {"text", "note"}]  BY BridgeAssumption DEF BridgeAssumption
  <2>4. poll # None  BY <1>2, <2>3
  <2> QED  BY <2>1, <2>2, <2>4 DEF Sending
<1>4. shown[t] <= 1 + errors[t]  BY DEF RepeatInv, CountsOf
<1>5. PICK a \in Nat, b \in Nat : a = shown[t] /\ b = errors[t] /\ b + 1 \in Nat
  BY <1>1 DEF WaitsTyped
<1>6. UNCHANGED <<sent, request, row, sessions, disk>>  BY DEF SendNote, chatVars
<1>7. CASE Pop(t) /\ UNCHANGED <<shown, errors>>
  <2>1. shown' = [shown EXCEPT ![t] = a] /\ errors' = [errors EXCEPT ![t] = b]
    BY <1>1, <1>5, <1>7 DEF WaitsTyped
  <2>2. pending' = pending \ {t} /\ late' = late \ {t} /\ poll' = None  BY <1>7 DEF Pop
  <2>3. pending' # pending  BY <1>3, <2>2
  <2>4. errors[t] <= b /\ a <= 1 + b  BY <1>4, <1>5
  <2> QED  BY <1>3, <1>5, <1>6, <2>1, <2>2, <2>3, <2>4, SentKeeps
<1>8. CASE SendRaises(t) /\ shown' = shown
  <2>1. shown' = [shown EXCEPT ![t] = a] /\ errors' = [errors EXCEPT ![t] = b + 1]
    BY <1>1, <1>5, <1>8 DEF WaitsTyped, SendRaises
  <2>2. pending' = pending /\ late' = late /\ poll' = None  BY <1>8 DEF SendRaises
  <2>3. errors[t] <= b + 1 /\ a <= b + 1 /\ a <= 1 + (b + 1) /\ 1 + errors[t] <= b + 1
    BY <1>4, <1>5
  <2> QED  BY <1>3, <1>5, <1>6, <2>1, <2>2, <2>3, SentKeeps
<1> QED  BY <1>7, <1>8 DEF SendNote


\* An answer is recorded before it is sent: once more than the errors so far.
LEMMA PollDoneRepeats ==
  ASSUME RepeatInv, NEW t \in Tasks, PollDone(t) PROVE RepeatInv'
<1>1. AsksTyped /\ SessionsTyped /\ WaitsTyped  BY TypesParts DEF RepeatInv
<1>2. poll = None /\ t \in pending /\ row[t] \in Bodies /\ t \in pending'
  BY <1>1 DEF PollDone, AsksTyped, WaitsTyped
<1>3. UNCHANGED <<sent, request, row, shown, errors, pending, late>>  BY DEF PollDone
<1>4. poll' = [task |-> t, part |-> "text"] /\ poll' # None /\ poll'.task = t /\ poll'.part = "text"
  <2>1. poll' = [task |-> t, part |-> "text"]  BY DEF PollDone
  <2>2. [task |-> t, part |-> "text"] # None  BY BridgeAssumption DEF BridgeAssumption
  <2> QED  BY <2>1, <2>2
<1>5. /\ SessionsTyped'
      /\ \A u \in Tasks, n \in Nat : Recorded(u, n) => (u # t => Recorded(u, n)')
      /\ \A n \in Nat : Recorded(t, n) => Recorded(t, 1 + n)'
  <2>1. CASE UNCHANGED <<sessions, disk>>
    <3>1. SessionsTyped' /\ NoNew  BY <1>1, <2>1, SessionsKept
    <3>2. ASSUME NEW n \in Nat, Recorded(t, n) PROVE Recorded(t, 1 + n)'
      <4>1. PICK k \in Nat : k = 1 + n /\ n <= k  OBVIOUS
      <4>2. Recorded(t, n)'  BY <3>1, <3>2 DEF NoNew
      <4>3. Recorded(t, k)  BY <1>1, <3>2, <4>1, RecordedMore
      <4>4. Recorded(t, k)'  BY <3>1, <4>1, <4>3 DEF NoNew
      <4> QED  BY <4>1, <4>4
    <3> QED  BY <3>1, <3>2 DEF NoNew
  <2>2. CASE row[t].session /\ sessions[row[t].chat] # None
    <3>1. PICK c \in Chats : c = row[t].chat  BY <1>2 DEF Bodies
    <3>2. PICK x \in Sessions : x = sessions[c]  BY <1>1, <2>2, <3>1 DEF SessionsTyped
    <3>3. [role |-> "assistant", of |-> t] \in Turns  BY DEF Turns
    <3>4. PICK e \in Turns : e = [role |-> "assistant", of |-> t]  BY <3>3
    <3>5. PICK i \in Messages \cup {None} : i = IF row[t].own THEN row[t].sid ELSE x.sid
      BY <1>2 DEF Bodies, Sessions
    <3>6. PICK v : v = [x EXCEPT !.hist = Trim(Append(@, e)), !.sid = i]  OBVIOUS
    <3>7. /\ v \in Sessions
          /\ \A u : /\ Cardinality(AnswersOf(u, v.hist)) <= Cardinality(AnswersOf(u, x.hist)) + 1
                    /\ ~(e.role = "assistant" /\ e.of = u) =>
                         Cardinality(AnswersOf(u, v.hist)) <= Cardinality(AnswersOf(u, x.hist))
      BY <3>6, BridgeAssumption, OneTurn
    <3>8. SaveSessions([sessions EXCEPT ![c] = v])
      <4>1. SaveSessions([sessions EXCEPT ![c].hist = Trim(Append(@, [role |-> "assistant", of |-> t])),
                                          ![c].sid = IF row[t].own THEN row[t].sid ELSE @])
        BY <2>2, <3>1 DEF PollDone, RecordReply
      <4>2. [sessions EXCEPT ![c].hist = Trim(Append(@, [role |-> "assistant", of |-> t])),
                             ![c].sid = IF row[t].own THEN row[t].sid ELSE @]
              = [sessions EXCEPT ![c] = v]
        BY <1>1, <3>2, <3>4, <3>5, <3>6 DEF SessionsTyped, Sessions
      <4> QED  BY <4>1, <4>2
    <3>9. /\ SessionsTyped'
          /\ \A u, n : Recorded(u, n) /\ (v # None => Cardinality(AnswersOf(u, v.hist)) <= n)
                       => Recorded(u, n)'
      BY <1>1, <3>7, <3>8, OneChat
    <3>10. ASSUME NEW u \in Tasks, NEW n \in Nat, Recorded(u, n)
           PROVE  /\ Cardinality(AnswersOf(u, v.hist)) <= 1 + n
                  /\ u # t => Cardinality(AnswersOf(u, v.hist)) <= n
      <4>1. Cardinality(AnswersOf(u, x.hist)) <= n
        BY <2>2, <3>1, <3>2, <3>10 DEF Recorded, Holds
      <4>2. PICK a \in Nat, b \in Nat :
              a = Cardinality(AnswersOf(u, v.hist)) /\ b = Cardinality(AnswersOf(u, x.hist))
        BY <3>7, AnswersFinite DEF Sessions
      <4>3. a <= b + 1  BY <3>7, <4>2
      <4>4. u # t => a <= b
        <5>1. e.of = t  BY <3>4
        <5> QED  BY <3>7, <4>2, <5>1
      <4> QED  BY <4>1, <4>2, <4>3, <4>4
    <3>11. ASSUME NEW n \in Nat, Recorded(t, n) PROVE Recorded(t, 1 + n)'
      <4>1. PICK k \in Nat : k = 1 + n /\ n <= k  OBVIOUS
      <4>2. Recorded(t, k)  BY <1>1, <3>11, <4>1, RecordedMore
      <4>3. Cardinality(AnswersOf(t, v.hist)) <= k  BY <3>10, <3>11, <4>1
      <4>4. Recorded(t, k)'  BY <3>9, <4>2, <4>3
      <4> QED  BY <4>1, <4>4
    <3> QED  BY <3>9, <3>10, <3>11
  <2> QED  BY <2>1, <2>2 DEF PollDone, RecordReply, chatVars
<1>6. AsksTyped'  BY <1>1, <1>3 DEF AsksTyped
<1>7. WaitsTyped'
  <2>1. \E part \in {"text", "note"} : poll' = [task |-> poll'.task, part |-> part]  BY <1>4
  <2> QED  BY <1>1, <1>2, <1>3, <1>4, <2>1 DEF WaitsTyped
<1>8. RepeatTypes'  BY <1>5, <1>6, <1>7 DEF RepeatTypes, AsksTyped, SessionsTyped, WaitsTyped
<1>9. ASSUME NEW u \in Tasks PROVE CountsOf(u)'
  <2>1. PICK k \in Nat : k = errors[u] /\ k = errors'[u] /\ 1 + k \in Nat  BY <1>1, <1>3 DEF WaitsTyped
  <2>2. ~Sending(u)  BY <1>2 DEF Sending
  <2>3. /\ row[u] = None => shown[u] = 0 /\ Recorded(u, 0)
        /\ u \in pending => shown[u] <= k /\ Recorded(u, k)
        /\ shown[u] <= 1 + k /\ Recorded(u, 1 + k)
    BY <2>1, <2>2 DEF RepeatInv, CountsOf, Recorded, Holds
  <2>4. CASE u = t
    <3>1. Sending(u)' /\ ~(poll'.part = "note") /\ row'[u] # None
      BY <1>1, <1>2, <1>3, <1>4, <2>4 DEF Sending, WaitsTyped
    <3>2. Recorded(t, 1 + k)'  BY <1>2, <1>5, <2>1, <2>3, <2>4
    <3> QED  BY <1>2, <1>3, <2>1, <2>3, <2>4, <3>1, <3>2 DEF CountsOf, Recorded, Holds
  <2>5. CASE u # t
    <3>1. /\ Recorded(u, k) => Recorded(u, k)'
          /\ Recorded(u, 1 + k) => Recorded(u, 1 + k)'
          /\ Recorded(u, 0) => Recorded(u, 0)'
      BY <1>5, <2>1, <2>5
    <3>2. ~Sending(u)'  BY <1>4, <2>5 DEF Sending
    <3> QED  BY <1>3, <2>1, <2>3, <3>1, <3>2 DEF CountsOf, Recorded, Holds
  <2> QED  BY <2>4, <2>5
<1> QED  BY <1>8, <1>9 DEF RepeatInv

LEMMA TaskEndsRepeats ==
  ASSUME RepeatInv, NEW t \in Tasks, TaskEnds(t) PROVE RepeatInv'
<1>1. AsksTyped /\ SessionsTyped /\ WaitsTyped  BY TypesParts DEF RepeatInv
<1>2. PICK s \in {"done", "failed"}, own \in BOOLEAN : row' = [row EXCEPT ![t].st = s, ![t].own = own]
  BY DEF TaskEnds
<1>3. PICK b \in Bodies : b = row[t]  BY <1>1 DEF TaskEnds, AsksTyped
<1>4. PICK d : d = [b EXCEPT !.st = s, !.own = own]  OBVIOUS
<1>5. d \in Bodies /\ row' = [row EXCEPT ![t] = d]  BY <1>1, <1>2, <1>3, <1>4 DEF AsksTyped, Bodies
<1>6. d # None  BY <1>5, BridgeAssumption DEF BridgeAssumption, Bodies
<1>7. \A u \in Tasks : row[u] # None => row'[u] # None  BY <1>1, <1>5, <1>6 DEF AsksTyped
<1>8. AsksTyped'  BY <1>1, <1>5 DEF TaskEnds, AsksTyped
<1>9. UNCHANGED <<shown, errors, poll, pending, late, sessions, disk>>  BY DEF TaskEnds, pollVars, chatVars
<1>10. SessionsTyped' /\ NoNew  BY <1>1, <1>9, SessionsKept
<1> QED  BY <1>7, <1>8, <1>9, <1>10, QuietKeeps

LEMMA SessionIdleRepeats ==
  ASSUME RepeatInv, NEW c \in Chats, SessionIdle(c) PROVE RepeatInv'
<1>1. AsksTyped /\ SessionsTyped  BY TypesParts DEF RepeatInv
<1>2. ASSUME NEW x \in Sessions
      PROVE  [x EXCEPT !.idle = TRUE] \in Sessions /\ [x EXCEPT !.idle = TRUE].hist = x.hist
  BY DEF Sessions
<1>3. /\ sessions' \in [Chats -> Sessions \cup {None}]
      /\ \A d \in Chats : sessions'[d] # None => sessions[d] # None /\ sessions'[d].hist = sessions[d].hist
  <2>1. PICK x \in Sessions : x = sessions[c] /\ sessions[c] # None  BY <1>1 DEF SessionIdle, LiveSession, SessionsTyped
  <2>2. PICK y : y = [x EXCEPT !.idle = TRUE]  OBVIOUS
  <2>3. y \in Sessions /\ y.hist = x.hist  BY <1>2, <2>2
  <2>4. sessions' = [sessions EXCEPT ![c] = y]  BY <2>1, <2>2 DEF SessionIdle
  <2> QED  BY <1>1, <2>1, <2>3, <2>4 DEF SessionsTyped
<1>4. /\ disk' \in [Chats -> Sessions \cup {None}]
      /\ \A d \in Chats : disk'[d] # None => disk[d] # None /\ disk'[d].hist = disk[d].hist
  <2>1. CASE disk[c] = None  BY <1>1, <2>1 DEF SessionIdle, SessionsTyped
  <2>2. CASE disk[c] # None
    <3>1. PICK x \in Sessions : x = disk[c]  BY <1>1, <2>2 DEF SessionsTyped
    <3>2. PICK y : y = [x EXCEPT !.idle = TRUE]  OBVIOUS
    <3>3. y \in Sessions /\ y.hist = x.hist  BY <1>2, <3>2
    <3>4. disk' = [disk EXCEPT ![c] = y]  BY <2>2, <3>1, <3>2 DEF SessionIdle
    <3> QED  BY <1>1, <2>2, <3>1, <3>3, <3>4 DEF SessionsTyped
  <2> QED  BY <2>1, <2>2
<1>5. SessionsTyped' /\ NoNew
  BY <1>3, <1>4 DEF SessionsTyped, NoNew, Recorded, Holds
<1>6. UNCHANGED <<sent, request, row, shown, errors, poll, pending, late>>  BY DEF SessionIdle, pollVars
<1>7. AsksTyped'  BY <1>1, <1>6 DEF AsksTyped
<1> QED  BY <1>5, <1>6, <1>7, QuietKeeps

\* What comes back from disk after a restart holds no more answers, and nothing is awaited.
LEMMA RestartRepeats == ASSUME RepeatInv, Restart PROVE RepeatInv'
<1>1. AsksTyped /\ SessionsTyped /\ WaitsTyped  BY TypesParts DEF RepeatInv
<1>2. sessions' = [c \in Chats |-> IF disk[c] # None /\ disk[c].idle THEN None ELSE disk[c]]
  BY DEF Restart, LoadSessions
<1>3. /\ disk' = disk /\ pending' = {} /\ late' = {} /\ poll' = None
      /\ UNCHANGED <<sent, row, shown, errors>> /\ request' = [m \in Messages |-> None]
  BY DEF Restart
<1>4. AsksTyped'  BY <1>1, <1>3 DEF AsksTyped
<1>5. SessionsTyped'  BY <1>1, <1>2, <1>3 DEF SessionsTyped
<1>6. WaitsTyped'  BY <1>1, <1>3 DEF WaitsTyped
<1>7. RepeatTypes'  BY <1>4, <1>5, <1>6 DEF RepeatTypes, AsksTyped, SessionsTyped, WaitsTyped
<1>8. \A u, n : Recorded(u, n) => Recorded(u, n)'  BY <1>2, <1>3 DEF Recorded, Holds
<1>9. ASSUME NEW u \in Tasks PROVE CountsOf(u)'
  <2>1. PICK k : k = errors[u] /\ k = errors'[u]  BY <1>3
  <2>2. /\ row[u] = None => shown[u] = 0 /\ Recorded(u, 0)
        /\ shown[u] <= 1 + k /\ Recorded(u, 1 + k)
    BY <2>1 DEF RepeatInv, CountsOf, Recorded, Holds
  <2>3. /\ Recorded(u, 1 + k) => Recorded(u, 1 + k)'
        /\ Recorded(u, 0) => Recorded(u, 0)'
    BY <1>8
  <2> QED  BY <1>3, <2>1, <2>2, <2>3 DEF CountsOf, Recorded, Holds
<1> QED  BY <1>7, <1>9 DEF RepeatInv

\* A message that is written comes from a chat that the bridge knows of, and nothing
\* was asked for under its number yet.
LEMMA SpeakAsks ==
  ASSUME BridgeAssumption, OnceInv, AsksTyped, NEW m \in Messages, NEW c \in Chats, NEW k, NEW author,
         Speak(m, c, k, author), row' = row,
         \/ request' = request
         \/ request' = [request EXCEPT ![m] = Body(m, c, None, None, FALSE)] /\ sent'[m] # None
  PROVE  AsksTyped'
<1>1. /\ sent[m] = None /\ sent'[m] = [chat |-> c, kind |-> k, author |-> author]
      /\ \A n \in Messages : sent'[n] = None => sent[n] = None
  BY SpeakWrites
<1>2. \A n \in Messages : n # m => sent'[n] = sent[n]  BY DEF Speak, OnceInv, OnceTypes
<1>3. \A n \in Messages : sent'[n] # None => sent'[n].chat \in Chats  BY <1>1, <1>2 DEF AsksTyped
<1>4. request[m] = None  BY <1>1 DEF AsksTyped
<1>5. Body(m, c, None, None, FALSE) \in Bodies  BY DEF Body, Bodies
<1>6. request' \in [Messages -> Bodies \cup {None}]  BY <1>5 DEF AsksTyped
<1>7. \A n \in Messages : request'[n] # None => sent'[n] # None
  <2>1. \A n \in Messages : n # m => request'[n] = request[n]  BY DEF AsksTyped
  <2>2. request'[m] # None => sent'[m] # None  BY <1>4
  <2> QED  BY <1>1, <2>1, <2>2 DEF AsksTyped
<1>8. row' \in [Tasks -> Bodies \cup {None}]  BY DEF AsksTyped
<1> QED  BY <1>3, <1>6, <1>7, <1>8 DEF AsksTyped

\* A message is written, or a brief asked for: the tasks and sessions stay as they are.
LEMMA SpeakRepeats ==
  ASSUME BridgeAssumption, OnceInv, RepeatInv, NEW m \in Messages, NEW c \in Chats, NEW k, NEW author,
         Speak(m, c, k, author), UNCHANGED <<row, chatVars, pollVars>>,
         \/ request' = request
         \/ request' = [request EXCEPT ![m] = Body(m, c, None, None, FALSE)] /\ sent'[m] # None
  PROVE  RepeatInv'
<1>1. AsksTyped /\ SessionsTyped  BY TypesParts DEF RepeatInv
<1>2. UNCHANGED <<sessions, disk, shown, errors, poll, pending, late, row>>  BY DEF chatVars, pollVars
<1>3. AsksTyped'  BY <1>1, SpeakAsks
<1>4. SessionsTyped' /\ NoNew  BY <1>1, <1>2, SessionsKept
<1> QED  BY <1>2, <1>3, <1>4, QuietKeeps

LEMMA WritesRepeat ==
  ASSUME BridgeAssumption, OnceInv, RepeatInv, (\E s \in Says : Write(s[1], s[2])) \/ Echo \/ MorningBrief
  PROVE  RepeatInv'
<1>1. CASE \E s \in Says : Write(s[1], s[2])
  <2>1. PICK s \in Says : Write(s[1], s[2])  BY <1>1
  <2>2. s[1] \in Chats  BY DEF BridgeAssumption
  <2> QED  BY <2>1, <2>2, SpeakRepeats DEF Write
<1>2. CASE Echo
  <2>1. Owner \in Chats  BY DEF BridgeAssumption
  <2> QED  BY <1>2, <2>1, SpeakRepeats DEF Echo
<1>3. CASE MorningBrief
  <2>1. Owner \in Chats  BY DEF BridgeAssumption
  <2>2. PICK m \in Messages :
          /\ Speak(m, Owner, "brief", "scheduler")
          /\ request' = [request EXCEPT ![m] = Body(m, Owner, None, None, FALSE)]
    BY <1>3 DEF MorningBrief
  <2>3. sent'[m] = [chat |-> Owner, kind |-> "brief", author |-> "scheduler"]  BY <2>2, SpeakWrites
  <2>4. sent'[m] # None  BY <2>1, <2>3 DEF BridgeAssumption
  <2> QED  BY <1>3, <2>1, <2>2, <2>4, SpeakRepeats DEF MorningBrief
<1> QED  BY <1>1, <1>2, <1>3

LEMMA WebhookRepeats ==
  ASSUME BridgeAssumption, RepeatInv, NEW m \in Messages, Webhook(m) PROVE RepeatInv'
<1>1. RepeatTypes  BY DEF RepeatInv
<1>2. AsksTyped'  BY <1>1, WebhookAsks
<1>3. SessionsTyped' /\ NoNew  BY <1>1, WebhookSessions
<1>4. /\ UNCHANGED <<shown, errors, poll, late>>
      /\ \A t \in Tasks : row[t] # None => row'[t] # None
      /\ \/ pending' = pending
         \/ \E t \in Tasks : row[t] = None /\ row'[t] # None /\ pending' = pending \cup {t}
  BY <1>1, WebhookWaits
<1> QED  BY <1>2, <1>3, <1>4, QuietKeeps

\* A step that at most lets waiting tasks be late.
LEMMA IdleKeeps ==
  ASSUME RepeatInv, UNCHANGED <<sent, request, row, sessions, disk, shown, errors, poll, pending>>,
         late' = late \/ late' \subseteq pending
  PROVE  RepeatInv'
<1>1. AsksTyped /\ SessionsTyped  BY TypesParts DEF RepeatInv
<1>2. AsksTyped'  BY <1>1 DEF AsksTyped
<1>3. SessionsTyped' /\ NoNew  BY <1>1, SessionsKept
<1> QED  BY <1>2, <1>3, QuietKeeps

LEMMA PollLoopRepeats ==
  ASSUME RepeatInv, NEW t \in Tasks, PollLoop(t) PROVE RepeatInv'
<1>1. WaitsTyped  BY TypesParts DEF RepeatInv
<1>2. CASE PollTimeout(t)
  <2>1. t \in pending  BY <1>1, <1>2 DEF PollTimeout, WaitsTyped
  <2> QED  BY <1>2, <2>1, SendAndPopRepeats DEF PollTimeout
<1>3. CASE PollEnded(t)  BY <1>3, SendAndPopRepeats DEF PollEnded
<1> QED  BY <1>2, <1>3, PollDoneRepeats, SendAnswerRepeats, SendNoteRepeats DEF PollLoop

LEMMA RepeatStep ==
  ASSUME BridgeAssumption, OnceInv, RepeatInv, [Next]_bridgeVars PROVE RepeatInv'
<1>1. CASE (\E s \in Says : Write(s[1], s[2])) \/ Echo \/ MorningBrief  BY <1>1, WritesRepeat
<1>2. CASE \E m \in Messages : Webhook(m)  BY <1>2, WebhookRepeats
<1>3. CASE \E m \in Messages : SeenExpires(m)
  BY <1>3, IdleKeeps DEF SeenExpires, chatVars, pollVars
<1>4. CASE \E t \in Tasks : TaskEnds(t)  BY <1>4, TaskEndsRepeats
<1>5. CASE \E t \in Tasks : TaskLate(t)
  <2>1. PICK t \in Tasks : TaskLate(t)  BY <1>5
  <2>2. late \subseteq pending  BY DEF RepeatInv, RepeatTypes
  <2>3. late' \subseteq pending  BY <2>1, <2>2 DEF TaskLate
  <2>4. UNCHANGED <<sent, request, row, sessions, disk, shown, errors, poll, pending>>
    BY <2>1 DEF TaskLate, chatVars
  <2> QED  BY <2>3, <2>4, IdleKeeps
<1>6. CASE \E t \in Tasks : PollLoop(t)  BY <1>6, PollLoopRepeats
<1>7. CASE \E c \in Chats : SessionIdle(c)  BY <1>7, SessionIdleRepeats
<1>8. CASE Restart  BY <1>8, RestartRepeats
<1>9. CASE UNCHANGED bridgeVars  BY <1>9, IdleKeeps DEF bridgeVars, chatVars, pollVars
<1> QED  BY <1>1, <1>2, <1>3, <1>4, <1>5, <1>6, <1>7, <1>8, <1>9 DEF Next

\* RepeatsNeedAnError: an outcome is sent again, and an answer recorded in a session
\* again, at most once for every send of it that raised, whatever happened in between:
\* late answers, several sessions, restarts, writes that failed.
THEOREM RepeatsAreErrors == Spec => []RepeatsNeedAnError
<1>1. Init => OnceInv /\ RepeatInv
  <2> SUFFICES ASSUME Init PROVE OnceInv /\ RepeatInv OBVIOUS
  <2>1. OnceInv  BY OnceInitially
  <2>2. RepeatTypes  BY DEF Init, RepeatTypes
  <2>3. \A t \in Tasks : CountsOf(t)  BY DEF Init, CountsOf, Recorded, Holds
  <2> QED  BY <2>1, <2>2, <2>3 DEF RepeatInv
<1>2. OnceInv /\ RepeatInv /\ [Next]_bridgeVars => (OnceInv /\ RepeatInv)'
  BY BridgeAssumption, OnceStep, RepeatStep
<1>3. RepeatInv => RepeatsNeedAnError
  BY DEF RepeatInv, CountsOf, Recorded, Holds, RepeatsNeedAnError
<1> QED  BY <1>1, <1>2, <1>3, PTL DEF Spec

==============================================================================
