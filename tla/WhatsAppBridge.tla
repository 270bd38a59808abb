---------------------------- MODULE WhatsAppBridge ----------------------------
(***************************************************************************)
(* services/whatsapp-bridge/bridge.py: the webhook that turns WhatsApp     *)
(* messages into tasks, the multi-turn agent sessions, and the loop that   *)
(* polls the awaited tasks and sends their outcomes.  The handlers of      *)
(* several messages and the poll loop interleave where the code awaits:    *)
(* when it calls the orchestrator and when it sends to WhatsApp.           *)
(*                                                                         *)
(* A reply that only acknowledges a message changes nothing in the bridge  *)
(* (when it cannot be sent the handler ends in a 500, and the message is   *)
(* already marked as seen), so it is not a step of its own.                *)
(***************************************************************************)
EXTENDS Naturals, FiniteSets, Sequences

CONSTANTS
  Messages,   \* 1..n: WhatsApp messages, numbered in the order they are sent
  Tasks,      \* 1..k: tasks, numbered in the order of their creation
  Chats,      \* chats that write to the bridge
  Owner,      \* the owner's chat; the others are on the roster or ignored
  Says,       \* <<chat, kind>>: what the people of a chat write in a run
  None,
  HistMax,    \* HISTORY_MAX_TURNS
  MaxFaults   \* bound: calls to WhatsApp or the disk that fail, restarts, and
              \* seen messages that expire

ASSUME BridgeAssumption ==
  /\ Owner \in Chats /\ None \notin Chats \cup Messages \cup Tasks /\ IsFiniteSet(Tasks)
  /\ None \notin [task : Tasks, part : {"text", "note"}]
  /\ None \notin [chat : Chats, kind : {"brief"}, author : {"scheduler"}]
  /\ None \notin [msg : Messages, chat : Chats, sid : Messages \cup {None},
                  conv : Messages \cup {None}, session : BOOLEAN,
                  st : {"open", "done", "failed"}, own : BOOLEAN]
  /\ \A s \in Says : s[1] \in Chats
  /\ HistMax \in Nat \ {0} /\ MaxFaults \in Nat

VARIABLES
  sent,      \* sent[m]: chat, kind and author of message m; None before
  roster,    \* the family file: the chats whose messages are served
  seen,      \* _seen_msgs
  request,   \* request[m]: the task body m's handler is creating, or None
  row,       \* row[t]: the orchestrator's task
  pending,   \* keys of _pending: the tasks the poll loop asks for
  late,      \* those started more than TASK_TIMEOUT ago
  poll,      \* the finished task the loop is sending, with the part; or None
  sessions,  \* _sessions, by chat
  disk,      \* the sessions in BRIDGE_STATE_FILE
  echoes,    \* replies to the owner that come back and carry no known prefix
  owed,      \* history: tasks made pending since the bridge last started
  shown,     \* history: shown[t], outcome messages of t that arrived
  errors,    \* history: errors[t], attempts to send t's outcome that raised
  refused,   \* history: tasks whose outcome, or a part of it, Waha refused
  lapses,    \* restarts and expiries so far
  faults     \* failed calls so far

chatVars == <<sessions, disk>>
pollVars == <<pending, late, poll, owed, shown, errors, refused>>
bridgeVars == <<sent, roster, seen, request, row, chatVars, pollVars, echoes,
                lapses, faults>>

FAMILY_ALLOWED == {"weather"}        \* weather, market and help stand as one
Queued == {"weather", "work"}        \* commands that queue one task and wait

Init ==
  /\ sent = [m \in Messages |-> None]
  /\ roster = Chats \ {Owner}
  /\ seen = {} /\ pending = {} /\ late = {} /\ owed = {} /\ refused = {} /\ poll = None
  /\ request = [m \in Messages |-> None]
  /\ row = [t \in Tasks |-> None]
  /\ sessions = [c \in Chats |-> None]
  /\ disk = sessions
  /\ shown = [t \in Tasks |-> 0] /\ errors = shown
  /\ echoes = 0 /\ lapses = 0 /\ faults = 0

------------------------------------------------------------------------------
(* Messages.  A person writes one; the bridge's own replies to the owner   *)
(* come back as messages too.                                              *)

\* Messages and tasks take their numbers in order.
IsNext(x, f) == f[x] = None /\ \A y \in DOMAIN f : f[y] = None => x <= y

Speak(m, c, k, author) ==
  IsNext(m, sent) /\ sent' = [sent EXCEPT ![m] = [chat |-> c, kind |-> k, author |-> author]]

\* The task a request asks for: in a session its id, and whose it began as.
Body(m, c, sid, conv, session) ==
  [msg |-> m, chat |-> c, sid |-> sid, conv |-> conv, session |-> session,
   st |-> "open", own |-> FALSE]

Write(c, k) ==
  /\ \E m \in Messages : Speak(m, c, k, "person")
  /\ UNCHANGED <<roster, seen, request, row, chatVars, pollVars, echoes, lapses, faults>>

\* An unprefixed reply is not recognised as the bridge's own: it is parsed,
\* and matches no command.
Echo ==
  /\ echoes > 0
  /\ echoes' = echoes - 1
  /\ \E m \in Messages : Speak(m, Owner, "text", "bridge")
  /\ UNCHANGED <<roster, seen, request, row, chatVars, pollVars, lapses, faults>>

\* _morning_brief_scheduler asks for the owner's brief by itself, without a
\* message: it takes a number all the same.
MorningBrief ==
  /\ \E m \in Messages :
       /\ Speak(m, Owner, "brief", "scheduler")
       /\ seen' = seen \cup {m}
       /\ request' = [request EXCEPT ![m] = Body(m, Owner, None, None, FALSE)]
  /\ UNCHANGED <<roster, row, chatVars, pollVars, echoes, lapses, faults>>

------------------------------------------------------------------------------
(* Sessions.                                                               *)

\* Every change is written out at once, best effort.
SaveSessions(s) ==
  /\ sessions' = s
  /\ \/ disk' = s /\ UNCHANGED faults
     \/ lapses + faults < MaxFaults /\ faults' = faults + 1 /\ disk' = disk

Trim(hist) == SubSeq(hist, IF Len(hist) > HistMax THEN Len(hist) - HistMax + 1 ELSE 1, Len(hist))

NewSession(m) == [conv |-> m, sid |-> m, idle |-> FALSE,
                  hist |-> <<[role |-> "user", of |-> m]>>]

LiveSession(c) == sessions[c] # None /\ ~sessions[c].idle

\* The answer of t goes to whatever session the chat has by now.
RecordReply(t, c) ==
  IF sessions[c] = None THEN UNCHANGED <<chatVars, faults>>
  ELSE SaveSessions([sessions EXCEPT
         ![c].hist = Trim(Append(@, [role |-> "assistant", of |-> t])),
         ![c].sid = IF row[t].own THEN row[t].sid ELSE @])

\* SESSION_TTL is longer than TASK_TIMEOUT: a chat that waits is not idle.
SessionIdle(c) ==
  /\ LiveSession(c)
  /\ \A t \in pending \ late : row[t].chat # c
  /\ sessions' = [sessions EXCEPT ![c].idle = TRUE]
  /\ disk' = IF disk[c] = None THEN disk ELSE [disk EXCEPT ![c].idle = TRUE]
  /\ UNCHANGED <<sent, roster, seen, request, row, pollVars, echoes, lapses, faults>>

------------------------------------------------------------------------------
(* The webhook, up to its first await.                                     *)

\* Mutant: a delivery is known only while its handler runs.
IsDuplicateInFlight(m) == request[m] # None

IsDuplicate(m) == m \in seen

Served(m) == sent[m].chat = Owner \/ sent[m].chat \in roster

MayRun(m) == sent[m].chat = Owner \/ sent[m].kind \in FAMILY_ALLOWED

Accept(m, kinds) ==
  /\ sent[m] # None /\ request[m] = None
  /\ Served(m) /\ ~IsDuplicate(m)
  /\ seen' = seen \cup {m}
  /\ MayRun(m) /\ sent[m].kind \in kinds

Ask(m, sid, conv, session) ==
  request' = [request EXCEPT ![m] = Body(m, sent[m].chat, sid, conv, session)]

\* A family member's other commands are refused or ignored.
FamilyGate(m) ==
  /\ sent[m] # None /\ request[m] = None
  /\ Served(m) /\ ~IsDuplicate(m) /\ ~MayRun(m)
  /\ seen' = seen \cup {m}
  /\ UNCHANGED <<sent, roster, request, row, chatVars, pollVars, echoes, lapses, faults>>

\* status, queue, review, failures, help, vantage, a command without its
\* argument: read and reply.  Some of the replies (the usage of plan and find,
\* the family list, the vantage summary) start with none of _REPLY_PREFIXES.
ReadCommand(m) ==
  /\ Accept(m, {"ask"})
  /\ echoes' \in {echoes, echoes + 1}
  /\ UNCHANGED <<sent, roster, request, row, chatVars, pollVars, lapses, faults>>

FamilyCommand(m) ==
  /\ Accept(m, {"family"})
  /\ \E c \in Chats \ {Owner} : roster' \in {roster \cup {c}, roster \ {c}}
  /\ UNCHANGED <<sent, request, row, chatVars, pollVars, echoes, lapses, faults>>

QueueCommand(m) ==
  /\ Accept(m, Queued)
  /\ Ask(m, None, None, FALSE)
  /\ UNCHANGED <<sent, roster, row, chatVars, pollVars, echoes, lapses, faults>>

\* The session is opened, or a stale one dropped, before the task exists.
AgentCommand(m) ==
  /\ Accept(m, {"agent", "oneshot"})
  /\ IF sent[m].kind = "agent"
     THEN /\ Ask(m, m, m, TRUE)
          /\ SaveSessions([sessions EXCEPT ![sent[m].chat] = NewSession(m)])
     ELSE /\ Ask(m, None, None, FALSE)
          /\ SaveSessions([sessions EXCEPT ![sent[m].chat] = None])
  /\ UNCHANGED <<sent, roster, row, pollVars, echoes, lapses>>

EndSession(m) ==
  /\ Accept(m, {"end"})
  /\ SaveSessions([sessions EXCEPT ![sent[m].chat] = None])
  /\ UNCHANGED <<sent, roster, request, row, pollVars, echoes, lapses>>

\* Not a command: the next turn of a live session.
ContinueSession(m) ==
  /\ Accept(m, {"text"})
  /\ LET c == sent[m].chat IN
       /\ LiveSession(c)
       /\ Ask(m, sessions[c].sid, sessions[c].conv, TRUE)
       /\ SaveSessions([sessions EXCEPT
            ![c].hist = Trim(Append(@, [role |-> "user", of |-> m]))])
  /\ UNCHANGED <<sent, roster, row, pollVars, echoes, lapses>>

\* No live session: an idle one is evicted, and the text is unknown.
Unknown(m) ==
  /\ Accept(m, {"text"})
  /\ LET c == sent[m].chat IN
       /\ ~LiveSession(c)
       /\ IF sessions[c] = None THEN UNCHANGED <<chatVars, faults>>
          ELSE SaveSessions([sessions EXCEPT ![c] = None])
  /\ UNCHANGED <<sent, roster, request, row, pollVars, echoes, lapses>>

------------------------------------------------------------------------------
(* The webhook, when POST /tasks returns.                                  *)

Insert(t, body) == IsNext(t, row) /\ row' = [row EXCEPT ![t] = body]

Await(t) == pending' = pending \cup {t} /\ owed' = owed \cup {t}

Created(m) ==
  /\ request[m] # None
  /\ \E t \in Tasks : Insert(t, request[m]) /\ Await(t)
  /\ request' = [request EXCEPT ![m] = None]
  /\ UNCHANGED <<sent, roster, seen, chatVars, late, poll, shown, errors, refused,
                 echoes, lapses, faults>>

\* No answer, whether or not the task was created.  The agent command drops
\* the session the chat has by then.
NotCreated(m) ==
  /\ request[m] # None
  /\ (\E t \in Tasks : Insert(t, request[m])) \/ UNCHANGED row
  /\ request' = [request EXCEPT ![m] = None]
  /\ IF sent[m].kind \in {"agent", "oneshot"}
     THEN SaveSessions([sessions EXCEPT ![sent[m].chat] = None])
     ELSE UNCHANGED <<chatVars, faults>>
  /\ UNCHANGED <<sent, roster, seen, pollVars, echoes, lapses>>

------------------------------------------------------------------------------
(* The fleet, external: a task ends, answered by the session's own agent   *)
(* or by another one; "failed" stands for needs_human too.  The bridge     *)
(* reads no task it does not wait for.                                     *)
TaskEnds(t) ==
  /\ t \in pending /\ row[t] # None /\ row[t].st = "open"
  /\ \E s \in {"done", "failed"}, own \in BOOLEAN :
       /\ own => s = "done" /\ row[t].session
       /\ row' = [row EXCEPT ![t].st = s, ![t].own = own]
  /\ UNCHANGED <<sent, roster, seen, request, chatVars, pollVars, echoes, lapses, faults>>

TaskLate(t) ==
  /\ t \in pending \ late
  /\ late' = late \cup {t}
  /\ UNCHANGED <<sent, roster, seen, request, row, chatVars, pending, poll, owed, shown,
                 errors, refused, echoes, lapses, faults>>

------------------------------------------------------------------------------
(* The poll loop.                                                          *)

\* Mutant: the task is popped before its outcome is sent.
SendRaisesPopped(t) ==
  /\ lapses + faults < MaxFaults /\ faults' = faults + 1
  /\ errors' = [errors EXCEPT ![t] = @ + 1]
  /\ shown' = shown \/ shown' = [shown EXCEPT ![t] = @ + 1]
  /\ poll' = None
  /\ pending' = pending \ {t} /\ late' = late \ {t} /\ UNCHANGED refused

\* A send that raises leaves the task pending: the next pass tries again.
\* The message may have arrived all the same.
SendRaises(t) ==
  /\ lapses + faults < MaxFaults /\ faults' = faults + 1
  /\ errors' = [errors EXCEPT ![t] = @ + 1]
  /\ shown' = shown \/ shown' = [shown EXCEPT ![t] = @ + 1]
  /\ poll' = None
  /\ UNCHANGED <<pending, late, refused>>

\* What _send_wa takes for sent: the message arrived, or Waha answered with an
\* error status, which nobody looks at.
Sent(t) ==
  \/ shown' = [shown EXCEPT ![t] = @ + 1] /\ UNCHANGED <<errors, refused, faults>>
  \/ /\ lapses + faults < MaxFaults /\ faults' = faults + 1
     /\ refused' = refused \cup {t}
     /\ UNCHANGED <<shown, errors>>

\* Mutant: the task stays pending after its outcome was sent.
PopNothing(t) == poll' = None /\ UNCHANGED <<pending, late>>

Pop(t) == pending' = pending \ {t} /\ late' = late \ {t} /\ poll' = None

SendAndPop(t) ==
  /\ (Sent(t) /\ Pop(t)) \/ SendRaises(t)
  /\ UNCHANGED <<sent, roster, seen, request, row, chatVars, owed, echoes, lapses>>

\* Mutant: only a task that is still open times out.
PollTimeoutOpen(t) ==
  /\ poll = None /\ t \in late /\ row[t].st = "open"
  /\ SendAndPop(t)

PollTimeout(t) ==
  /\ poll = None /\ t \in late
  /\ SendAndPop(t)

PollEnded(t) ==
  /\ poll = None /\ t \in pending \ late
  /\ row[t].st = "failed"
  /\ SendAndPop(t)

\* The answer is recorded before it is sent.
PollDone(t) ==
  /\ poll = None /\ t \in pending \ late
  /\ row[t].st = "done"
  /\ IF row[t].session THEN RecordReply(t, row[t].chat)
     ELSE UNCHANGED <<chatVars, faults>>
  /\ poll' = [task |-> t, part |-> "text"]
  /\ UNCHANGED <<sent, roster, seen, request, row, pending, late, owed, shown, errors,
                 refused, echoes, lapses>>

\* The text, in one message or several, any of which may be refused; then a note
\* of the files, if any.
SendAnswer(t) ==
  /\ poll = [task |-> t, part |-> "text"]
  /\ \/ /\ Sent(t)
        /\ Pop(t) \/ (poll' = [poll EXCEPT !.part = "note"] /\ UNCHANGED <<pending, late>>)
     \/ SendRaises(t)
  /\ UNCHANGED <<sent, roster, seen, request, row, chatVars, owed, echoes, lapses>>

\* Whether the note arrives is not recorded: the outcome is the text.
SendNote(t) ==
  /\ poll = [task |-> t, part |-> "note"]
  /\ \/ Pop(t) /\ UNCHANGED <<shown, errors, refused, faults>>
     \/ SendRaises(t) /\ shown' = shown
  /\ UNCHANGED <<sent, roster, seen, request, row, chatVars, owed, echoes, lapses>>

------------------------------------------------------------------------------
(* _SEEN_TTL passes, and the bridge restarts: only the sessions that are   *)
(* on disk and not idle come back.                                         *)

SeenExpires(m) ==
  /\ m \in seen /\ request[m] = None /\ lapses + faults < MaxFaults
  /\ seen' = seen \ {m} /\ lapses' = lapses + 1
  /\ UNCHANGED <<sent, roster, request, row, chatVars, pollVars, echoes, faults>>

LoadSessions ==
  sessions' = [c \in Chats |-> IF disk[c] # None /\ disk[c].idle THEN None ELSE disk[c]]

Restart ==
  /\ lapses + faults < MaxFaults /\ lapses' = lapses + 1
  /\ LoadSessions
  /\ seen' = {} /\ pending' = {} /\ late' = {} /\ owed' = {} /\ poll' = None
  /\ request' = [m \in Messages |-> None]
  /\ UNCHANGED <<sent, roster, row, disk, shown, errors, refused, echoes, faults>>

------------------------------------------------------------------------------
Webhook(m) ==
  \/ FamilyGate(m) \/ ReadCommand(m) \/ FamilyCommand(m)
  \/ QueueCommand(m) \/ AgentCommand(m) \/ EndSession(m)
  \/ ContinueSession(m) \/ Unknown(m)
  \/ Created(m) \/ NotCreated(m)

PollLoop(t) ==
  PollTimeout(t) \/ PollEnded(t) \/ PollDone(t) \/ SendAnswer(t) \/ SendNote(t)

Next ==
  \/ \E s \in Says : Write(s[1], s[2])
  \/ Echo
  \/ \E m \in Messages : Webhook(m) \/ SeenExpires(m)
  \/ MorningBrief
  \/ \E t \in Tasks : TaskEnds(t) \/ TaskLate(t) \/ PollLoop(t)
  \/ \E c \in Chats : SessionIdle(c)
  \/ Restart

Spec == Init /\ [][Next]_bridgeVars

\* Time passes, and each pass of the loop looks at every pending task.
Fairness == \A t \in Tasks : WF_bridgeVars(TaskLate(t)) /\ WF_bridgeVars(PollLoop(t))

FairSpec == Spec /\ Fairness

------------------------------------------------------------------------------
(* Properties.                                                             *)

\* Waha delivers a message more than once; while the bridge stays up and
\* remembers it, one message creates one task at most.
OneTaskPerMessage ==
  \A m \in Messages :
    Cardinality({t \in Tasks : row[t] # None /\ row[t].msg = m}) <= 1 + lapses

\* A task the bridge waits for is dropped only after its outcome, or that it
\* timed out, reached the chat; or after Waha refused a message of it, which
\* _send_wa does not notice.
NoOutcomeLost == \A t \in owed \ pending : shown[t] > 0 \/ t \in refused

AnswersOf(t, hist) == {i \in DOMAIN hist : hist[i].role = "assistant" /\ hist[i].of = t}

\* An outcome is sent again, and an answer recorded in the session again,
\* only when a send of it raised.
RepeatsNeedAnError ==
  \A t \in Tasks :
    /\ shown[t] <= 1 + errors[t]
    /\ \A c \in Chats : sessions[c] # None =>
         Cardinality(AnswersOf(t, sessions[c].hist)) <= 1 + errors[t]

\* Whatever fails, the bridge stops waiting for a task: it ends or times out.
EveryTaskSettled == \A t \in Tasks : (t \in pending) ~> (t \notin pending)
==============================================================================
