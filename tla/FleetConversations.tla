-------------------------- MODULE FleetConversations --------------------------
(***************************************************************************)
(* Named conversations of the fleet MCP server (clients/fleet-mcp): `ask`  *)
(* creates a task in a conversation, `ask` or a later `result` records its *)
(* answer, `end_conversation` forgets the name.  Calls are coroutines of a *)
(* server process, interleaved where they await; processes share the state *)
(* file, and only a process's load and its save are apart from the others'.*)
(***************************************************************************)
EXTENDS Naturals, Sequences, SequencesExt

CONSTANTS
  Asks,     \* calls of `ask`, each the number of its task and of the conversation it may begin
  Results,  \* calls of `result`
  Ends,     \* calls of `end_conversation`
  Procs,    \* server processes
  Turns,    \* HISTORY_TURNS
  None

Calls == Asks \cup Results \cup Ends

\* Turns of a conversation: who spoke, and the task it belongs to.
History == Seq({"user", "assistant"} \X Asks)

FleetAssumption ==
  /\ Asks \subseteq Nat \ {0} /\ Turns \in Nat \ {0}
  /\ Asks \cap Results = {} /\ Asks \cap Ends = {} /\ Results \cap Ends = {}
  /\ None \notin [id : Asks, history : History]
  /\ None \notin [call : Calls, data : [conv : {None} \cup [id : Asks, history : History], tasks : SUBSET Asks]]

VARIABLES
  file,    \* the state file: [conv, tasks]; conv: [id, history], or None
  status,  \* the tasks in the queue
  call,    \* where each call stands: [pc, copy, task]
  inside,  \* inside[p]: the call between its load and its save, and what it loaded
  seen,    \* history: the answers recorded while no `ask` held a copy: <<task, conversation>>
  overwritten  \* history: a process saved over what another had saved since its load

vars == <<file, status, call, inside, seen, overwritten>>

Idle == [pc |-> "idle", copy |-> None, task |-> 0, proc |-> None]

Init ==
  /\ file = [conv |-> None, tasks |-> {}] /\ status = [t \in Asks |-> "none"]
  /\ call = [c \in Calls |-> Idle] /\ inside = [p \in Procs |-> None] /\ seen = {} /\ overwritten = FALSE

Trim(h) == IF Len(h) > Turns THEN SubSeq(h, Len(h) - Turns + 1, Len(h)) ELSE h

\* Between a load and a save nothing else runs in the process.
MayRun(p) == inside[p] = None

Load(c, p) == inside' = [inside EXCEPT ![p] = [call |-> c, data |-> file]]

\* Another process may have saved since: what it saved is lost.
Save(p, new) ==
  /\ file' = new /\ inside' = [inside EXCEPT ![p] = None]
  /\ overwritten' = (overwritten \/ file # inside[p].data)

------------------------------------------------------------------------------
(* ask.                                                                    *)

\* The conversation is read, or begun, and the prompt is added to this copy.
AskReads(c, p) ==
  /\ call[c].pc = "idle" /\ MayRun(p)
  /\ LET conv == IF file.conv = None THEN [id |-> c, history |-> <<>>] ELSE file.conv
     IN call' = [call EXCEPT ![c] = [pc |-> "creating", task |-> c, proc |-> p,
          copy |-> [conv EXCEPT !.history = Trim(Append(@, <<"user", c>>))]]]
  /\ UNCHANGED <<file, status, inside, seen, overwritten>>

\* The task was created meanwhile: the file is read again.
Created(c) ==
  /\ call[c].pc = "creating" /\ MayRun(call[c].proc)
  /\ status' = [status EXCEPT ![c] = "running"]
  /\ Load(c, call[c].proc) /\ UNCHANGED <<file, call, seen, overwritten>>

\* No orchestrator took it: nothing of the prompt is kept.
NotCreated(c) ==
  /\ call[c].pc = "creating" /\ MayRun(call[c].proc)
  /\ call' = [call EXCEPT ![c].pc = "end"] /\ UNCHANGED <<file, status, inside, seen, overwritten>>

\* The copy is put in the file as it is, whatever the file holds by now.
AskSaves(c) ==
  LET p == call[c].proc IN
  /\ call[c].pc = "creating" /\ inside[p] # None /\ inside[p].call = c
  /\ Save(p, [conv |-> call[c].copy, tasks |-> inside[p].data.tasks \cup {c}])
  /\ call' = [call EXCEPT ![c].pc = "waiting"]
  /\ UNCHANGED <<status, seen>>

\* result: wait for any task, also one that another process asked for.
ResultBegins(c, p) ==
  /\ call[c].pc = "idle" /\ MayRun(p)
  /\ \E t \in Asks : status[t] # "none" /\ call' = [call EXCEPT ![c] = [pc |-> "waiting", task |-> t, proc |-> p, copy |-> None]]
  /\ UNCHANGED <<file, status, inside, seen, overwritten>>

\* The wait is over: the task ended, the time is up, or the fleet is away.
WaitEnds(c) ==
  /\ call[c].pc = "waiting" /\ MayRun(call[c].proc)
  /\ \/ status[call[c].task] = "done" /\ Load(c, call[c].proc) /\ UNCHANGED call
     \/ call' = [call EXCEPT ![c].pc = "end"] /\ UNCHANGED inside
  /\ UNCHANGED <<file, status, seen, overwritten>>

\* An `ask` has read the conversation, and has yet to save its copy.
Open == \E a \in Asks : call[a].pc = "creating"

\* Mutant: the task stays in the file, and its answer may be appended again.
RecordAgain(c) ==
  LET p == call[c].proc
      t == call[c].task
      d == inside[p].data
  IN /\ call[c].pc = "waiting" /\ inside[p] # None /\ inside[p].call = c
     /\ IF t \notin d.tasks \/ d.conv = None
        THEN inside' = [inside EXCEPT ![p] = None] /\ UNCHANGED <<file, overwritten>>
        ELSE Save(p, [d EXCEPT !.conv.history = Trim(Append(@, <<"assistant", t>>))])
     /\ call' = [call EXCEPT ![c].pc = "end"]
     /\ UNCHANGED <<status, seen>>

\* _record: the task is struck off, so that its answer is appended once.
Record(c) ==
  LET p == call[c].proc
      t == call[c].task
      d == inside[p].data
  IN /\ call[c].pc = "waiting" /\ inside[p] # None /\ inside[p].call = c
     /\ IF t \notin d.tasks
        THEN inside' = [inside EXCEPT ![p] = None] /\ UNCHANGED <<file, overwritten>>
        ELSE Save(p, [tasks |-> d.tasks \ {t},
                      conv |-> IF d.conv = None THEN None
                               ELSE [d.conv EXCEPT !.history = Trim(Append(@, <<"assistant", t>>))]])
     /\ seen' = IF t \in d.tasks /\ d.conv # None /\ ~Open THEN seen \cup {<<t, d.conv.id>>} ELSE seen
     /\ call' = [call EXCEPT ![c].pc = "end"]
     /\ UNCHANGED status

------------------------------------------------------------------------------
(* end_conversation and the fleet.                                         *)

EndReads(c, p) ==
  /\ call[c].pc = "idle" /\ MayRun(p) /\ Load(c, p)
  /\ call' = [call EXCEPT ![c] = [pc |-> "ending", task |-> 0, proc |-> p, copy |-> None]]
  /\ UNCHANGED <<file, status, seen, overwritten>>

\* The conversation goes, and its tasks with it: all of them, with one name.
EndSaves(c) ==
  LET p == call[c].proc IN
  /\ call[c].pc = "ending"
  /\ Save(p, [conv |-> None, tasks |-> {}])
  /\ call' = [call EXCEPT ![c].pc = "end"]
  /\ UNCHANGED <<status, seen>>

TaskEnds(t) ==
  /\ status[t] = "running"
  /\ \E s \in {"done", "failed"} : status' = [status EXCEPT ![t] = s]
  /\ UNCHANGED <<file, call, inside, seen, overwritten>>

Next ==
  \/ \E c \in Asks : \/ \E p \in Procs : AskReads(c, p)
                     \/ Created(c) \/ NotCreated(c) \/ AskSaves(c) \/ TaskEnds(c)
  \/ \E c \in Results, p \in Procs : ResultBegins(c, p)
  \/ \E c \in Asks \cup Results : WaitEnds(c) \/ Record(c)
  \/ \E c \in Ends : EndSaves(c) \/ \E p \in Procs : EndReads(c, p)

Spec == Init /\ [][Next]_vars

------------------------------------------------------------------------------
(* Properties.                                                             *)

\* While no process has saved over what another saved since its load: however
\* many calls see a task end, its answer is in the conversation at most once;
\* and it stays there until the conversation is ended or trimmed (of its
\* question first), unless an `ask` held a copy of it when it was recorded.
AnswersStand ==
  ~overwritten /\ file.conv # None =>
    /\ \A i, j \in DOMAIN file.conv.history :
         file.conv.history[i] = file.conv.history[j] /\ file.conv.history[i][1] = "assistant" => i = j
    /\ \A s \in seen :
         /\ file.conv.id = s[2]
         /\ Len(file.conv.history) < Turns \/ <<"user", s[1]>> \in ToSet(file.conv.history)
         => <<"assistant", s[1]>> \in ToSet(file.conv.history)
==============================================================================
