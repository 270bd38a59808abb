------------------------------ MODULE DeskStore ------------------------------
(***************************************************************************)
(* The rows of scrum_responses (owner responses and desk commands), the    *)
(* pause switch and the audit trail: shared/desk_store.py, the functions   *)
(* of orchestrator/db_rqlite.py (mirrored in orchestrator/db.py) that run  *)
(* its SQL, and the routes of orchestrator/main.py that call them.         *)
(*                                                                         *)
(* A statement, or the statements of one transaction, is one step; any     *)
(* other request may run between two of them.  A caller that stops waiting *)
(* for an answer does not stop the request.                                *)
(***************************************************************************)
EXTENDS Naturals, Sequences, FiniteSets

CONSTANTS
  Requests,     \* the POST /scrum/responses requests clients make, retries included
  Intents,      \* the bodies they may carry: [kind, key, actor, text]
  Callers,      \* the programs that consume rows and report results
  None,         \* no Idempotency-Key, no reply, and a status not read yet
  RateLimit,    \* COMMAND_RATE_LIMIT_PER_HOUR
  RateWindow,   \* COMMAND_RATE_WINDOW_SECS, in ticks of the clock
  IdemWindow,   \* _IDEM_WINDOW_SECS, in ticks of the clock
  MaxTime,      \* bound: how far the clock runs
  MaxPauses     \* bound: how often the switch changes

ASSUME DeskStoreAssumption ==
  /\ IsFiniteSet(Requests)
  /\ {RateLimit, RateWindow, IdemWindow, MaxTime, MaxPauses} \subseteq Nat
  /\ None \notin {"new", "same", "conflict", "limited"}
  /\ \A in \in Intents :
       /\ in.kind \in {"response", "command"}
       /\ in.kind = "command" => in.key # None   \* else the route answers 400

VARIABLES
  row,        \* the rows in the order of their ids: [intent, created, status, by]
  audit,      \* audit[i]: the to_status of scrum_audit's entries for row i
  paused,     \* desk_pause.paused
  pauseLog,   \* scrum_audit's entries for changes of the switch: [from, to]
  now,        \* the clock
  req,        \* req[q]: the progress of request q
  calls       \* consume and result calls: [by, id, op, step, found, live]

rowVars == <<row, audit>>
pauseVars == <<paused, pauseLog>>
storeVars == <<rowVars, pauseVars, now, req, calls>>

Ids == DOMAIN row
IsCommand(i) == row[i].intent.kind = "command"
Path == [queued |-> <<"queued">>, running |-> <<"queued", "running">>,
         done |-> <<"queued", "running", "done">>,
         failed |-> <<"queued", "running", "failed">>,
         recorded |-> <<"recorded">>, consumed |-> <<"recorded", "consumed">>]
Status == DOMAIN Path
Reply == {"new", "same", "conflict", "limited"}

-------------------------------------------------------------------------------
(* POST /scrum/responses *)

NoRequest == [pc |-> "idle", intent |-> None, at |-> 0, reply |-> None, id |-> 0]

Answer(q, reply, i) ==
  req' = [req EXCEPT ![q].pc = "answered", ![q].reply = reply, ![q].id = i]

\* _replay_or_conflict, command_replay_or_conflict: the same fields, or 409.
ReplayOrConflict(q, i) ==
  Answer(q, IF row[i].intent = req[q].intent THEN "same" ELSE "conflict", i)

\* A request arrives; only a request with a key looks for an earlier row.
Receive(q, in) ==
  /\ req[q].pc = "idle"
  /\ req' = [req EXCEPT ![q] =
               [NoRequest EXCEPT !.pc = IF in.key = None THEN "insert" ELSE "select",
                                 !.intent = in, !.at = now]]
  /\ UNCHANGED <<rowVars, pauseVars, now, calls>>

\* Rows of either kind that took the key at most IdemWindow before the request.
Recent(q) ==
  {i \in Ids : row[i].intent.key = req[q].intent.key /\ row[i].created + IdemWindow >= req[q].at}

\* SELECT ... WHERE idempotency_key = ? AND created_at >= ? ORDER BY id LIMIT 1
SelectKey(q) ==
  /\ req[q].pc = "select"
  /\ \/ \E i \in Recent(q) : (\A j \in Recent(q) : i <= j) /\ ReplayOrConflict(q, i)
     \/ Recent(q) = {} /\ req' = [req EXCEPT ![q].pc = "insert", ![q].at = now]
  /\ UNCHANGED <<rowVars, pauseVars, now, calls>>

\* The row and its first audit entry, in one transaction.
AddRow(q, status) ==
  /\ row' = Append(row, [intent |-> req[q].intent, created |-> req[q].at,
                         status |-> status, by |-> None])
  /\ audit' = Append(audit, <<status>>)
  /\ Answer(q, "new", Len(row) + 1)

InsertResponse(q) ==
  /\ req[q].pc = "insert" /\ req[q].intent.kind = "response"
  /\ AddRow(q, "recorded")
  /\ UNCHANGED <<pauseVars, now, calls>>

\* The commands of an actor that count against a request's limit.
Counted(q) ==
  {i \in Ids : /\ IsCommand(i)
               /\ row[i].intent.actor = req[q].intent.actor
               /\ row[i].created + RateWindow >= req[q].at}

\* idx_scrum_responses_command_idem: the command rows that hold the key.
Holders(key) == {i \in Ids : IsCommand(i) /\ row[i].intent.key = key}

\* Mutant of InsertCommand: without the unique index.
InsertCommandNoIndex(q) ==
  /\ req[q].pc = "insert" /\ req[q].intent.kind = "command"
  /\ IF Cardinality(Counted(q)) < RateLimit
       THEN AddRow(q, "queued")
       ELSE req' = [req EXCEPT ![q].pc = "lookup"] /\ UNCHANGED rowVars
  /\ UNCHANGED <<pauseVars, now, calls>>

\* Mutant of InsertCommand: the limit is off by one.
InsertCommandPastLimit(q) ==
  /\ req[q].pc = "insert" /\ req[q].intent.kind = "command"
  /\ IF Cardinality(Counted(q)) <= RateLimit /\ Holders(req[q].intent.key) = {}
       THEN AddRow(q, "queued")
       ELSE req' = [req EXCEPT ![q].pc = "lookup"] /\ UNCHANGED rowVars
  /\ UNCHANGED <<pauseVars, now, calls>>

\* INSERT_COMMAND_LIMITED: count, conflict check and insert in one statement.
InsertCommand(q) ==
  /\ req[q].pc = "insert" /\ req[q].intent.kind = "command"
  /\ IF Cardinality(Counted(q)) < RateLimit /\ Holders(req[q].intent.key) = {}
       THEN AddRow(q, "queued")
       ELSE req' = [req EXCEPT ![q].pc = "lookup"] /\ UNCHANGED rowVars
  /\ UNCHANGED <<pauseVars, now, calls>>

\* Mutant of LookupKey: the row that holds the key is replayed unseen.
LookupKeyUnseen(q) ==
  /\ req[q].pc = "lookup"
  /\ \/ \E i \in Holders(req[q].intent.key) : Answer(q, "same", i)
     \/ Holders(req[q].intent.key) = {} /\ Answer(q, "limited", 0)
  /\ UNCHANGED <<rowVars, pauseVars, now, calls>>

\* The insert added nothing: replay the row that holds the key, or 429.
LookupKey(q) ==
  /\ req[q].pc = "lookup"
  /\ \/ \E i \in Holders(req[q].intent.key) : ReplayOrConflict(q, i)
     \/ Holders(req[q].intent.key) = {} /\ Answer(q, "limited", 0)
  /\ UNCHANGED <<rowVars, pauseVars, now, calls>>

-------------------------------------------------------------------------------
(* POST /scrum/desk/pause *)

\* AUDIT_PAUSE, which reads the old value, then SET_PAUSE, in one transaction.
\* One that leaves the switch as it is only adds its entry, which is left out.
SetPause(b) ==
  /\ b # paused /\ Len(pauseLog) < MaxPauses
  /\ pauseLog' = Append(pauseLog, [from |-> paused, to |-> b])
  /\ paused' = b
  /\ UNCHANGED <<rowVars, now, req, calls>>

-------------------------------------------------------------------------------
(* POST /scrum/responses/{id}/consume and /result *)

Op == {"consume", "done", "failed"}
FinalStep == {"ok", "paused", "refused"}
Step == {"read", "pause", "update", "recheck"} \cup FinalStep

NewCall(by, i, op) ==
  [by |-> by, id |-> i, op |-> op, found |-> None, live |-> TRUE,
   step |-> IF op = "consume" THEN "read" ELSE "update"]

\* The call goes on to step s; an answer nobody waits for is dropped.
Goto(c, s) ==
  calls' = (calls \ {c}) \cup
             (IF s \in FinalStep /\ ~c.live THEN {} ELSE {[c EXCEPT !.step = s]})

\* KIND_STATUS; a response goes straight to its conditional UPDATE.
ReadRow(c) ==
  /\ c.step = "read"
  /\ calls' = (calls \ {c}) \cup
                {[c EXCEPT !.found = row[c.id].status,
                           !.step = IF IsCommand(c.id) THEN "pause" ELSE "update"]}
  /\ UNCHANGED <<rowVars, pauseVars, now, req>>

\* GET_PAUSE before the claim: 423 while the desk is paused.
ReadPause(c) ==
  /\ c.step = "pause"
  /\ Goto(c, IF paused THEN "paused" ELSE "update")
  /\ UNCHANGED <<rowVars, pauseVars, now, req>>

\* Mutant of Target: the status is the operation's name.
TargetAsAsked(c) == c.op

\* The status the call's UPDATE sets.
Target(c) ==
  IF c.op # "consume" THEN c.op ELSE IF IsCommand(c.id) THEN "running" ELSE "consumed"

\* Mutant of Allowed: the pause is checked before the claim only.
AllowedWhilePaused(c) ==
  CASE c.op # "consume" -> IsCommand(c.id) /\ row[c.id].status = "running"
    [] c.op = "consume" /\ IsCommand(c.id) -> row[c.id].status = "queued"
    [] OTHER -> row[c.id].status = "recorded"

\* Mutant of Allowed: RESULT_COMMAND without its status guard.
AllowedFromAny(c) ==
  CASE c.op # "consume" -> IsCommand(c.id)
    [] c.op = "consume" /\ IsCommand(c.id) -> row[c.id].status = "queued" /\ ~paused
    [] OTHER -> row[c.id].status = "recorded"

\* The WHERE clause of CLAIM_COMMAND, RESULT_COMMAND and the response UPDATE.
Allowed(c) ==
  CASE c.op # "consume" -> IsCommand(c.id) /\ row[c.id].status = "running"
    [] c.op = "consume" /\ IsCommand(c.id) -> row[c.id].status = "queued" /\ ~paused
    [] OTHER -> row[c.id].status = "recorded"

\* Mutant of Update: the audit entry is written whether or not a row changed.
UpdateLogged(c) ==
  /\ c.step = "update"
  /\ row' = IF Allowed(c) THEN [row EXCEPT ![c.id].status = Target(c)] ELSE row
  /\ audit' = [audit EXCEPT ![c.id] = Append(@, Target(c))]
  /\ Goto(c, IF Allowed(c) THEN "ok" ELSE "refused")
  /\ UNCHANGED <<pauseVars, now, req>>

\* The conditional UPDATE with AUDIT_IF_CHANGED, in one transaction.
Update(c) ==
  /\ c.step = "update"
  /\ IF Allowed(c)
       THEN /\ row' = [row EXCEPT ![c.id].status = Target(c),
                                  ![c.id].by = IF c.op = "consume" THEN c.by ELSE @]
            /\ audit' = [audit EXCEPT ![c.id] = Append(@, Target(c))]
            /\ Goto(c, "ok")
       ELSE /\ Goto(c, IF IsCommand(c.id) /\ c.op = "consume" /\ c.found = "queued"
                         THEN "recheck" ELSE "refused")
            /\ UNCHANGED rowVars
  /\ UNCHANGED <<pauseVars, now, req>>

\* A claim refused although the row was queued: did a pause come in between?
Recheck(c) ==
  /\ c.step = "recheck"
  /\ Goto(c, IF paused THEN "paused" ELSE "refused")
  /\ UNCHANGED <<rowVars, pauseVars, now, req>>

CallStep(c) == ReadRow(c) \/ ReadPause(c) \/ Update(c) \/ Recheck(c)

Advance ==
  /\ now < MaxTime
  /\ now' = now + 1
  /\ UNCHANGED <<rowVars, pauseVars, req, calls>>

-------------------------------------------------------------------------------
InitStore ==
  /\ row = <<>> /\ audit = <<>>
  /\ paused = FALSE /\ pauseLog = <<>>
  /\ now = 0
  /\ req = [q \in Requests |-> NoRequest]
  /\ calls = {}

RequestStep(q) ==
  \/ \E in \in Intents : Receive(q, in)
  \/ SelectKey(q)
  \/ InsertResponse(q)
  \/ InsertCommand(q)
  \/ LookupKey(q)

NextStore ==
  \/ \E q \in Requests : RequestStep(q)
  \/ \E b \in BOOLEAN : SetPause(b)
  \/ \E c \in calls : CallStep(c)
  \/ Advance

-------------------------------------------------------------------------------
(* Properties *)

StoreTyped ==
  /\ row \in Seq([intent : Intents, created : 0..MaxTime, status : Status,
                  by : Callers \cup {None}])
  /\ audit \in Seq(Seq(Status))
  /\ paused \in BOOLEAN
  /\ pauseLog \in Seq([from : BOOLEAN, to : BOOLEAN])
  /\ now \in 0..MaxTime
  /\ req \in [Requests ->
       [pc : {"idle", "select", "insert", "lookup", "answered"}, intent : Intents \cup {None},
        at : 0..MaxTime, reply : Reply \cup {None}, id : Nat]]
  /\ calls \subseteq [by : Callers, id : Ids, op : Op, step : Step,
                      found : Status \cup {None}, live : BOOLEAN]

(***************************************************************************)
(* The audit trail is each row's whole history: its entries are the one    *)
(* legal path to the row's status, without a gap, a repeat or an entry for *)
(* a change that was refused (AUDIT_IF_CHANGED, "Each audit row is written *)
(* in the same transaction as the change it records").  In particular a    *)
(* finished command stays as it was first reported.                        *)
(***************************************************************************)
AuditIsHistory ==
  /\ DOMAIN audit = DOMAIN row
  /\ \A i \in Ids : audit[i] = Path[row[i].status]

(***************************************************************************)
(* One command per Idempotency-Key, however many retries are in flight     *)
(* (DESK_INDEX_DDL: "simultaneous retries cannot both insert").            *)
(***************************************************************************)
OneCommandPerKey ==
  \A i, j \in Ids :
    IsCommand(i) /\ IsCommand(j) /\ row[i].intent.key = row[j].intent.key => i = j

(***************************************************************************)
(* A request that is answered with a row is answered with a row that says  *)
(* what it asked for, and a 409 names a row that says something else: no   *)
(* request is silently taken for a different one (_replay_or_conflict).    *)
(***************************************************************************)
AnswersAreTrue ==
  \A q \in Requests :
    /\ req[q].reply \in {"new", "same"} => row[req[q].id].intent = req[q].intent
    /\ req[q].reply = "conflict" => row[req[q].id].intent # req[q].intent

(***************************************************************************)
(* No actor ever queues more than RateLimit commands within RateWindow,    *)
(* whichever hour one looks at and however the requests interleave         *)
(* (INSERT_COMMAND_LIMITED counts and inserts in one statement).           *)
(***************************************************************************)
RateIsHeld ==
  \A i \in Ids :
    LET hour == {j \in Ids : /\ IsCommand(j)
                             /\ row[j].intent.actor = row[i].intent.actor
                             /\ row[j].created \in row[i].created..(row[i].created + RateWindow)}
    IN Cardinality(hour) <= RateLimit

(***************************************************************************)
(* "A repeat of the same idempotency_key within 10s returns the existing   *)
(* row" (insert_scrum_response): two responses with one key were created   *)
(* more than IdemWindow apart.                                             *)
(***************************************************************************)
RepeatReturnsExisting ==
  \A i, j \in Ids :
    i < j /\ row[i].intent.kind = "response" /\ row[i].intent = row[j].intent
      /\ row[i].intent.key # None
      => row[j].created > row[i].created + IdemWindow

(***************************************************************************)
(* A pause is never overtaken: no command starts to run while the desk is  *)
(* paused, also when the pause came after the claim had read the switch    *)
(* (the guard in CLAIM_COMMAND).                                           *)
(***************************************************************************)
PauseIsRespected ==
  [][\A i \in Ids : row[i].status = "queued" /\ row'[i].status # "queued" => ~paused]_storeVars
===============================================================================
