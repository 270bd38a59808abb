------------------------------ MODULE TaskQueue ------------------------------
(***************************************************************************)
(* The task queue and the workers that poll it: the rows and operations of *)
(* orchestrator/db.py and orchestrator/db_rqlite.py, the routes of         *)
(* orchestrator/main.py that call them, and the Poller of                  *)
(* worker/poller.py with the HTTP calls between the two.                   *)
(*                                                                         *)
(* A request is answered in time (it executes and the worker sees the      *)
(* answer in one step) or abandoned: the worker times out or sees a 5xx,   *)
(* moves on, and the abandoned request may still execute at any later      *)
(* time, or never.  A request that executed but whose answer was lost is   *)
(* an abandoned one that executes at once.                                 *)
(***************************************************************************)
EXTENDS Naturals, FiniteSets

CONSTANTS
  Tasks,           \* task ids, numbered in the order of their creation
  Workers,         \* worker machines
  None,            \* an unset machine, result or spool file
  Caps,            \* Caps[w]: CAPABILITIES of worker w
  Bodies,          \* the task bodies clients may submit
  Primary,         \* DEFAULT_PREFERRED_MACHINE
  PreferPrimary,   \* PREFER_PRIMARY_TYPES
  Backend,         \* "rqlite" or "sqlite": QUEUE_BACKEND
  MaxConcurrent,   \* MAX_CONCURRENT of every worker; 0 is unlimited
  Endpoints,       \* number of orchestrators a worker knows
  MaxSends,        \* sends of one report: _REPORT_ATTEMPTS x Endpoints
  MaxEpochs,       \* bound: how often one task may become pending
  MaxFaults,       \* bound: how many requests are abandoned and workers crash, in all
  Reliable         \* workers that keep polling (only the fairness uses it)

ASSUME QueueAssumption ==
  /\ Tasks \subseteq Nat
  /\ Backend \in {"rqlite", "sqlite"}
  /\ {MaxConcurrent, MaxFaults} \subseteq Nat
  /\ {Endpoints, MaxSends, MaxEpochs} \subseteq Nat \ {0}
  /\ Reliable \subseteq Workers
  /\ \A b \in Bodies : /\ b = [type |-> b.type, prio |-> b.prio, pin |-> b.pin, pref |-> b.pref]
                       /\ b.prio \in 0..10

\* None is none of the things it stands for the absence of.
ASSUME NoneAssumption ==
  LET Runs == Tasks \X (1..MaxEpochs) IN
  None \notin Workers \cup Runs \cup [run : Runs, error : BOOLEAN]

VARIABLES
  \* The rows of the tasks table.
  status,     \* status; "absent" before the row exists
  body,       \* type, priority, _target_machine (pin), _preferred_machine (pref)
  assigned,   \* assigned_to
  result,     \* whose result the row holds: [run, error], or None
  finished,   \* tasks whose finished_at is set
  \* The clock, as far as the code looks at it.
  aged,       \* tasks created at least OVERFLOW_GRACE_SECS ago
  stale,      \* held tasks not updated for STALE_TASK_SECS
  \* Counts the code does not keep: they name the hand-outs.
  epochs,     \* how often the task became pending
  claims,     \* how often the task was claimed
  \* The sqlite backend, between a SELECT and its UPDATE.
  picked,     \* claims that selected a row: [worker, task, live]
  stuck,      \* the rows a reaper selected
  \* The workers.
  run,        \* run[<<t, n>>]: what became of the n-th claim of task t
  active,     \* active_tasks, as the set of runs its entries stand for
  asked,      \* the endpoint the poll loop is waiting for; 0 when it is not
  spool,      \* data/unreported/<task>.json on the worker: a run, or None
  unsaved,    \* history: the runs whose spool file could not be written
  \* Requests nobody waits for any more.
  ghost,      \* abandoned claims of a worker that may still execute
  late,       \* abandoned reports that may still execute: [run, kind, send]
  faults      \* abandoned requests and crashes so far (for the bound)

rowVars == <<status, body, assigned, result, finished>>
clockVars == <<aged, stale>>
countVars == <<epochs, claims>>
sqliteVars == <<picked, stuck>>
spoolVars == <<spool, unsaved>>
workerVars == <<run, active, asked, spoolVars>>
netVars == <<ghost, late, faults>>
vars == <<rowVars, clockVars, countVars, sqliteVars, workerVars, netVars>>

Held == {"claimed", "in_progress"}
Terminal == {"done", "failed", "needs_human"}
Status == {"absent", "pending"} \cup Held \cup Terminal
Run == Tasks \X (1..MaxEpochs)
Outcome == {"none", "complete", "human", "human_bare"}
Reporting == {"starting", "keeping", "closing", "failing"}
Phase == {"none", "orphan", "working", "ended", "dead"} \cup Reporting
Kind == {"start", "result", "complete", "needs_human", "fail"}

\* A request goes astray or a worker dies.
Fault == faults < MaxFaults /\ faults' = faults + 1

RunRecord ==
  [worker : Workers \cup {None}, phase : Phase, sends : 1..MaxSends, outcome : Outcome]
\* A run on worker w entering phase p, where the first send is still to come.
Entering(w, p, o) == [worker |-> w, phase |-> p, sends |-> 1, outcome |-> o]
NoRun == Entering(None, "none", "none")

-------------------------------------------------------------------------------
(* Orchestrator operations on the rows *)

\* POST /tasks gives an agent-style task that names no machine the primary one.
WithPlacement(b) ==
  IF b.type \in PreferPrimary /\ Primary # None /\ b.pin = None /\ b.pref = None
    THEN [b EXCEPT !.pref = Primary] ELSE b

PlacedBodies == {WithPlacement(b) : b \in Bodies}

CreateTask(t, b) ==
  /\ status[t] = "absent"
  /\ \A u \in Tasks : u < t => status[u] # "absent"
  /\ status' = [status EXCEPT ![t] = "pending"]
  /\ body' = [body EXCEPT ![t] = WithPlacement(b)]
  /\ epochs' = [epochs EXCEPT ![t] = 1]
  /\ UNCHANGED <<assigned, result, finished, clockVars, claims, sqliteVars,
                 workerVars, netVars>>

\* Mutant of Eligible: a claimed row is handed out again.
EligibleAgain(w, t) ==
  /\ status[t] \in {"pending", "claimed"}
  /\ body[t].type \in Caps[w]
  /\ \/ body[t].pin = w
     \/ body[t].pin = None /\ (body[t].pref \in {None, w} \/ t \in aged)

\* Mutant of Eligible: a preference never expires.
EligibleForever(w, t) ==
  /\ status[t] = "pending"
  /\ body[t].type \in Caps[w]
  /\ body[t].pin = w \/ (body[t].pin = None /\ body[t].pref \in {None, w})

Eligible(w, t) ==
  /\ status[t] = "pending"
  /\ body[t].type \in Caps[w]
  /\ \/ body[t].pin = w
     \/ body[t].pin = None /\ (body[t].pref \in {None, w} \/ t \in aged)

\* ORDER BY priority DESC, created_at ASC
Before(t, u) ==
  body[t].prio > body[u].prio \/ (body[t].prio = body[u].prio /\ t <= u)

\* The row the claim's SELECT ... LIMIT 1 returns: one task or none.
NextFor(w) ==
  {t \in Tasks : Eligible(w, t) /\ \A u \in Tasks : Eligible(w, u) => Before(t, u)}

\* UPDATE tasks SET status='claimed', ...; the run it starts is in phase p.
ClaimRow(w, t, p) ==
  /\ status' = [status EXCEPT ![t] = "claimed"]
  /\ assigned' = [assigned EXCEPT ![t] = w]
  /\ stale' = stale \ {t}
  /\ claims' = [claims EXCEPT ![t] = @ + 1]
  /\ run' = [run EXCEPT ![<<t, claims[t] + 1>>] = Entering(w, p, "none")]

\* The status each report sets; the "result" report sets none.
StatusReported ==
  [start |-> "in_progress", complete |-> "done", needs_human |-> "needs_human",
   fail |-> "failed"]

\* update_task as a report of run r: an UPDATE by id, whatever the row says now.
UpdateTask(r, kind) ==
  LET t == r[1] IN
  /\ status' = IF kind = "result" THEN status
               ELSE [status EXCEPT ![t] = StatusReported[kind]]
  /\ result' = IF kind \in {"result", "complete", "fail"}
                 THEN [result EXCEPT ![t] = [run |-> r, error |-> kind = "fail"]]
                 ELSE result
  /\ finished' = IF kind \in {"complete", "needs_human", "fail"}
                   THEN finished \cup {t} ELSE finished
  /\ stale' = stale \ {t}
  /\ UNCHANGED <<body, assigned, aged, countVars, sqliteVars>>

\* PATCH /tasks/{id} from the owner (da resolve): no status is refused.
Resolve(t, s) ==
  /\ status[t] # "absent"
  /\ s = "pending" /\ status[t] # "pending" => epochs[t] < MaxEpochs
  /\ status' = [status EXCEPT ![t] = s]
  /\ epochs' = [epochs EXCEPT ![t] =
                  IF s = "pending" /\ status[t] # "pending" THEN @ + 1 ELSE @]
  /\ finished' = IF s \in Terminal THEN finished \cup {t} ELSE finished
  /\ stale' = stale \ {t}
  /\ UNCHANGED <<body, assigned, result, aged, claims, sqliteVars, workerVars, netVars>>

\* Mutant of ReapRows: the reaper puts the rows back in the queue.
ReapRowsRequeue(S) ==
  /\ status' = [t \in Tasks |-> IF t \in S THEN "pending" ELSE status[t]]
  /\ stale' = stale \ S
  /\ UNCHANGED <<body, assigned, result, finished, aged, countVars, workerVars, netVars>>

ReapRows(S) ==
  /\ status' = [t \in Tasks |-> IF t \in S THEN "needs_human" ELSE status[t]]
  /\ stale' = stale \ S
  /\ UNCHANGED <<body, assigned, result, finished, aged, countVars, workerVars, netVars>>

\* Mutant of StuckRows: only rows whose work was never started.
StuckRowsClaimed == {t \in stale : status[t] = "claimed"}

StuckRows == {t \in stale : status[t] \in Held}

\* rqlite: one conditional UPDATE ... RETURNING.
ReapStale ==
  /\ Backend = "rqlite"
  /\ StuckRows # {}
  /\ ReapRows(StuckRows)
  /\ UNCHANGED sqliteVars

\* sqlite: SELECT the stuck rows, then UPDATE each that is still held.
ReapSelect ==
  /\ Backend = "sqlite"
  /\ stuck = {} /\ StuckRows # {}
  /\ stuck' = StuckRows
  /\ UNCHANGED <<rowVars, clockVars, countVars, picked, workerVars, netVars>>

ReapUpdate ==
  /\ stuck # {}
  /\ ReapRows({t \in stuck : status[t] \in Held})
  /\ stuck' = {}
  /\ UNCHANGED picked

\* ensure_schema at an orchestrator's start fills in a missing finished_at.
Backfill ==
  /\ \E t \in Tasks \ finished : status[t] \in Terminal
  /\ finished' = finished \cup {t \in Tasks : status[t] \in Terminal}
  /\ UNCHANGED <<status, body, assigned, result, clockVars, countVars, sqliteVars,
                 workerVars, netVars>>

-------------------------------------------------------------------------------
(* The clock *)

GraceElapses(t) ==
  /\ status[t] # "absent" /\ t \notin aged
  /\ aged' = aged \cup {t}
  /\ UNCHANGED <<rowVars, stale, countVars, sqliteVars, workerVars, netVars>>

BecomesStale(t) ==
  /\ status[t] \in Held /\ t \notin stale
  /\ stale' = stale \cup {t}
  /\ UNCHANGED <<rowVars, aged, countVars, sqliteVars, workerVars, netVars>>

-------------------------------------------------------------------------------
(* The poll loop of a worker *)

\* Mutant of Poll: the cap itself still lets one more in.
PollPastCap(w) ==
  /\ asked[w] = 0
  /\ MaxConcurrent = 0 \/ Cardinality(active[w]) <= MaxConcurrent
  /\ asked' = [asked EXCEPT ![w] = 1]
  /\ UNCHANGED <<rowVars, clockVars, countVars, sqliteVars, run, active, spoolVars, netVars>>

\* _poll_once: at the cap it does not claim.
Poll(w) ==
  /\ asked[w] = 0
  /\ MaxConcurrent = 0 \/ Cardinality(active[w]) < MaxConcurrent
  /\ asked' = [asked EXCEPT ![w] = 1]
  /\ UNCHANGED <<rowVars, clockVars, countVars, sqliteVars, run, active, spoolVars, netVars>>

\* The worker has the answer: the task is appended to active_tasks and started.
TakeUp(w, t) ==
  /\ ClaimRow(w, t, "starting")
  /\ active' = [active EXCEPT ![w] = @ \cup {<<t, claims[t] + 1>>}]

NothingClaimed ==
  UNCHANGED <<status, assigned, stale, claims, run, active>>

LivePicks(w) == {p \in picked : p.worker = w /\ p.live}

\* rqlite: one UPDATE ... WHERE id = (SELECT ...) AND status = 'pending' RETURNING.
ClaimAnswered(w) ==
  /\ Backend = "rqlite"
  /\ asked[w] > 0
  /\ \/ \E t \in NextFor(w) : TakeUp(w, t)
     \/ NextFor(w) = {} /\ NothingClaimed
  /\ asked' = [asked EXCEPT ![w] = 0]
  /\ UNCHANGED <<body, result, finished, aged, epochs, sqliteVars, spoolVars, netVars>>

\* An abandoned claim executes: nobody will run the task it takes.
GhostClaim(w) ==
  /\ Backend = "rqlite"
  /\ ghost[w] > 0
  /\ \/ \E t \in NextFor(w) : ClaimRow(w, t, "orphan")
     \/ NextFor(w) = {} /\ UNCHANGED <<status, assigned, stale, claims, run>>
  /\ ghost' = [ghost EXCEPT ![w] = @ - 1]
  /\ UNCHANGED <<body, result, finished, aged, epochs, sqliteVars, active, asked,
                 spoolVars, late, faults>>

\* sqlite: the SELECT of a claim that is waited for (live) or was abandoned.
ClaimSelect(w, live) ==
  /\ Backend = "sqlite"
  /\ IF live THEN asked[w] > 0 /\ LivePicks(w) = {} ELSE ghost[w] > 0
  /\ picked' = picked \cup {[worker |-> w, task |-> t, live |-> live] : t \in NextFor(w)}
  /\ asked' = IF live /\ NextFor(w) = {} THEN [asked EXCEPT ![w] = 0] ELSE asked
  /\ ghost' = IF live THEN ghost ELSE [ghost EXCEPT ![w] = @ - 1]
  /\ UNCHANGED <<rowVars, clockVars, countVars, stuck, run, active, spoolVars, late, faults>>

\* Mutant of ClaimUpdate: an UPDATE by id alone.
ClaimUpdateById(p) ==
  /\ p \in picked
  /\ picked' = picked \ {p}
  /\ asked' = IF p.live THEN [asked EXCEPT ![p.worker] = 0] ELSE asked
  /\ IF p.live THEN TakeUp(p.worker, p.task)
     ELSE ClaimRow(p.worker, p.task, "orphan") /\ UNCHANGED active
  /\ UNCHANGED <<body, result, finished, aged, epochs, stuck, spoolVars, netVars>>

\* sqlite: the UPDATE that follows, guarded by status = 'pending'.
ClaimUpdate(p) ==
  /\ p \in picked
  /\ picked' = picked \ {p}
  /\ asked' = IF p.live THEN [asked EXCEPT ![p.worker] = 0] ELSE asked
  /\ IF status[p.task] # "pending" THEN NothingClaimed
     ELSE IF p.live THEN TakeUp(p.worker, p.task)
     ELSE ClaimRow(p.worker, p.task, "orphan") /\ UNCHANGED active
  /\ UNCHANGED <<body, result, finished, aged, epochs, stuck, spoolVars, netVars>>

\* The poll loop gives its request up, and the request never executes ...
LoseClaim(w) ==
  /\ picked' = picked \ LivePicks(w)
  /\ UNCHANGED ghost

\* ... or will only execute later, all of it or what follows its SELECT.
DelayClaim(w) ==
  /\ asked[w] > 0
  /\ picked' = (picked \ LivePicks(w)) \cup {[p EXCEPT !.live = FALSE] : p \in LivePicks(w)}
  /\ ghost' = IF LivePicks(w) = {} THEN [ghost EXCEPT ![w] = @ + 1] ELSE ghost

\* _send: no usable answer from one endpoint, on to the next one, or give up.
PollTimeout(w) ==
  /\ asked[w] > 0
  /\ \/ LoseClaim(w) /\ UNCHANGED faults
     \/ DelayClaim(w) /\ Fault
  /\ asked' = [asked EXCEPT ![w] = IF @ < Endpoints THEN @ + 1 ELSE 0]
  /\ UNCHANGED <<rowVars, clockVars, countVars, stuck, run, active, spoolVars, late>>

-------------------------------------------------------------------------------
(* _run_task: one claimed task on its worker *)

\* The report a run makes in a phase, and the phase a delivered report leads to.
ReportIn == [starting |-> "start", keeping |-> "result", failing |-> "fail"]
PhaseAfter ==
  [starting |-> "working", keeping |-> "closing", closing |-> "ended", failing |-> "ended"]

KindOf(r) ==
  IF run[r].phase # "closing" THEN ReportIn[run[r].phase]
  ELSE IF run[r].outcome = "complete" THEN "complete" ELSE "needs_human"

\* Mutant of Advance: the id is dropped after /complete, not in a finally clause.
AdvanceCompleted(r, p) ==
  /\ run' = [run EXCEPT ![r] = Entering(@.worker, p, @.outcome)]
  /\ active' = IF run[r].phase = "closing" /\ run[r].outcome = "complete" /\ p = "ended"
                 THEN [active EXCEPT ![run[r].worker] = {x \in @ : x[1] # r[1]}]
                 ELSE active

\* The run goes to phase p; at its end the finally clause drops the task's id.
Advance(r, p) ==
  /\ run' = [run EXCEPT ![r] = Entering(@.worker, p, @.outcome)]
  /\ active' = IF p = "ended"
                 THEN [active EXCEPT ![run[r].worker] = {x \in @ : x[1] # r[1]}]
                 ELSE active

\* Mutant of SpoolUnreported: the outcome is only logged.
SpoolUnreportedLogged(r) == r \in Run /\ UNCHANGED spoolVars

\* _spool_unreported writes data/unreported/<task id>.json, over an older file.
\* An OSError is only logged: the older file, if any, is still there or cut off.
SpoolUnreported(r) ==
  \/ /\ spool' = [spool EXCEPT ![run[r].worker][r[1]] = r]
     /\ UNCHANGED unsaved
  \/ /\ spool' \in {spool, [spool EXCEPT ![run[r].worker][r[1]] = None]}
     /\ unsaved' = unsaved \cup {r}

\* dispatch returns; a handler that raises is a needs_human without output.
HandlerEnds(r, o) ==
  /\ run[r].phase = "working"
  /\ run' = [run EXCEPT ![r] =
               Entering(@.worker, IF o = "human" THEN "keeping" ELSE "closing", o)]
  /\ UNCHANGED <<rowVars, clockVars, countVars, sqliteVars, active, asked, spoolVars, netVars>>

ReportAnswered(r) ==
  /\ run[r].phase \in Reporting
  /\ UpdateTask(r, KindOf(r))
  /\ Advance(r, PhaseAfter[run[r].phase])
  /\ UNCHANGED <<asked, spoolVars, netVars>>

CopyOf(r) == [run |-> r, kind |-> KindOf(r), send |-> run[r].sends]

\* Mutant of ReportUnanswered: the attempts are counted from 0, one too many.
ReportUnansweredOnceMore(r) ==
  /\ run[r].phase \in Reporting
  /\ Fault
  /\ late' = late \cup {CopyOf(r)}
  /\ IF run[r].sends <= MaxSends
       THEN run' = [run EXCEPT ![r].sends = @ + 1] /\ UNCHANGED <<active, spoolVars>>
       ELSE /\ Advance(r, IF run[r].phase = "failing" THEN "ended" ELSE "failing")
            /\ IF run[r].phase \in {"keeping", "closing"}
                 THEN SpoolUnreported(r) ELSE UNCHANGED spoolVars
  /\ UNCHANGED <<rowVars, clockVars, countVars, sqliteVars, asked, ghost>>

\* Mutant of ReportUnanswered: the last 5xx answer is taken for a success.
ReportUnansweredTaken(r) ==
  /\ run[r].phase \in Reporting
  /\ Fault
  /\ late' = late \cup {CopyOf(r)}
  /\ IF run[r].sends < MaxSends
       THEN run' = [run EXCEPT ![r].sends = @ + 1] /\ UNCHANGED active
       ELSE Advance(r, PhaseAfter[run[r].phase])
  /\ UNCHANGED <<rowVars, clockVars, countVars, sqliteVars, asked, spoolVars, ghost>>

\* _report: send again, or after the last send raise: the outcome of work that
\* ran is spooled, then /fail is reported; if that fails too it is only logged.
ReportUnanswered(r) ==
  /\ run[r].phase \in Reporting
  /\ Fault
  /\ late' = late \cup {CopyOf(r)}
  /\ IF run[r].sends < MaxSends
       THEN run' = [run EXCEPT ![r].sends = @ + 1] /\ UNCHANGED <<active, spoolVars>>
       ELSE /\ Advance(r, IF run[r].phase = "failing" THEN "ended" ELSE "failing")
            /\ IF run[r].phase \in {"keeping", "closing"}
                 THEN SpoolUnreported(r) ELSE UNCHANGED spoolVars
  /\ UNCHANGED <<rowVars, clockVars, countVars, sqliteVars, asked, ghost>>

LateReport(c) ==
  /\ c \in late
  /\ late' = late \ {c}
  /\ UpdateTask(c.run, c.kind)
  /\ UNCHANGED <<workerVars, ghost, faults>>

\* The worker process dies and is started again: its runs and its poll are gone.
Crash(w) ==
  LET dying == {r \in Run : run[r].worker = w /\ run[r].phase \in Reporting \cup {"working"}}
  IN
  /\ asked[w] > 0 \/ dying # {}
  /\ Fault
  /\ run' = [r \in Run |-> IF r \in dying THEN [run[r] EXCEPT !.phase = "dead"] ELSE run[r]]
  /\ active' = [active EXCEPT ![w] = {}]
  /\ asked' = [asked EXCEPT ![w] = 0]
  /\ late' = late \cup {CopyOf(r) : r \in {x \in dying : run[x].phase # "working"}}
  /\ LoseClaim(w) \/ DelayClaim(w)
  /\ UNCHANGED <<rowVars, clockVars, countVars, stuck, spoolVars>>

-------------------------------------------------------------------------------
Init ==
  /\ status = [t \in Tasks |-> "absent"]
  /\ body = [t \in Tasks |-> None]
  /\ assigned = [t \in Tasks |-> None]
  /\ result = [t \in Tasks |-> None]
  /\ finished = {} /\ aged = {} /\ stale = {}
  /\ epochs = [t \in Tasks |-> 0]
  /\ claims = [t \in Tasks |-> 0]
  /\ picked = {} /\ stuck = {}
  /\ run = [r \in Run |-> NoRun]
  /\ active = [w \in Workers |-> {}]
  /\ asked = [w \in Workers |-> 0]
  /\ spool = [w \in Workers |-> [t \in Tasks |-> None]]
  /\ unsaved = {}
  /\ ghost = [w \in Workers |-> 0]
  /\ late = {}
  /\ faults = 0

OrchestratorStep ==
  \/ \E t \in Tasks, b \in Bodies : CreateTask(t, b)
  \/ \E t \in Tasks, s \in {"done", "failed", "pending"} : Resolve(t, s)
  \/ ReapStale
  \/ ReapSelect
  \/ ReapUpdate
  \/ Backfill
  \/ \E p \in picked : ClaimUpdate(p)
  \/ \E c \in late : LateReport(c)

WorkerStep(w) ==
  \/ Poll(w)
  \/ PollTimeout(w)
  \/ ClaimAnswered(w)
  \/ GhostClaim(w)
  \/ \E live \in BOOLEAN : ClaimSelect(w, live)
  \/ Crash(w)

RunStep(r) ==
  \/ \E o \in Outcome \ {"none"} : HandlerEnds(r, o)
  \/ ReportAnswered(r)
  \/ ReportUnanswered(r)

Next ==
  \/ OrchestratorStep
  \/ \E t \in Tasks : GraceElapses(t) \/ BecomesStale(t)
  \/ \E w \in Workers : WorkerStep(w)
  \/ \E r \in Run : RunStep(r)

Spec == Init /\ [][Next]_vars

\* Time passes and the reaper loops; the loops of a reliable worker keep turning,
\* some request of it is answered again and again, and its handlers return.
Fairness ==
  /\ \A t \in Tasks : WF_vars(BecomesStale(t)) /\ WF_vars(GraceElapses(t))
  /\ WF_vars(ReapStale) /\ WF_vars(ReapSelect) /\ WF_vars(ReapUpdate)
  /\ \A w \in Reliable :
       /\ WF_vars(Poll(w))
       /\ SF_vars(ClaimAnswered(w)) /\ SF_vars(ClaimSelect(w, TRUE))
       /\ SF_vars(\E p \in LivePicks(w) : ClaimUpdate(p))
  /\ \A r \in Run : WF_vars(run[r].worker \in Reliable /\ RunStep(r))

FairSpec == Spec /\ Fairness

-------------------------------------------------------------------------------
(* Properties *)

RowsTyped ==
  /\ status \in [Tasks -> Status]
  /\ body \in [Tasks -> PlacedBodies \cup {None}]
  /\ assigned \in [Tasks -> Workers \cup {None}]
  /\ result \in [Tasks -> [run : Run, error : BOOLEAN] \cup {None}]
  /\ finished \subseteq Tasks

CountsTyped ==
  /\ aged \subseteq Tasks /\ stale \subseteq Tasks
  /\ epochs \in [Tasks -> 0..MaxEpochs]
  /\ claims \in [Tasks -> 0..MaxEpochs]
  /\ picked \subseteq [worker : Workers, task : Tasks, live : BOOLEAN]
  /\ stuck \subseteq Tasks

WorkersTyped ==
  /\ run \in [Run -> RunRecord]
  /\ active \in [Workers -> SUBSET Run]
  /\ asked \in [Workers -> 0..Endpoints]
  /\ spool \in [Workers -> [Tasks -> Run \cup {None}]]
  /\ unsaved \subseteq Run

NetTyped ==
  /\ ghost \in [Workers -> Nat]
  /\ late \subseteq [run : Run, kind : Kind, send : 1..MaxSends]
  /\ faults \in 0..MaxFaults

TypeOK == RowsTyped /\ CountsTyped /\ WorkersTyped /\ NetTyped

Ledger == INSTANCE TaskLedger WITH Bodies <- PlacedBodies

(***************************************************************************)
(* Whatever is lost, late, retried or restarted, the rows follow the       *)
(* ledger: hand-outs are atomic, respect capability and pin, and only the  *)
(* owner makes a task pending again.  For the sqlite backend this says its *)
(* SELECT-then-UPDATE claim implements the atomic claim.                   *)
(***************************************************************************)
FollowsLedger == Ledger!Spec

(***************************************************************************)
(* No task is ever claimed twice (docs/ARCHITECTURE.md section 6): a task  *)
(* is handed out at most once each time it became pending.                 *)
(***************************************************************************)
OneHandoutPerEpoch ==
  \A t \in Tasks :
    /\ claims[t] <= epochs[t]
    /\ status[t] = "pending" => claims[t] < epochs[t]

(***************************************************************************)
(* Work that ran to its end leaves its outcome somewhere: in the row, in a *)
(* spool file of the worker for that task, or a later run's report has     *)
(* replaced it.  It is gone only when the worker could not write the spool *)
(* file of that task.  A run's own /fail never wipes an outcome whose file *)
(* was not tried first (_run_task's except clause, _spool_unreported).     *)
(***************************************************************************)
OutcomeKept ==
  \A r \in Run :
    LET t == r[1]
        w == run[r].worker
    IN
    run[r].phase = "ended" /\ run[r].outcome \in {"complete", "human"} =>
      \/ spool[w][t] # None
      \/ result[t] # None /\ ~(result[t].run = r /\ result[t].error)
      \/ \E x \in unsaved : x[1] = t /\ run[x].worker = w

(***************************************************************************)
(* A worker never does work the queue does not know was started: while the *)
(* last claimant of a task works on it, its row has left "claimed"         *)
(* (_run_task reports in_progress, and requires success, before dispatch). *)
(***************************************************************************)
WorkIsAnnounced ==
  \A r \in Run :
    run[r].phase \in {"working", "keeping", "closing"} /\ r[2] = claims[r[1]] =>
      status[r[1]] # "claimed"

Running(w) ==
  {r \in Run : run[r].worker = w /\ run[r].phase \in Reporting \cup {"working"}}

(***************************************************************************)
(* "Max tasks this worker runs at once" (Poller.max_concurrent), as far as *)
(* it holds: as long as none of the running tasks was made pending a       *)
(* second time.  active_tasks is read by the poll loop and written by the  *)
(* runs that end meanwhile.                                                *)
(***************************************************************************)
CapUnlessReopened ==
  MaxConcurrent > 0 =>
    \A w \in Workers :
      (\A r \in Running(w) : epochs[r[1]] = 1) => Cardinality(Running(w)) <= MaxConcurrent

(***************************************************************************)
(* "Results that finished but could not be reported are kept here, never   *)
(* dropped" (worker/poller.py, _UNREPORTED_DIR): as long as every file     *)
(* could be written, a run that ended with an outcome the queue never took *)
(* has that outcome in its worker's spool.                                 *)
(***************************************************************************)
UnreportedNeverDropped ==
  unsaved = {} => \A r \in Run :
    LET t == r[1] IN
    run[r].phase = "ended" /\ run[r].outcome = "complete" /\ result[t] # [run |-> r, error |-> FALSE]
      /\ (\A n \in 1..MaxSends : [run |-> r, kind |-> "complete", send |-> n] \in late)
      => spool[run[r].worker][t] = r

(***************************************************************************)
(* A worker's slots are not leaked: an entry of active_tasks stands for a  *)
(* run of that worker that is still at work, whatever was lost, refused or *)
(* restarted meanwhile, so a worker below its cap is never taken for full. *)
(***************************************************************************)
SlotsAreFreed == \A w \in Workers : active[w] \subseteq Running(w)

(***************************************************************************)
(* A worker that is up never stops asking for work: its slots come free    *)
(* again, whatever became of the reports of its runs (the cap of           *)
(* _poll_once, the finally clause of _run_task).                           *)
(***************************************************************************)
KeepsPolling == \A w \in Reliable : []<>(asked[w] > 0)

(***************************************************************************)
(* No task stays with a worker for ever: after a crash, a lost claim, a    *)
(* report nobody could deliver or a late in_progress, the row leaves       *)
(* claimed/in_progress again (the reaper of orchestrator/main.py).         *)
(***************************************************************************)
HeldIsReleased ==
  \A t \in Tasks : status[t] \in Held ~> status[t] \notin Held

(***************************************************************************)
(* No pending task that some reliable machine may run waits for ever, even *)
(* when the machine it prefers never polls (OVERFLOW_GRACE_SECS).          *)
(***************************************************************************)
PendingIsClaimed ==
  \A t \in Tasks :
    (status[t] = "pending" /\ \E w \in Reliable : Ledger!MayRun(w, body[t]))
      ~> status[t] # "pending"
===============================================================================
