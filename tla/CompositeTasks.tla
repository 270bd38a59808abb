---------------------------- MODULE CompositeTasks ----------------------------
(***************************************************************************)
(* worker/handlers/plan.py, project.py, find.py and morning_brief.py:      *)
(* tasks whose handler puts further tasks in the queue and waits for them  *)
(* while it holds a slot of its worker.  The queue is reduced to rows that *)
(* are claimed when their machine has a slot free (TaskQueue has the       *)
(* rest); a project's record is its status in config/projects.yaml.        *)
(***************************************************************************)
EXTENDS Naturals, Sequences, FiniteSetsExt, Functions

CONSTANTS
  Cap,         \* Cap[m]: MAX_CONCURRENT of machine m
  Home,        \* the machine project tasks are pinned to
  Target,      \* the machine the steps of a plan are pinned to
  Names,       \* projects
  Requests,    \* what the owner asks for: [kind, sub, name]
  MaxRequests, \* bound: requests in a behaviour
  MaxRows,     \* bound: rows in the queue
  PlanShapes,  \* the planner's answers: sequences of BOOLEAN, is the step validated
  MaxSteps,    \* max_steps
  MaxRetries   \* max_retries

CompositeAssumption ==
  /\ {Home, Target} \subseteq DOMAIN Cap /\ \A m \in DOMAIN Cap : Cap[m] \in Nat
  /\ MaxSteps \in Nat \ {0} /\ MaxRetries \in Nat /\ MaxRows \in Nat

VARIABLES
  rows,     \* the queue: [kind, sub, name, machine, parent, st]
  run,      \* run[i]: the handler at work on row i
  project,  \* the registry: the status of each project
  asked     \* requests made

vars == <<rows, run, project, asked>>

Machines == DOMAIN Cap
Rows     == DOMAIN rows
Ended    == {"done", "failed", "needs_human"}
Unknown  == [n \in Names |-> "none"]

Idle == [pc |-> "idle", waits |-> {}, copy |-> Unknown,
         steps |-> <<>>, at |-> 1, executed |-> 0, attempt |-> 0, feedback |-> FALSE]

Row(r, m, parent) == [kind |-> r.kind, sub |-> r.sub, name |-> r.name, machine |-> m,
                      parent |-> parent, st |-> "pending"]

\* The registry outlives the workers: a project may already be planned.
Init ==
  /\ rows = <<>> /\ run = <<>> /\ asked = 0
  /\ project \in {Unknown, [n \in Names |-> "planning"]}

Request(r, m) ==
  /\ asked < MaxRequests /\ Len(rows) < MaxRows /\ asked' = asked + 1
  /\ r.kind = "project" => m = Home
  /\ rows' = Append(rows, Row(r, m, 0)) /\ run' = Append(run, Idle)
  /\ UNCHANGED project

------------------------------------------------------------------------------
(* A worker claims a row of its machine while it has a slot free; the      *)
(* handler runs until its first await.                                     *)

Busy(m) == {i \in Rows : rows[i].machine = m /\ rows[i].st = "running"}
Free(m) == Cardinality(Busy(m)) < Cap[m]

Work(i, h)    == run' = [run EXCEPT ![i] = h] /\ rows' = [rows EXCEPT ![i].st = "running"]
Answer(i, st) == rows' = [rows EXCEPT ![i].st = st] /\ run' = [run EXCEPT ![i] = Idle]
Goes(i, h)    == run' = [run EXCEPT ![i] = h] /\ UNCHANGED rows

\* _save: the registry becomes this, in one replace of the file.
Save(p) == project' = p

Stop(i, n) ==
  /\ rows[i].sub = "stop" /\ Answer(i, "done")
  /\ Save(IF project[n] = "none" THEN project ELSE [project EXCEPT ![n] = "stopped"])

\* start and review keep the registry they have read until their plan is drafted.
Intake(i) ==
  /\ rows[i].sub = "start" /\ UNCHANGED project
  /\ Work(i, [Idle EXCEPT !.pc = "create", !.copy = project])

NotToGo == {"none", "stopped"}

GoRefused(i, n) ==
  rows[i].sub = "go" /\ project[n] \in NotToGo /\ Answer(i, "done") /\ UNCHANGED project

GoAhead(i, n) ==
  /\ rows[i].sub = "go" /\ project[n] \notin NotToGo
  /\ Save([project EXCEPT ![n] = "executing"]) /\ Work(i, [Idle EXCEPT !.pc = "create"])

StartProject(i) ==
  /\ rows[i].kind = "project"
  /\ \/ Stop(i, rows[i].name)
     \/ Intake(i)
     \/ GoRefused(i, rows[i].name)
     \/ GoAhead(i, rows[i].name)

StartPlan(i) ==
  /\ rows[i].kind = "plan" /\ UNCHANGED project
  /\ \E s \in PlanShapes : Work(i, [Idle EXCEPT !.pc = "step", !.steps = s])

StartFanOut(i) ==
  rows[i].kind \in {"find", "brief"} /\ Work(i, [Idle EXCEPT !.pc = "create"]) /\ UNCHANGED project

StartAgent(i) ==
  rows[i].kind = "agent" /\ Work(i, [Idle EXCEPT !.pc = "work"]) /\ UNCHANGED project

Claim(i) ==
  /\ rows[i].st = "pending" /\ Free(rows[i].machine) /\ UNCHANGED asked
  /\ StartProject(i) \/ StartPlan(i) \/ StartFanOut(i) \/ StartAgent(i)

\* agent_run and the specialists wait for no task, and end by their own time limit.
WorkEnds(i, st) ==
  run[i].pc = "work" /\ Answer(i, st) /\ UNCHANGED <<project, asked>>

------------------------------------------------------------------------------
(* What the handler does with the outcome of the tasks it waited for.      *)

\* start writes the registry it has kept, go a fresh one.
ProjectAnswered(i, n, ok) ==
  /\ rows[i].kind = "project"
  /\ IF rows[i].sub = "start"
     THEN Save([run[i].copy EXCEPT ![n] = "planning"]) /\ Answer(i, "done")
     ELSE LET st == IF ok THEN "done" ELSE "needs_human"
          IN Save(IF project[n] = "none" THEN project ELSE [project EXCEPT ![n] = st]) /\ Answer(i, st)

\* find says what it got, and a brief leaves the missing parts out.
FanOutAnswered(i) ==
  rows[i].kind \in {"find", "brief"} /\ Answer(i, "done") /\ UNCHANGED project

\* A step counts as done unless the judge has left a reason why not.
StepLeft(i, h) ==
  IF h.feedback THEN Answer(i, "needs_human")
  ELSE Goes(i, [h EXCEPT !.pc = "step", !.at = @ + 1, !.attempt = 0])

\* Mutant: the budget of steps is looked at between steps only.
MayRetryPastBudget(h) == h.attempt <= MaxRetries

\* A refused step is tried again while its retries and the budget of steps last.
MayRetry(h) == h.attempt <= MaxRetries /\ h.executed < MaxSteps

StepRefused(i, h, reason) ==
  LET r == [h EXCEPT !.attempt = @ + 1, !.feedback = reason]
  IN IF MayRetry(r) THEN Goes(i, [r EXCEPT !.pc = "retry"]) ELSE StepLeft(i, r)

PlanAnswered(i, ok) ==
  LET h == [run[i] EXCEPT !.executed = @ + 1, !.waits = {}]
  IN /\ rows[i].kind = "plan" /\ UNCHANGED project
     /\ \/ ~ok /\ Answer(i, "needs_human")
        \/ ok /\ StepLeft(i, [h EXCEPT !.feedback = FALSE])
        \/ ok /\ h.steps[h.at] /\ \E reason \in BOOLEAN : StepRefused(i, h, reason)

Answered(i, ok) ==
  /\ ProjectAnswered(i, rows[i].name, ok) \/ PlanAnswered(i, ok) \/ FanOutAnswered(i)
  /\ UNCHANGED asked

------------------------------------------------------------------------------
(* Creating tasks, and waiting for them.                                   *)

\* Nothing left to run: every step is done, or the budget of steps is spent.
OutOfSteps(h) == h.at > Len(h.steps) \/ h.executed >= MaxSteps

PlanOver(i) ==
  run[i].pc = "step" /\ OutOfSteps(run[i]) /\ Answer(i, "done") /\ UNCHANGED <<project, asked>>

Creating(i) == run[i].pc \in {"create", "retry"} \/ (run[i].pc = "step" /\ ~OutOfSteps(run[i]))

Children(i) ==
  CASE rows[i].kind = "brief"                          -> <<"agent", "agent">>
    [] rows[i].kind = "project" /\ rows[i].sub = "go" -> <<"plan">>
    [] OTHER                                           -> <<"agent">>

\* Plan steps and drafts are pinned, a plan and a specialist run where they may.
MayRunOn(i) == IF rows[i].kind = "plan" \/ rows[i].sub = "start" THEN {Target} ELSE Machines

Create(i, m) ==
  LET new == [k \in DOMAIN Children(i) |->
                Row([kind |-> Children(i)[k], sub |-> "", name |-> rows[i].name], m, i)]
  IN /\ Creating(i) /\ m \in MayRunOn(i) /\ Len(rows) + Len(new) <= MaxRows
     /\ rows' = rows \o new
     /\ run' = [run EXCEPT ![i].pc = "wait", ![i].waits = Len(rows) + 1 .. Len(rows) + Len(new)]
               \o [k \in DOMAIN new |-> Idle]
     /\ UNCHANGED <<project, asked>>

\* POST /tasks is refused or not answered: the handler goes on without the task.
CreateFails(i) == Creating(i) /\ Answered(i, FALSE)

\* A poll finds the tasks ended.
WaitEnds(i) ==
  /\ run[i].pc = "wait" /\ \A k \in run[i].waits : rows[k].st \in Ended
  /\ Answered(i, \A k \in run[i].waits : rows[k].st = "done")

\* Mutant: the time limit runs from the moment a worker takes the task.
WaitTimesOutOnceClaimed(i) ==
  /\ run[i].pc = "wait" /\ \E k \in run[i].waits : rows[k].st = "running"
  /\ Answered(i, FALSE)

\* The time limit of the wait has passed; the tasks stay in the queue.
WaitTimesOut(i) ==
  /\ run[i].pc = "wait" /\ \E k \in run[i].waits : rows[k].st \notin Ended
  /\ Answered(i, FALSE)

Progress(i) ==
  \/ \E st \in Ended : WorkEnds(i, st)
  \/ \E m \in Machines : Create(i, m)
  \/ CreateFails(i)
  \/ PlanOver(i)
  \/ WaitEnds(i)
  \/ WaitTimesOut(i)

Next ==
  \/ \E r \in Requests, m \in Machines : Request(r, m)
  \/ \E i \in Rows : Claim(i)
  \/ \E i \in Rows : Progress(i)

Spec == Init /\ [][Next]_vars

\* Every wait of a handler has a time limit, so each one that runs goes on.
\* Nothing is assumed of the claims: a row may stay pending for ever.
Fairness == \A i \in 1..MaxRows : WF_vars(i \in Rows /\ Progress(i))

FairSpec == Spec /\ Fairness

\* However often its steps are refused and tried again, a plan puts no more
\* tasks in the queue than its circuit breaker allows.
StepsBounded ==
  \A i \in Rows : rows[i].kind = "plan" => Cardinality({k \in Rows : rows[k].parent = i}) <= MaxSteps

\* A composite task that has been claimed ends, also when it holds the slot the
\* tasks it waits for would need.
CompositesEnd ==
  \A i \in 1..MaxRows : (i \in Rows /\ rows[i].st = "running") ~> (i \in Rows /\ rows[i].st \in Ended)
==============================================================================
