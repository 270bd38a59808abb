---------------------------- MODULE ScrumDispatch ----------------------------
(***************************************************************************)
(* dispatch in shared/scrum_flow.py: an approved plan is run wave by wave  *)
(* over the task queue.  Tasks that only return text are queued together;  *)
(* an integrator applies the code that DeepSeek returned; tasks that edit  *)
(* the repository go one at a time; at the end a tester and a reviewer.    *)
(* The queue and the agents are external: a task starts, with the agent    *)
(* that is available, and ends.                                            *)
(***************************************************************************)
EXTENDS Naturals, Sequences

CONSTANTS
  Plans,      \* plans: sequences of [role, deps, private]
  Gos,        \* 1..n: the times the owner runs `go` for the plan
  Agents,     \* the agents a task may end up with
  MaxFaults,  \* bound: tasks that fail, calls unanswered, waits timed out
  None

Dev == {"dev_frontend", "dev_backend"}
Plannable == Dev \cup {"analyst"}

\* waves: a task is one layer after the last of those it depends on.
IsLayering(p, depth) ==
  \A k \in DOMAIN p :
    /\ \A d \in p[k].deps : depth[d] < depth[k]
    /\ depth[k] = 1 \/ \E d \in p[k].deps : depth[k] = depth[d] + 1

\* parse_plan refuses any other plan, one with a cycle among them.
DispatchAssumption ==
  /\ MaxFaults \in Nat
  /\ \A p \in Plans :
       /\ p \in Seq([role : Plannable, deps : SUBSET Nat, private : BOOLEAN]) /\ p # <<>>
       /\ \A k \in DOMAIN p : p[k].deps \subseteq DOMAIN p
       /\ \E depth \in [DOMAIN p -> 1..Len(p)] : IsLayering(p, depth)

VARIABLES
  plan,     \* the plan's tasks
  rows,     \* rows[<<go, job, copy>>]: the queue's row, where there is one
  go,       \* the dispatch under way, or the last one
  faults

vars == <<plan, rows, go, faults>>

------------------------------------------------------------------------------
(* The jobs of a plan, and the batches they are queued in.                 *)

Layer(p) == CHOOSE depth \in [DOMAIN p -> 1..Len(p)] : IsLayering(p, depth)

\* A developer's task whose project or prompt is private goes to Claude; any
\* other of the backend goes to DeepSeek, which returns code.
ReturnsCode(p, k) == p[k].role = "dev_backend" /\ ~p[k].private

TextOnly(p, k) == p[k].role = "analyst" \/ ReturnsCode(p, k)

Task(k) == <<"task", k>>

\* Mutant: the editors of a layer run together, as its text-only tasks do.
PlaceTogether(p, job) ==
  CASE job[1] = "task"      -> <<Layer(p)[job[2]], IF TextOnly(p, job[2]) THEN 0 ELSE 2, 0>>
    [] job[1] = "integrate" -> <<job[2], 1, 0>>
    [] job[1] = "validate"  -> <<Len(p) + 1, 0, 0>>
    [] job[1] = "review"    -> <<Len(p) + 1, 1, 0>>

\* Where a job is in the run: the layer; in it the text-only tasks together,
\* the integrator, and the file editors one by one.
Place(p, job) ==
  CASE job[1] = "task" /\ TextOnly(p, job[2])  -> <<Layer(p)[job[2]], 0, 0>>
    [] job[1] = "integrate"                    -> <<job[2], 1, 0>>
    [] job[1] = "task" /\ ~TextOnly(p, job[2]) -> <<Layer(p)[job[2]], 2, job[2]>>
    [] job[1] = "validate"                     -> <<Len(p) + 1, 0, 0>>
    [] job[1] = "review"                       -> <<Len(p) + 1, 1, 0>>

Earlier(a, b) ==
  a[1] < b[1] \/ (a[1] = b[1] /\ (a[2] < b[2] \/ (a[2] = b[2] /\ a[3] < b[3])))

\* The code of a layer is one integrator's job; a plan with a developer in it
\* is tested and reviewed.
Jobs(p) ==
  {Task(k) : k \in DOMAIN p}
    \cup {<<"integrate", Layer(p)[k]>> : k \in {i \in DOMAIN p : TextOnly(p, i)}}
    \cup (IF \E k \in DOMAIN p : p[k].role \in Dev
          THEN {<<"validate", 0>>, <<"review", 0>>} ELSE {})

Steps(p) == {[job |-> job, at |-> Place(p, job)] : job \in Jobs(p)}

\* Those that come first.
Batch(steps) == {x \in steps : \A y \in steps : ~Earlier(y.at, x.at)}

------------------------------------------------------------------------------
(* The queue and the agents, external.                                     *)

RoleOf(job) ==
  IF job[1] = "task" THEN plan[job[2]].role
  ELSE [integrate |-> "integrator", validate |-> "tester", review |-> "reviewer"][job[1]]

\* Codex only reads and DeepSeek returns text; the other agents edit.
Edits(id) == RoleOf(id[2]) \in Dev \cup {"integrator", "tester"} /\ rows[id].by \notin {"codex", "deepseek"}

Rows == DOMAIN rows

\* Mutant: only a task that is done has ended.
EndedWell(id) == rows[id].st = "done"

Ended(id) == rows[id].st \in {"done", "failed"}

\* A task is queued without a class: whichever agent its role names, the
\* fallbacks of the default one follow, and any of them may answer.
TaskStarts(id) ==
  /\ rows[id].st = "queued"
  /\ \E a \in Agents : rows' = [rows EXCEPT ![id] = [st |-> "running", by |-> a]]
  /\ UNCHANGED <<plan, go, faults>>

\* The row keeps the agent that answered; here only that of a backend
\* developer's task, which is the only one looked at again.
End(id, how) ==
  [rows EXCEPT ![id] = [st |-> how, by |-> IF RoleOf(id[2]) = "dev_backend" THEN @.by ELSE None]]

TaskEnds(id) ==
  /\ rows[id].st = "running"
  /\ \/ rows' = End(id, "done") /\ UNCHANGED faults
     \/ faults < MaxFaults /\ faults' = faults + 1 /\ rows' = End(id, "failed")
  /\ UNCHANGED <<plan, go>>

------------------------------------------------------------------------------
(* The dispatcher.                                                         *)

\* go.left: the steps of later batches; go.todo: the jobs of the batch that are
\* not queued yet; go.wait: the rows awaited.
On(g, steps) ==
  [n |-> g, left |-> steps \ Batch(steps), todo |-> {x.job : x \in Batch(steps)},
   wait |-> {}, st |-> "running"]

StartGo ==
  /\ go.st # "running" /\ go.n + 1 \in Gos
  /\ go' = On(go.n + 1, Steps(plan))
  /\ UNCHANGED <<plan, rows, faults>>

NewRows(ids) ==
  [id \in Rows \cup ids |-> IF id \in Rows THEN rows[id] ELSE [st |-> "queued", by |-> None]]

\* A failed step stops the flow, except the tester's, which is only noted.
Fails(job) ==
  IF RoleOf(job) = "tester"
  THEN On(go.n, go.left)
  ELSE [go EXCEPT !.st = "stopped"]

\* A POST that is not answered is sent to the next orchestrator, and the task
\* may exist twice; the dispatcher knows the last one.  When none answers the
\* step has failed, whether the row exists or not.
Queue(job) ==
  /\ go.st = "running" /\ job \in go.todo
  /\ \A other \in go.todo : job[2] <= other[2]
  /\ \/ /\ rows' = NewRows({<<go.n, job, 1>>})
        /\ go' = [go EXCEPT !.todo = @ \ {job}, !.wait = @ \cup {<<go.n, job, 1>>}]
        /\ UNCHANGED faults
     \/ /\ faults < MaxFaults /\ faults' = faults + 1
        /\ \/ /\ rows' = NewRows({<<go.n, job, 1>>, <<go.n, job, 2>>})
              /\ go' = [go EXCEPT !.todo = @ \ {job}, !.wait = @ \cup {<<go.n, job, 2>>}]
           \/ /\ rows' \in {rows, NewRows({<<go.n, job, 1>>})}
              /\ go' = Fails(job)
  /\ UNCHANGED plan

\* Mutant: the code of the fallback is taken for the one to integrate.
CodeOfFallback(ids) == {id \in ids : RoleOf(id[2]) = "dev_backend" /\ rows[id].by = "claude"}

\* Code to integrate: what DeepSeek answered in the batch that ended.
Code(ids) == {id \in ids : RoleOf(id[2]) = "dev_backend" /\ rows[id].by = "deepseek"}

\* Every row of the batch has ended: on to the next one, or stop at the first
\* that is not done.  A tester that fails does not stop the flow; a layer
\* without code has no integrator.
BatchEnds ==
  /\ go.st = "running" /\ go.todo = {} /\ \A id \in go.wait : Ended(id)
  /\ LET failed == \E id \in go.wait : rows[id].st = "failed" /\ RoleOf(id[2]) # "tester"
         skip   == {x \in Batch(go.left) : x.job[1] = "integrate" /\ Code(go.wait) = {}}
         left   == go.left \ skip
     IN go' = IF failed THEN [go EXCEPT !.st = "stopped"]
              ELSE IF left = {} THEN [go EXCEPT !.st = "finished", !.left = {}]
              ELSE On(go.n, left)
  /\ UNCHANGED <<plan, rows, faults>>

\* wait gives up, or cannot reach the orchestrators.
WaitTimesOut ==
  /\ go.st = "running" /\ go.todo = {}
  /\ faults < MaxFaults /\ faults' = faults + 1
  /\ \E id \in go.wait : ~Ended(id) /\ go' = Fails(id[2])
  /\ UNCHANGED <<plan, rows>>

Init ==
  /\ plan \in Plans /\ rows = <<>> /\ faults = 0
  /\ go = [n |-> 0, left |-> {}, todo |-> {}, wait |-> {}, st |-> "none"]

Dispatcher == (\E job \in go.todo : Queue(job)) \/ BatchEnds

Fleet == \E id \in Rows : TaskStarts(id) \/ TaskEnds(id)

Next == StartGo \/ Dispatcher \/ WaitTimesOut \/ Fleet

Spec == Init /\ [][Next]_vars

\* The script goes on, and the fleet ends what it is given.
Fairness == WF_vars(Dispatcher) /\ WF_vars(Fleet)

FairSpec == Spec /\ Fairness

Answers(g, k) == {id \in Rows : id[1] = g /\ id[2] = Task(k) /\ rows[id].st = "done"}

\* Whatever is queued for a task, the tasks it depends on are done in the same
\* run, and code that DeepSeek returned for one that was queued for its code
\* has been integrated: later tasks "can assume it is already there".  The
\* review depends on all of them.  What DeepSeek returns for a task that was to
\* edit, and fell over to it, is integrated by nobody.
DependenciesFirst ==
  \A id \in Rows :
    /\ id[2][1] = "task" => \A d \in plan[id[2][2]].deps :
         \E a \in Answers(id[1], d) : rows[a].by = "deepseek" /\ ReturnsCode(plan, d) =>
           \E i \in Rows : i[1] = id[1] /\ i[2] = <<"integrate", Layer(plan)[d]>> /\ rows[i].st = "done"
    /\ id[2][1] = "review" => \A k \in DOMAIN plan : Answers(id[1], k) # {}

\* A task has a known reason to run beside another one of its story: it was
\* created twice, an earlier run left it behind, or it was queued for a
\* text-only agent and failed over to one that edits.
Stray(id) ==
  \/ id[3] = 2 \/ <<id[1], id[2], 2>> \in Rows
  \/ id \notin go.wait
  \/ id[2][1] = "task" /\ TextOnly(plan, id[2][2])

\* "tasks that edit files run one at a time so they never race on the branch":
\* two of them run at once only when one of them is a stray.
EditorsRaceOnlyAstray ==
  \A x, y \in Rows : x # y /\ rows[x].st = "running" /\ rows[y].st = "running" /\ Edits(x) /\ Edits(y) =>
    Stray(x) \/ Stray(y)

\* A dispatch ends: it finishes, or it stops at the first failure.
Running(g) == go.n = g /\ go.st = "running"

DispatchEnds == \A g \in Gos : Running(g) ~> ~Running(g)
==============================================================================
