-------------------------- MODULE LiveServicesProofs --------------------------
(***************************************************************************)
(* Proofs about the parts of LiveServices: the tasks that wait for tasks   *)
(* keep to their budget of steps, for every planner, owner and fleet; and  *)
(* a sprint's tasks run after those they depend on and apart from the      *)
(* editors at work, for every plan and every outcome of the agents.        *)
(***************************************************************************)
EXTENDS LiveServices, FiniteSets, FiniteSetTheorems, SequenceTheorems, TLAPS

------------------------------------------------------------------------------
(* CompositeTasks: the types of a row and of the handler at work on it.    *)

Kinds == {r.kind : r \in Requests} \cup {"agent", "plan"}
Subs  == {r.sub : r \in Requests} \cup {""}
Named == {r.name : r \in Requests}

Statuses == {"none", "planning", "executing", "stopped", "done", "needs_human"}

Registry == [Names -> Statuses]

RowType ==
  [kind : Kinds, sub : Subs, name : Named, machine : CT!Machines, parent : Nat,
   st : {"pending", "running"} \cup CT!Ended]

HandlerType ==
  [pc : {"idle", "create", "step", "retry", "wait", "work"}, waits : SUBSET Nat,
   copy : Registry, steps : PlanShapes \cup {<<>>}, at : Nat, executed : Nat,
   attempt : Nat, feedback : BOOLEAN]

QueueTyped ==
  /\ queue \in Seq(RowType) /\ run \in Seq(HandlerType)
  /\ Len(run) = Len(queue)
  /\ project \in Registry /\ asked \in Nat

\* The tasks a row has put in the queue.
Made(i) == {k \in DOMAIN queue : queue[k].parent = i}

\* Nobody is made by a row that is not there yet.
ParentsFirst == \A k \in DOMAIN queue : queue[k].parent < k

\* A plan with status st and handler h that has made n tasks: what it has made
\* it has counted, but for the one it waits for.
InBudget(st, h, n) ==
  /\ h.pc \in {"idle", "step", "retry", "wait"}
  /\ n <= MaxSteps
  /\ st = "pending" => h.pc = "idle" /\ n = 0
  /\ h.pc \in {"step", "retry"} => n <= h.executed
  /\ h.pc = "retry" => h.executed < MaxSteps
  /\ h.pc = "wait" => h.executed < MaxSteps /\ n <= h.executed + 1

BudgetHeld ==
  \A i \in DOMAIN queue :
    queue[i].kind = "plan" => InBudget(queue[i].st, run[i], Cardinality(Made(i)))

BudgetInv == QueueTyped /\ ParentsFirst /\ BudgetHeld

LEMMA MadeFinite ==
  ASSUME QueueTyped, NEW i
  PROVE  IsFiniteSet(Made(i)) /\ Cardinality(Made(i)) \in Nat
<1>1. PICK n \in Nat : n = Len(queue) /\ DOMAIN queue = 1..n
  BY DEF QueueTyped
<1>2. IsFiniteSet(1..n)  BY <1>1, FS_Interval
<1>3. Made(i) \subseteq 1..n  BY <1>1 DEF Made
<1> QED  BY <1>2, <1>3, FS_Subset, FS_CardinalityType

\* A handler goes on, or its row gets its status, and no task is made.
LEMMA HandlerGoes ==
  ASSUME BudgetInv, UNCHANGED asked, project' \in Registry,
         NEW i \in DOMAIN queue, NEW h \in HandlerType,
         NEW st \in {"pending", "running"} \cup CT!Ended,
         run' = [run EXCEPT ![i] = h],
         queue' = [queue EXCEPT ![i].st = st],
         queue[i].kind = "plan" => InBudget(st, h, Cardinality(Made(i)))
  PROVE  BudgetInv'
<1> USE DEF BudgetInv
<1>1. queue[i] \in RowType /\ queue' = [queue EXCEPT ![i] = [queue[i] EXCEPT !.st = st]]
  BY DEF QueueTyped
<1>2. [queue[i] EXCEPT !.st = st] \in RowType
  BY <1>1 DEF RowType
<1>3. /\ queue' \in Seq(RowType) /\ DOMAIN queue' = DOMAIN queue /\ Len(queue') = Len(queue)
      /\ \A k \in DOMAIN queue : k # i => queue'[k] = queue[k]
      /\ queue'[i] = [queue[i] EXCEPT !.st = st]
  BY <1>1, <1>2, ExceptSeq DEF QueueTyped
<1>4. /\ run' \in Seq(HandlerType) /\ Len(run') = Len(run) /\ DOMAIN run = DOMAIN queue
      /\ run'[i] = h /\ \A k \in DOMAIN queue : k # i => run'[k] = run[k]
  BY ExceptSeq DEF QueueTyped
<1>5. \A k \in DOMAIN queue : queue'[k].parent = queue[k].parent /\ queue'[k].kind = queue[k].kind
                               /\ queue'[k].st = (IF k = i THEN st ELSE queue[k].st)
  BY <1>1, <1>3 DEF RowType
<1>6. \A k : Made(k)' = Made(k)
  BY <1>3, <1>5 DEF Made
<1>7. QueueTyped'  BY <1>3, <1>4 DEF QueueTyped
<1>8. ParentsFirst'  BY <1>3, <1>5 DEF ParentsFirst
<1>9. BudgetHeld'
  <2> SUFFICES ASSUME NEW k \in DOMAIN queue, queue[k].kind = "plan"
               PROVE  InBudget(queue'[k].st, run'[k], Cardinality(Made(k)))
    BY <1>3, <1>5, <1>6 DEF BudgetHeld
  <2>1. CASE k = i  BY <2>1, <1>4, <1>5
  <2>2. CASE k # i  BY <2>2, <1>4, <1>5 DEF BudgetHeld
  <2> QED  BY <2>1, <2>2
<1> QED  BY <1>7, <1>8, <1>9

\* Rows are added behind the others by row parent, or by the owner.
LEMMA RowsAdded ==
  ASSUME BudgetInv, MaxSteps \in Nat, UNCHANGED project, asked' \in Nat,
         NEW parent \in {0} \cup DOMAIN queue,
         NEW new \in Seq(RowType), \A k \in DOMAIN new : new[k].parent = parent /\ new[k].st = "pending",
         NEW others \in Seq(HandlerType), Len(others) = Len(queue),
         \A k \in DOMAIN queue : k # parent => others[k] = run[k],
         queue' = queue \o new,
         run' = others \o [k \in DOMAIN new |-> CT!Idle],
         CT!Idle \in HandlerType,
         parent # 0 /\ queue[parent].kind = "plan" =>
           /\ Len(new) = 1
           /\ InBudget(queue[parent].st, others[parent], Cardinality(Made(parent)) + 1)
  PROVE  BudgetInv'
<1> USE DEF BudgetInv
<1>1. PICK n \in Nat, m \in Nat : /\ n = Len(queue) /\ DOMAIN queue = 1..n
                                  /\ m = Len(new) /\ DOMAIN new = 1..m
  BY DEF QueueTyped
<1>2. /\ queue' \in Seq(RowType) /\ Len(queue') = n + m
      /\ \A k \in 1..n : queue'[k] = queue[k]
      /\ \A k \in 1..m : queue'[n + k] = new[k]
  <2>1. Len(queue') = Len(queue) + Len(new) /\ queue' \in Seq(RowType)  BY ConcatProperties DEF QueueTyped
  <2>2. \A k \in 1 .. Len(queue) + Len(new) :
           queue'[k] = IF k <= Len(queue) THEN queue[k] ELSE new[k - Len(queue)]
    BY ConcatProperties DEF QueueTyped
  <2> QED  BY <2>1, <2>2, <1>1
<1>3. PICK fresh \in Seq(HandlerType) : /\ fresh = [k \in DOMAIN new |-> CT!Idle] /\ Len(fresh) = m
                                        /\ \A k \in 1..m : fresh[k] = CT!Idle
  <2> DEFINE f == [k \in 1..m |-> CT!Idle]
  <2>1. f \in Seq(HandlerType) /\ Len(f) = m  BY <1>1
  <2> QED  BY <2>1, <1>1
<1>4. /\ run' \in Seq(HandlerType) /\ Len(run') = n + m
      /\ \A k \in 1..n : run'[k] = others[k]
      /\ \A k \in 1..m : run'[n + k] = CT!Idle
  <2>1. run' = others \o fresh  BY <1>3
  <2>2. fresh \in Seq(HandlerType) /\ others \in Seq(HandlerType)  BY <1>3
  <2>4. Len(others \o fresh) = Len(others) + Len(fresh) /\ others \o fresh \in Seq(HandlerType)
    BY <2>2, ConcatProperties
  <2>3. \A k \in 1 .. Len(others) + Len(fresh) :
           run'[k] = IF k <= Len(others) THEN others[k] ELSE fresh[k - Len(others)]
    BY <2>1, <1>3, ConcatProperties
  <2> QED  BY <2>1, <2>4, <2>3, <1>1, <1>3 DEF QueueTyped
<1>5. QueueTyped'  BY <1>2, <1>4 DEF QueueTyped
<1>6. DOMAIN queue' = 1..(n + m)  BY <1>2
<1>7. \A k \in 1..(n + m) : k \notin 1..n => \E j \in 1..m : k = n + j
  <2> SUFFICES ASSUME NEW k \in 1..(n + m), k \notin 1..n PROVE \E j \in 1..m : k = n + j
    OBVIOUS
  <2>1. k - n \in 1..m /\ k = n + (k - n)  BY <1>1
  <2> QED  BY <2>1
<1>8. ParentsFirst'
  <2> SUFFICES ASSUME NEW k \in 1..(n + m) PROVE queue'[k].parent < k
    BY <1>6 DEF ParentsFirst
  <2>1. CASE k \in 1..n  BY <2>1, <1>1, <1>2 DEF ParentsFirst
  <2>2. CASE k \notin 1..n
    <3>1. PICK j \in 1..m : k = n + j  BY <1>7, <2>2
    <3>2. queue'[k].parent = parent /\ parent \in 0..n  BY <3>1, <1>1, <1>2
    <3> QED  BY <3>1, <3>2, <1>1
  <2> QED  BY <2>1, <2>2
<1>13. \A k \in 1..n : queue'[k].parent = queue[k].parent
  BY <1>2
<1>14. parent \in 0..n /\ \A k \in 1..(n + m) : k \notin 1..n => queue'[k].parent = parent
  <2>1. ASSUME NEW k \in 1..(n + m), k \notin 1..n PROVE queue'[k].parent = parent
    <3>1. PICK j \in 1..m : k = n + j  BY <1>7, <2>1
    <3> QED  BY <3>1, <1>1, <1>2
  <2> QED  BY <2>1, <1>1
<1>9. \A i \in 1..n : i # parent => Made(i)' = Made(i)
  BY <1>1, <1>6, <1>13, <1>14 DEF Made
<1>10. parent # 0 /\ m = 1 => Made(parent)' = Made(parent) \cup {n + 1}
  <2> SUFFICES ASSUME m = 1, NEW k PROVE k \in Made(parent)' <=> k \in Made(parent) \/ k = n + 1
    OBVIOUS
  <2>3. 1..(n + 1) = 1..n \cup {n + 1} /\ n + 1 \notin 1..n
    <3>1. ASSUME NEW j \in 1..(n + 1) PROVE j \in 1..n \/ j = n + 1  BY <1>1
    <3>2. ASSUME NEW j \in 1..n PROVE j \in 1..(n + 1)  BY <1>1
    <3>3. n + 1 \in 1..(n + 1) /\ n + 1 \notin 1..n  BY <1>1
    <3> QED  BY <3>1, <3>2, <3>3
  <2>1. DOMAIN queue' = 1..n \cup {n + 1} /\ n + 1 \notin 1..n  BY <1>6, <2>3
  <2>2. queue'[n + 1].parent = parent  BY <1>1, <1>14, <2>1, <1>6
  <2> QED  BY <1>1, <1>13, <2>1, <2>2 DEF Made
<1>11. n + 1 \notin Made(parent)  BY <1>1 DEF Made
<1>12. BudgetHeld'
  <2> SUFFICES ASSUME NEW i \in 1..(n + m), queue'[i].kind = "plan"
               PROVE  InBudget(queue'[i].st, run'[i], Cardinality(Made(i)'))
    BY <1>6 DEF BudgetHeld
  <2>1. CASE i \in 1..n /\ i # parent
    <3>1. i \in DOMAIN queue /\ queue[i].kind = "plan"  BY <2>1, <1>1, <1>2
    <3>2. InBudget(queue[i].st, run[i], Cardinality(Made(i)))  BY <3>1 DEF BudgetHeld
    <3> QED  BY <3>2, <2>1, <1>1, <1>2, <1>4, <1>9
  <2>2. CASE i \in 1..n /\ i = parent
    <3>1. queue[i].kind = "plan" /\ parent # 0 /\ m = 1  BY <2>2, <1>1, <1>2
    <3>2. Cardinality(Made(i)') = Cardinality(Made(i)) + 1
      BY <3>1, <2>2, <1>10, <1>11, MadeFinite, FS_AddElement
    <3> QED  BY <3>1, <3>2, <2>2, <1>1, <1>2, <1>4
  <2>3. CASE i \notin 1..n
    <3>1. PICK j \in 1..m : i = n + j  BY <1>7, <2>3
    <3>2. queue'[i].st = "pending" /\ run'[i] = CT!Idle  BY <3>1, <1>1, <1>2, <1>4
    <3>3. ASSUME NEW k \in DOMAIN queue' PROVE queue'[k].parent # i
      <4>1. queue'[k].parent \in 0..n
        <5>1. CASE k \in 1..n
          <6>1. queue[k] \in RowType  BY <5>1, <1>1 DEF QueueTyped
          <6>2. queue[k].parent \in Nat /\ queue[k].parent < k /\ k <= n
            BY <6>1, <5>1, <1>1 DEF ParentsFirst, RowType
          <6> QED  BY <6>2, <5>1, <1>1
        <5>2. CASE k \notin 1..n  BY <5>2, <1>6, <1>14
        <5> QED  BY <5>1, <5>2
      <4>2. i \notin 0..n  BY <2>3, <1>1
      <4> QED  BY <4>1, <4>2
    <3>4. Made(i)' = {}  BY <3>3 DEF Made
    <3>5. Cardinality(Made(i)') = 0  BY <3>4, FS_EmptySet
    <3>6. CT!Idle.pc = "idle" /\ 0 <= MaxSteps  BY DEF CT!Idle
    <3> QED  BY <3>2, <3>5, <3>6 DEF InBudget
  <2> QED  BY <2>1, <2>2, <2>3
<1> QED  BY <1>5, <1>8, <1>12


LEMMA IdleTyped == CT!Idle \in HandlerType /\ CT!Unknown \in Registry
<1>1. CT!Unknown \in Registry  BY DEF CT!Unknown, Registry, Statuses
<1> QED  BY <1>1 DEF CT!Idle, HandlerType

LEMMA RowTyped ==
  ASSUME QueueTyped, NEW i \in DOMAIN queue
  PROVE  queue[i] \in RowType /\ run[i] \in HandlerType /\ DOMAIN run = DOMAIN queue
BY DEF QueueTyped

LEMMA Answers ==
  ASSUME BudgetInv, UNCHANGED asked, project' \in Registry,
         NEW i \in DOMAIN queue, NEW st \in CT!Ended, CT!Answer(i, st)
  PROVE  BudgetInv'
<1>1. queue[i].kind = "plan" => InBudget(st, CT!Idle, Cardinality(Made(i)))
  BY DEF BudgetInv, BudgetHeld, InBudget, CT!Idle, CT!Ended
<1> QED  BY <1>1, IdleTyped, HandlerGoes DEF CT!Answer

LEMMA GoesOn ==
  ASSUME BudgetInv, UNCHANGED <<asked, project>>, NEW i \in DOMAIN queue,
         NEW h \in HandlerType, CT!Goes(i, h),
         queue[i].kind = "plan" => InBudget(queue[i].st, h, Cardinality(Made(i)))
  PROVE  BudgetInv'
<1>1. queue[i] \in RowType /\ project \in Registry  BY RowTyped DEF BudgetInv, QueueTyped
<1>2. [queue[i] EXCEPT !.st = queue[i].st] = queue[i]  BY <1>1 DEF RowType
<1>3. [queue EXCEPT ![i].st = queue[i].st] = queue  BY <1>1, <1>2 DEF BudgetInv, QueueTyped
<1>4. queue[i].st \in {"pending", "running"} \cup CT!Ended  BY <1>1 DEF RowType
<1>5. queue' = [queue EXCEPT ![i].st = queue[i].st]  BY <1>3 DEF CT!Goes
<1>6. run' = [run EXCEPT ![i] = h] /\ project' \in Registry  BY <1>1 DEF CT!Goes
<1> QED  BY <1>4, <1>5, <1>6, HandlerGoes

LEMMA Works ==
  ASSUME BudgetInv, UNCHANGED asked, project' \in Registry, NEW i \in DOMAIN queue,
         NEW h \in HandlerType, CT!Work(i, h),
         queue[i].kind = "plan" => InBudget("running", h, Cardinality(Made(i)))
  PROVE  BudgetInv'
BY HandlerGoes DEF CT!Work

\* The registry is written for one project.
LEMMA Saved ==
  ASSUME NEW p \in Registry, NEW n, NEW st \in Statuses
  PROVE  [p EXCEPT ![n] = st] \in Registry
BY DEF Registry

LEMMA ClaimStep ==
  ASSUME BudgetInv, NEW i \in DOMAIN queue, CT!Claim(i)
  PROVE  BudgetInv'
<1>1. UNCHANGED asked /\ queue[i].st = "pending" /\ project \in Registry
  BY DEF CT!Claim, BudgetInv, QueueTyped
<1>2. [CT!Idle EXCEPT !.pc = "create"] \in HandlerType /\ [CT!Idle EXCEPT !.pc = "work"] \in HandlerType
  BY IdleTyped DEF HandlerType
<1>3. CASE CT!StartProject(i)
  <2>1. queue[i].kind # "plan"  BY <1>3 DEF CT!StartProject
  <2>2. CASE CT!Stop(i, queue[i].name)
    BY <2>2, <1>1, Answers, Saved DEF CT!Stop, CT!Save, CT!Ended, Statuses
  <2>3. CASE CT!Intake(i)
    <3>1. [CT!Idle EXCEPT !.pc = "create", !.copy = project] \in HandlerType
      BY <1>1, IdleTyped DEF HandlerType
    <3> QED  BY <3>1, <2>1, <2>3, <1>1, Works DEF CT!Intake
  <2>4. CASE CT!GoRefused(i, queue[i].name)
    BY <2>4, <1>1, Answers DEF CT!GoRefused, CT!Ended
  <2>5. CASE CT!GoAhead(i, queue[i].name)
    <3>1. project' \in Registry  BY <2>5, <1>1, Saved DEF CT!GoAhead, CT!Save, Statuses
    <3> QED  BY <3>1, <2>1, <2>5, <1>1, <1>2, Works DEF CT!GoAhead
  <2> QED  BY <2>2, <2>3, <2>4, <2>5, <1>3 DEF CT!StartProject
<1>4. CASE CT!StartPlan(i)
  <2>1. PICK s \in PlanShapes : CT!Work(i, [CT!Idle EXCEPT !.pc = "step", !.steps = s])
    BY <1>4 DEF CT!StartPlan
  <2>2. PICK h : h = [CT!Idle EXCEPT !.pc = "step", !.steps = s]  OBVIOUS
  <2>3. h \in HandlerType /\ h.pc = "step" /\ h.executed = 0
    BY <2>2, IdleTyped DEF HandlerType, CT!Idle
  <2>4. queue[i].kind = "plan" /\ InBudget("pending", run[i], Cardinality(Made(i)))
    BY <1>1, <1>4 DEF CT!StartPlan, BudgetInv, BudgetHeld
  <2>5. InBudget("running", h, Cardinality(Made(i)))  BY <2>3, <2>4 DEF InBudget
  <2> QED  BY <2>1, <2>2, <2>3, <2>5, <1>1, <1>4, Works DEF CT!StartPlan
<1>5. CASE CT!StartFanOut(i)
  BY <1>5, <1>1, <1>2, Works DEF CT!StartFanOut
<1>6. CASE CT!StartAgent(i)
  BY <1>6, <1>1, <1>2, Works DEF CT!StartAgent
<1> QED  BY <1>3, <1>4, <1>5, <1>6 DEF CT!Claim

\* How a plan's handler moves: counted, judged, on to the next step, once more.
LEMMA HandlerMoves ==
  ASSUME NEW h \in HandlerType, NEW reason \in BOOLEAN
  PROVE  /\ [h EXCEPT !.executed = @ + 1, !.waits = {}] \in HandlerType
         /\ [h EXCEPT !.executed = @ + 1, !.waits = {}].executed = h.executed + 1
         /\ [h EXCEPT !.attempt = @ + 1, !.feedback = reason] \in HandlerType
         /\ [h EXCEPT !.attempt = @ + 1, !.feedback = reason].executed = h.executed
         /\ [h EXCEPT !.pc = "step", !.at = @ + 1, !.attempt = 0] \in HandlerType
         /\ [h EXCEPT !.pc = "step", !.at = @ + 1, !.attempt = 0].pc = "step"
         /\ [h EXCEPT !.pc = "step", !.at = @ + 1, !.attempt = 0].executed = h.executed
         /\ [h EXCEPT !.pc = "retry"] \in HandlerType
         /\ [h EXCEPT !.pc = "retry"].pc = "retry"
         /\ [h EXCEPT !.pc = "retry"].executed = h.executed
<1>1. h.executed + 1 \in Nat /\ h.attempt + 1 \in Nat /\ h.at + 1 \in Nat  BY DEF HandlerType
<1>2. [h EXCEPT !.executed = h.executed + 1, !.waits = {}] \in HandlerType  BY <1>1 DEF HandlerType
<1>3. [h EXCEPT !.attempt = h.attempt + 1, !.feedback = reason] \in HandlerType  BY <1>1 DEF HandlerType
<1>4. [h EXCEPT !.pc = "step", !.at = h.at + 1, !.attempt = 0] \in HandlerType  BY <1>1 DEF HandlerType
<1>5. [h EXCEPT !.pc = "retry"] \in HandlerType  BY DEF HandlerType
<1> QED  BY <1>2, <1>3, <1>4, <1>5 DEF HandlerType

LEMMA AnsweredStep ==
  ASSUME BudgetInv, NEW i \in DOMAIN queue, NEW ok \in BOOLEAN,
         CT!Answered(i, ok), ok => run[i].pc = "wait"
  PROVE  BudgetInv'
<1>1. UNCHANGED asked /\ project \in Registry /\ run[i] \in HandlerType
  BY RowTyped DEF CT!Answered, BudgetInv, QueueTyped
<1>2. CASE CT!ProjectAnswered(i, queue[i].name, ok)
  <2>1. CASE queue[i].sub = "start"
    <3>1. run[i].copy \in Registry  BY <1>1 DEF HandlerType
    <3>2. [run[i].copy EXCEPT ![queue[i].name] = "planning"] \in Registry  BY <3>1, Saved DEF Statuses
    <3> QED  BY <3>2, <2>1, <1>1, <1>2, Answers DEF CT!ProjectAnswered, CT!Save, CT!Ended
  <2>2. CASE queue[i].sub # "start"
    <3>1. PICK st \in {"done", "needs_human"} :
            /\ project' = IF project[queue[i].name] = "none" THEN project
                          ELSE [project EXCEPT ![queue[i].name] = st]
            /\ CT!Answer(i, st)
      BY <2>2, <1>2 DEF CT!ProjectAnswered, CT!Save
    <3>2. project' \in Registry  BY <3>1, <1>1, Saved DEF Statuses
    <3> QED  BY <3>1, <3>2, <1>1, Answers DEF CT!Ended
  <2> QED  BY <2>1, <2>2
<1>3. CASE CT!FanOutAnswered(i)
  BY <1>3, <1>1, Answers DEF CT!FanOutAnswered, CT!Ended
<1>4. CASE CT!PlanAnswered(i, ok)
  <2>1. UNCHANGED project /\ queue[i].kind = "plan"  BY <1>4 DEF CT!PlanAnswered
  <2>2. CASE CT!Answer(i, "needs_human")
    BY <2>1, <2>2, <1>1, Answers DEF CT!Ended
  <2>3. CASE ~CT!Answer(i, "needs_human")
    <3>1. PICK n \in Nat : n = Cardinality(Made(i))  BY MadeFinite DEF BudgetInv
    <3>2. ok /\ InBudget(queue[i].st, run[i], n) /\ run[i].pc = "wait"
      BY <2>1, <2>3, <1>4, <3>1 DEF CT!PlanAnswered, BudgetInv, BudgetHeld
    <3>3. PICK h \in HandlerType : /\ h = [run[i] EXCEPT !.executed = @ + 1, !.waits = {}]
                                   /\ h.executed = run[i].executed + 1
      BY <1>1, HandlerMoves
    <3>4. n <= h.executed /\ n <= MaxSteps /\ queue[i].st # "pending"  BY <3>2, <3>3 DEF InBudget
    <3>5. ASSUME NEW g \in HandlerType, g.executed = h.executed, CT!StepLeft(i, g) PROVE BudgetInv'
      <4>1. PICK g1 \in HandlerType :
              g1 = [g EXCEPT !.pc = "step", !.at = @ + 1, !.attempt = 0] /\ g1.pc = "step" /\ g1.executed = g.executed
        BY HandlerMoves
      <4>2. InBudget(queue[i].st, g1, n)  BY <4>1, <3>4, <3>5 DEF InBudget
      <4>3. CASE g.feedback  BY <4>3, <3>5, <2>1, <2>3 DEF CT!StepLeft
      <4>4. CASE ~g.feedback
        <5>1. CT!Goes(i, g1)  BY <4>4, <4>1, <3>5 DEF CT!StepLeft
        <5> QED  BY <5>1, <4>1, <4>2, <3>1, <2>1, <1>1, GoesOn
      <4> QED  BY <4>3, <4>4
    <3>6. CASE CT!StepLeft(i, [h EXCEPT !.feedback = FALSE])
      <4>1. [h EXCEPT !.feedback = FALSE] \in HandlerType /\ [h EXCEPT !.feedback = FALSE].executed = h.executed
        BY <3>3 DEF HandlerType
      <4> QED  BY <4>1, <3>5, <3>6
    <3>7. ASSUME NEW reason \in BOOLEAN, CT!StepRefused(i, h, reason) PROVE BudgetInv'
      <4>1. PICK g \in HandlerType :
              g = [h EXCEPT !.attempt = @ + 1, !.feedback = reason] /\ g.executed = h.executed
        <5>1. h \in HandlerType /\ reason \in BOOLEAN  BY <3>3, <3>7
        <5>2. [h EXCEPT !.attempt = h.attempt + 1, !.feedback = reason] \in HandlerType
          BY <5>1, HandlerMoves
        <5>3. [h EXCEPT !.attempt = h.attempt + 1, !.feedback = reason].executed = h.executed
          BY <5>1, HandlerMoves
        <5> QED  BY <5>2, <5>3
      <4>2. PICK g1 \in HandlerType :
              g1 = [g EXCEPT !.pc = "retry"] /\ g1.pc = "retry" /\ g1.executed = g.executed
        BY <4>1, HandlerMoves
      <4>3. CASE CT!MayRetry(g)
        <5>1. CT!Goes(i, g1)  BY <4>3, <4>1, <4>2, <3>7 DEF CT!StepRefused
        <5>2. InBudget(queue[i].st, g1, n)  BY <4>1, <4>2, <4>3, <3>4 DEF InBudget, CT!MayRetry
        <5> QED  BY <5>1, <5>2, <4>2, <3>1, <2>1, <1>1, GoesOn
      <4>4. CASE ~CT!MayRetry(g)
        <5>1. CT!StepLeft(i, g)  BY <4>4, <4>1, <3>7 DEF CT!StepRefused
        <5> QED  BY <5>1, <4>1, <3>5
      <4> QED  BY <4>3, <4>4
    <3> QED  BY <3>2, <3>3, <3>6, <3>7, <2>3, <1>4 DEF CT!PlanAnswered
  <2> QED  BY <2>2, <2>3
<1> QED  BY <1>2, <1>3, <1>4 DEF CT!Answered


LEMMA RequestStep ==
  ASSUME BudgetInv, MaxSteps \in Nat, NEW r \in Requests, NEW m \in CT!Machines, CT!Request(r, m)
  PROVE  BudgetInv'
<1> DEFINE row == CT!Row(r, m, 0)
           new == <<row>>
<1>1. row \in RowType /\ row.parent = 0 /\ row.st = "pending"
  BY DEF CT!Row, RowType, Kinds, Subs, Named
<1>2. new \in Seq(RowType) /\ DOMAIN new = {1} /\ new[1] = row /\ Len(new) = 1
  BY <1>1
<1>3. queue \in Seq(RowType) /\ run \in Seq(HandlerType) /\ Len(run) = Len(queue) /\ asked \in Nat
  BY DEF BudgetInv, QueueTyped
<1>4. queue' = queue \o new
  BY <1>1, <1>3, AppendIsConcat DEF CT!Request
<1>5. [k \in DOMAIN new |-> CT!Idle] = <<CT!Idle>>
  BY <1>2
<1>6. run' = run \o [k \in DOMAIN new |-> CT!Idle]
  BY <1>3, <1>5, IdleTyped, AppendIsConcat DEF CT!Request
<1>7. UNCHANGED project /\ asked' \in Nat
  BY <1>3 DEF CT!Request
<1>8. \A k \in DOMAIN new : new[k].parent = 0 /\ new[k].st = "pending"  BY <1>1, <1>2
<1> HIDE DEF new
<1> QED  BY <1>2, <1>3, <1>4, <1>6, <1>7, <1>8, IdleTyped, RowsAdded

LEMMA CreateStep ==
  ASSUME BudgetInv, MaxSteps \in Nat, NEW i \in DOMAIN queue, NEW m \in CT!Machines, CT!Create(i, m)
  PROVE  BudgetInv'
<1> DEFINE kinds == CT!Children(i)
           new == [k \in DOMAIN kinds |->
                     CT!Row([kind |-> kinds[k], sub |-> "", name |-> queue[i].name], m, i)]
           h == [run[i] EXCEPT !.pc = "wait", !.waits = Len(queue) + 1 .. Len(queue) + Len(new)]
           others == [run EXCEPT ![i] = h]
<1>1. /\ queue[i] \in RowType /\ run[i] \in HandlerType /\ i \in Nat \ {0}
      /\ queue \in Seq(RowType) /\ run \in Seq(HandlerType) /\ Len(run) = Len(queue) /\ asked \in Nat
      /\ DOMAIN run = DOMAIN queue
  BY RowTyped DEF BudgetInv, QueueTyped
<1>2. kinds \in {<<"agent", "agent">>, <<"plan">>, <<"agent">>}  BY DEF CT!Children
<1>3. queue[i].kind = "plan" => kinds = <<"agent">>  BY DEF CT!Children
<1>4. PICK n \in {1, 2} : n = Len(kinds) /\ DOMAIN kinds = 1..n /\ (queue[i].kind = "plan" => n = 1)
                          /\ \A k \in 1..n : kinds[k] \in Kinds
  BY <1>2, <1>3 DEF Kinds
<1>5. \A k \in 1..n : new[k] \in RowType /\ new[k].parent = i /\ new[k].st = "pending"
  BY <1>1, <1>4 DEF CT!Row, RowType, Subs
<1>6. new \in Seq(RowType) /\ Len(new) = n /\ DOMAIN new = 1..n
  <2>1. DOMAIN new = 1..n /\ n \in Nat  BY <1>4
  <2>2. new \in [1..n -> RowType]  BY <2>1, <1>5
  <2> HIDE DEF new
  <2> QED  BY <2>1, <2>2
<1>7. h \in HandlerType /\ h.pc = "wait" /\ h.executed = run[i].executed
  <2> HIDE DEF new
  <2>1. PICK a \in Nat, b \in Nat : a = Len(queue) /\ b = Len(new)
    <3>1. n \in Nat  BY <1>4
    <3>2. Len(queue) \in Nat  BY <1>1
    <3> QED  BY <3>1, <3>2, <1>6
  <2>2. Len(queue) + 1 .. Len(queue) + Len(new) \in SUBSET Nat  BY <2>1
  <2> QED  BY <1>1, <2>2 DEF HandlerType
<1>8. others \in Seq(HandlerType) /\ Len(others) = Len(queue) /\ others[i] = h
      /\ \A k \in DOMAIN queue : k # i => others[k] = run[k]
  BY <1>1, <1>7, ExceptSeq
<1>9. queue' = queue \o new /\ UNCHANGED <<project, asked>>
  BY DEF CT!Create
<1>10. run' = others \o [k \in DOMAIN new |-> CT!Idle]
  <2>1. [run EXCEPT ![i].pc = "wait", ![i].waits = Len(queue) + 1 .. Len(queue) + Len(new)] = others
    BY <1>1
  <2> QED  BY <2>1 DEF CT!Create
<1>11. queue[i].kind = "plan" => InBudget(queue[i].st, h, Cardinality(Made(i)) + 1)
  <2> SUFFICES ASSUME queue[i].kind = "plan" PROVE InBudget(queue[i].st, h, Cardinality(Made(i)) + 1)
    OBVIOUS
  <2>1. PICK c \in Nat : c = Cardinality(Made(i))  BY MadeFinite DEF BudgetInv
  <2>2. InBudget(queue[i].st, run[i], c)  BY <2>1 DEF BudgetInv, BudgetHeld
  <2>3. run[i].pc \in {"retry", "step"} /\ (run[i].pc = "step" => ~(run[i].executed >= MaxSteps))
    BY <2>2 DEF CT!Create, CT!Creating, CT!OutOfSteps, InBudget
  <2>4. PICK e \in Nat : e = run[i].executed  BY <1>1 DEF HandlerType
  <2>5. c <= e /\ e < MaxSteps /\ queue[i].st # "pending"  BY <2>2, <2>3, <2>4 DEF InBudget
  <2>6. c + 1 <= MaxSteps /\ c + 1 <= e + 1  BY <2>1, <2>4, <2>5
  <2> HIDE DEF h
  <2> QED  BY <2>1, <2>4, <2>5, <2>6, <1>7 DEF InBudget
<1>12. \A k \in DOMAIN new : new[k].parent = i /\ new[k].st = "pending"  BY <1>5, <1>6
<1>13. queue[i].kind = "plan" => Len(new) = 1  BY <1>4, <1>6
<1> HIDE DEF new, h, others
<1>14. asked' \in Nat /\ i # 0  BY <1>1, <1>9
<1> QED  BY <1>6, <1>8, <1>9, <1>10, <1>11, <1>12, <1>13, <1>14, IdleTyped, RowsAdded

LEMMA ProgressStep ==
  ASSUME BudgetInv, MaxSteps \in Nat, NEW i \in DOMAIN queue, CT!Progress(i)
  PROVE  BudgetInv'
<1>1. project \in Registry  BY DEF BudgetInv, QueueTyped
<1>2. ASSUME NEW st \in CT!Ended, CT!WorkEnds(i, st) PROVE BudgetInv'
  BY <1>1, <1>2, Answers DEF CT!WorkEnds
<1>3. ASSUME NEW m \in CT!Machines, CT!Create(i, m) PROVE BudgetInv'
  BY <1>3, CreateStep
<1>4. CASE CT!CreateFails(i)
  BY <1>4, AnsweredStep DEF CT!CreateFails
<1>5. CASE CT!PlanOver(i)
  BY <1>1, <1>5, Answers DEF CT!PlanOver, CT!Ended
<1>6. CASE CT!WaitEnds(i)
  BY <1>6, AnsweredStep DEF CT!WaitEnds
<1>7. CASE CT!WaitTimesOut(i)
  BY <1>7, AnsweredStep DEF CT!WaitTimesOut
<1> QED  BY <1>2, <1>3, <1>4, <1>5, <1>6, <1>7 DEF CT!Progress

\* The budget of steps of plan.py (max_steps) is a bound on the tasks a plan
\* puts in the queue, also with the retries of refused steps, calls that are
\* refused and waits that time out: CompositeTasks!StepsBounded for every
\* fleet, planner and owner.
THEOREM BudgetKept == CT!Spec => []StepsBounded
<1>1. CT!CompositeAssumption /\ MaxSteps \in Nat
  BY LiveAssumption DEF LiveAssumption, CT!CompositeAssumption
<1>2. CT!Init => BudgetInv
  <2> SUFFICES ASSUME CT!Init PROVE BudgetInv
    OBVIOUS
  <2>1. queue \in Seq(RowType) /\ run \in Seq(HandlerType) /\ Len(run) = Len(queue) /\ DOMAIN queue = {}
    BY DEF CT!Init
  <2>2. project \in Registry  BY IdleTyped DEF CT!Init, CT!Unknown, Registry, Statuses
  <2> QED  BY <2>1, <2>2 DEF CT!Init, BudgetInv, QueueTyped, ParentsFirst, BudgetHeld
<1>3. BudgetInv /\ [CT!Next]_ctVars => BudgetInv'
  <2> SUFFICES ASSUME BudgetInv, [CT!Next]_ctVars PROVE BudgetInv'
    OBVIOUS
  <2>1. CASE UNCHANGED ctVars
    BY <2>1 DEF ctVars, BudgetInv, QueueTyped, ParentsFirst, BudgetHeld, Made
  <2>2. CASE CT!Next
    BY <2>2, <1>1, RequestStep, ClaimStep, ProgressStep DEF CT!Next, CT!Rows
  <2> QED  BY <2>1, <2>2
<1>4. BudgetInv => StepsBounded
  <2> SUFFICES ASSUME BudgetInv PROVE CT!StepsBounded
    BY DEF StepsBounded
  <2>1. \A i \in DOMAIN queue : queue[i].kind = "plan" => Cardinality(Made(i)) <= MaxSteps
    BY DEF BudgetInv, BudgetHeld, InBudget
  <2>2. CT!Rows = DOMAIN queue  BY DEF CT!Rows
  <2>4. \A S : CT!Cardinality(S) = Cardinality(S)  BY Zenon DEF CT!Cardinality, Cardinality
  <2> SUFFICES ASSUME NEW i \in DOMAIN queue, queue[i].kind = "plan"
               PROVE  Cardinality({k \in CT!Rows : queue[k].parent = i}) <= MaxSteps
    BY <2>2, <2>4 DEF CT!StepsBounded
  <2>3. {k \in CT!Rows : queue[k].parent = i} = Made(i)  BY <2>2 DEF Made
  <2> QED  BY <2>1, <2>3
<1> QED  BY <1>2, <1>3, <1>4, PTL DEF CT!Spec, CT!vars, ctVars

------------------------------------------------------------------------------
(* ScrumDispatch: the jobs of a plan and their places.                     *)

Integrate(n) == <<"integrate", n>>
Validate == <<"validate", 0>>
Review == <<"review", 0>>

\* A plan that parse_plan has accepted has its layers.
LEMMA Layers ==
  ASSUME NEW p \in Plans
  PROVE  /\ p \in Seq([role : SD!Plannable, deps : SUBSET Nat, private : BOOLEAN])
         /\ \A k \in DOMAIN p : p[k].deps \subseteq DOMAIN p /\ p[k].role \in SD!Plannable
         /\ SD!Layer(p) \in [DOMAIN p -> 1..Len(p)]
         /\ \A k \in DOMAIN p : \A d \in p[k].deps : SD!Layer(p)[d] < SD!Layer(p)[k]
<1>1. /\ p \in Seq([role : SD!Plannable, deps : SUBSET Nat, private : BOOLEAN])
      /\ \A k \in DOMAIN p : p[k].deps \subseteq DOMAIN p
      /\ \E depth \in [DOMAIN p -> 1..Len(p)] : SD!IsLayering(p, depth)
  BY LiveAssumption DEF LiveAssumption, SD!DispatchAssumption
<1>2. SD!Layer(p) \in [DOMAIN p -> 1..Len(p)] /\ SD!IsLayering(p, SD!Layer(p))
  BY <1>1 DEF SD!Layer
<1>3. ASSUME NEW k \in DOMAIN p PROVE p[k].role \in SD!Plannable
  <2>1. p[k] \in [role : SD!Plannable, deps : SUBSET Nat, private : BOOLEAN]
    <3>1. PICK S : S = [role : SD!Plannable, deps : SUBSET Nat, private : BOOLEAN]  OBVIOUS
    <3>2. p \in Seq(S)  BY <1>1, <3>1
    <3>3. k \in 1..Len(p)  BY <3>2, LenProperties
    <3>4. p[k] \in S  BY <3>2, <3>3, ElementOfSeq
    <3> QED  BY <3>1, <3>4
  <2> QED  BY <2>1
<1> QED  BY <1>1, <1>2, <1>3 DEF SD!IsLayering

LEMMA JobKinds ==
  ASSUME NEW p \in Plans, NEW job \in SD!Jobs(p)
  PROVE  \/ \E k \in DOMAIN p : job = SD!Task(k)
         \/ \E k \in DOMAIN p : SD!TextOnly(p, k) /\ job = Integrate(SD!Layer(p)[k])
         \/ job = Validate
         \/ job = Review
BY DEF SD!Jobs, Integrate, Validate, Review

LEMMA PlaceOf ==
  ASSUME NEW p
  PROVE  /\ \A k : SD!Place(p, SD!Task(k)) = IF SD!TextOnly(p, k) THEN <<SD!Layer(p)[k], 0, 0>>
                                              ELSE <<SD!Layer(p)[k], 2, k>>
         /\ \A n : SD!Place(p, Integrate(n)) = <<n, 1, 0>>
         /\ SD!Place(p, Validate) = <<Len(p) + 1, 0, 0>>
         /\ SD!Place(p, Review) = <<Len(p) + 1, 1, 0>>
BY DEF SD!Place, SD!Task, Integrate, Validate, Review

\* What the order of the places needs to know of a job.
LEMMA PlaceBounds ==
  ASSUME NEW p \in Plans, NEW job \in SD!Jobs(p)
  PROVE  /\ SD!Place(p, job) \in Nat \X Nat \X Nat
         /\ SD!Place(p, job)[2] = 0 => SD!Place(p, job)[3] = 0
         /\ \A k \in DOMAIN p : job = SD!Task(k) => SD!Place(p, job)[1] = SD!Layer(p)[k]
         /\ \A k \in DOMAIN p : SD!Layer(p)[k] \in Nat /\ SD!Layer(p)[k] <= Len(p) /\ Len(p) \in Nat
<1>1. PICK n \in Nat : n = Len(p) /\ DOMAIN p = 1..n  BY Layers
<1>2. \A k \in DOMAIN p : k \in Nat /\ SD!Layer(p)[k] \in Nat /\ SD!Layer(p)[k] <= Len(p)  BY <1>1, Layers
<1>3. CASE \E k \in DOMAIN p : job = SD!Task(k)
  <2>1. PICK k \in DOMAIN p : job = SD!Task(k)  BY <1>3
  <2>2. \A i : SD!Task(i) = SD!Task(k) => i = k  BY DEF SD!Task
  <2>3. PICK l \in Nat, i \in Nat : l = SD!Layer(p)[k] /\ i = k  BY <1>2
  <2>4. SD!Place(p, job) = <<l, 0, 0>> \/ SD!Place(p, job) = <<l, 2, i>>
    BY <2>1, <2>3, PlaceOf
  <2>5. <<l, 0, 0>> \in Nat \X Nat \X Nat /\ <<l, 2, i>> \in Nat \X Nat \X Nat  BY <2>3
  <2> QED  BY <2>1, <2>2, <2>3, <2>4, <2>5, <1>1, <1>2
<1>4. CASE \E k \in DOMAIN p : job = Integrate(SD!Layer(p)[k])
  <2>1. PICK l \in Nat : job = Integrate(l)  BY <1>4, <1>2
  <2>2. SD!Place(p, job) = <<l, 1, 0>> /\ \A k : job # SD!Task(k)
    BY <2>1, PlaceOf DEF Integrate, SD!Task
  <2> QED  BY <2>1, <2>2, <1>1, <1>2
<1>5. CASE job \in {Validate, Review}
  <2>1. SD!Place(p, job) = <<n + 1, 0, 0>> \/ SD!Place(p, job) = <<n + 1, 1, 0>>
    BY <1>5, <1>1, PlaceOf
  <2>2. \A k : job # SD!Task(k)
    BY <1>5 DEF Validate, Review, SD!Task
  <2>3. <<n + 1, 0, 0>> \in Nat \X Nat \X Nat /\ <<n + 1, 1, 0>> \in Nat \X Nat \X Nat  BY <1>1
  <2> QED  BY <2>1, <2>2, <2>3, <1>1, <1>2
<1> QED  BY <1>3, <1>4, <1>5, JobKinds

LEMMA TaskPlace ==
  ASSUME NEW p \in Plans, NEW k \in DOMAIN p
  PROVE  SD!Task(k) \in SD!Jobs(p) /\ SD!Place(p, SD!Task(k))[1] = SD!Layer(p)[k]
<1>1. SD!Task(k) \in SD!Jobs(p)  BY DEF SD!Jobs
<1> QED  BY <1>1, PlaceBounds

\* The order of places is a strict one, and total.
LEMMA EarlierOrder ==
  ASSUME NEW a \in Nat \X Nat \X Nat, NEW b \in Nat \X Nat \X Nat, NEW c \in Nat \X Nat \X Nat
  PROVE  /\ ~SD!Earlier(a, a)
         /\ SD!Earlier(a, b) => ~SD!Earlier(b, a)
         /\ ~SD!Earlier(a, b) /\ ~SD!Earlier(b, a) => a = b
         /\ SD!Earlier(a, b) /\ ~SD!Earlier(a, c) => SD!Earlier(c, b)
BY DEF SD!Earlier

\* File editors and the jobs of the dispatcher have a place of their own.
LEMMA PlacesApart ==
  ASSUME NEW p \in Plans, NEW x \in SD!Jobs(p), NEW y \in SD!Jobs(p),
         \A k \in DOMAIN p : x = SD!Task(k) \/ y = SD!Task(k) => ~SD!TextOnly(p, k),
         SD!Place(p, x) = SD!Place(p, y)
  PROVE  x = y
<1>1. PICK n \in Nat : n = Len(p)  BY Layers
<1>2. ASSUME NEW z \in SD!Jobs(p), \A k \in DOMAIN p : z = SD!Task(k) => ~SD!TextOnly(p, k)
      PROVE  \/ \E k \in DOMAIN p : z = SD!Task(k) /\ SD!Place(p, z) = <<SD!Layer(p)[k], 2, k>>
             \/ \E l \in 0..n : z = Integrate(l) /\ SD!Place(p, z) = <<l, 1, 0>>
             \/ z = Validate /\ SD!Place(p, z) = <<n + 1, 0, 0>>
             \/ z = Review /\ SD!Place(p, z) = <<n + 1, 1, 0>>
  <2>1. CASE \E k \in DOMAIN p : z = SD!Task(k)
    BY <2>1, <1>2, PlaceOf
  <2>2. CASE \E k \in DOMAIN p : z = Integrate(SD!Layer(p)[k])
    <3>1. PICK k \in DOMAIN p : z = Integrate(SD!Layer(p)[k])  BY <2>2
    <3>2. SD!Layer(p)[k] \in 0..n  BY <1>1, Layers
    <3> QED  BY <3>1, <3>2, PlaceOf
  <2>3. CASE z = Validate \/ z = Review
    BY <2>3, <1>1, PlaceOf
  <2> QED  BY <2>1, <2>2, <2>3, <1>2, JobKinds
<1>3. PICK px, py : px = SD!Place(p, x) /\ py = SD!Place(p, y) /\ px = py  OBVIOUS
<1>4. \/ \E k \in DOMAIN p : x = SD!Task(k) /\ px = <<SD!Layer(p)[k], 2, k>>
      \/ \E l \in 0..n : x = Integrate(l) /\ px = <<l, 1, 0>>
      \/ x = Validate /\ px = <<n + 1, 0, 0>>
      \/ x = Review /\ px = <<n + 1, 1, 0>>
  BY <1>2, <1>3
<1>5. \/ \E k \in DOMAIN p : y = SD!Task(k) /\ px = <<SD!Layer(p)[k], 2, k>>
      \/ \E l \in 0..n : y = Integrate(l) /\ px = <<l, 1, 0>>
      \/ y = Validate /\ px = <<n + 1, 0, 0>>
      \/ y = Review /\ px = <<n + 1, 1, 0>>
  BY <1>2, <1>3
<1> QED  BY <1>1, <1>4, <1>5

------------------------------------------------------------------------------
(* ScrumDispatch: the invariant.                                           *)

At(job) == SD!Place(plan, job)

\* The jobs of later batches, of this one, and of those that have ended.
Left    == {x.job : x \in go.left}
Awaited == {id[2] : id \in go.wait}
Batched == go.todo \cup Awaited
Past    == SD!Jobs(plan) \ (Left \cup Batched)

RowState ==
  [st : {"queued", "running", "done", "failed"}, by : Agents \cup {None}]

GoType ==
  [n : Gos \cup {0}, left : SUBSET SD!Steps(plan), todo : SUBSET SD!Jobs(plan),
   wait : SUBSET ((Gos \cup {0}) \X SD!Jobs(plan) \X {1, 2}),
   st : {"none", "running", "stopped", "finished"}]

RowsSound == \A id \in DOMAIN rows : rows[id] \in RowState

DispatchTyped ==
  /\ plan \in Plans /\ go \in GoType /\ RowsSound
  /\ \A id \in go.wait : id \in DOMAIN rows /\ id[1] = go.n

\* A batch has one place, and what is left comes after it.
BatchOrder ==
  /\ \A x, y \in Batched : At(x) = At(y)
  /\ \A x \in Batched, y \in Left : SD!Earlier(At(x), At(y))

Integrated(g, n) ==
  \E i \in DOMAIN rows : i[1] = g /\ i[2] = Integrate(n) /\ rows[i].st = "done"

\* Task k was queued for code, and the row's answer is the code.
Coded(a, k) == rows[a].by = "deepseek" /\ SD!ReturnsCode(plan, k)

\* Task k has been answered, and code of DeepSeek's is integrated or about to be.
HasAnswer(k) ==
  \E a \in SD!Answers(go.n, k) : Coded(a, k) =>
    Integrate(SD!Layer(plan)[k]) \in Batched \/ Integrated(go.n, SD!Layer(plan)[k])

PastAnswered ==
  go.st = "running" =>
    /\ \A x \in Past, y \in Batched \cup Left : ~SD!Earlier(At(y), At(x))
    /\ \A k \in DOMAIN plan : SD!Task(k) \in Past => HasAnswer(k)

\* What DependenciesFirst asks of one row.
DepsDone(id) ==
  /\ id[2][1] = "task" => \A d \in plan[id[2][2]].deps :
       \E a \in SD!Answers(id[1], d) :
         Coded(a, d) => Integrated(id[1], SD!Layer(plan)[d])
  /\ id[2][1] = "review" => \A k \in DOMAIN plan : SD!Answers(id[1], k) # {}

DispatchInv == DispatchTyped /\ BatchOrder /\ PastAnswered /\ \A id \in DOMAIN rows : DepsDone(id)

\* What is done stays done, by whom it was.
RowsKept ==
  \A id \in DOMAIN rows :
    id \in DOMAIN rows' /\ (rows[id].st = "done" => rows'[id] = rows[id])

LEMMA AnswersKept ==
  ASSUME RowsKept, UNCHANGED plan, NEW g, NEW k
  PROVE  /\ \A a \in SD!Answers(g, k) : a \in SD!Answers(g, k)' /\ (Coded(a, k)' <=> Coded(a, k))
         /\ \A n : Integrated(g, n) => Integrated(g, n)'
BY DEF RowsKept, SD!Answers, SD!Rows, Integrated, Coded, SD!ReturnsCode

LEMMA DepsKept ==
  ASSUME RowsKept, UNCHANGED plan, NEW id, DepsDone(id)
  PROVE  DepsDone(id)'
<1>1. ASSUME id[2][1] = "task", NEW d \in plan[id[2][2]].deps
      PROVE  \E a \in SD!Answers(id[1], d)' : Coded(a, d)' =>
               Integrated(id[1], SD!Layer(plan)[d])'
  <2>1. PICK a \in SD!Answers(id[1], d) : Coded(a, d) => Integrated(id[1], SD!Layer(plan)[d])
    BY <1>1 DEF DepsDone
  <2> QED  BY <2>1, AnswersKept
<1>2. ASSUME id[2][1] = "review", NEW k \in DOMAIN plan PROVE SD!Answers(id[1], k)' # {}
  BY <1>2, AnswersKept DEF DepsDone
<1>3. SD!Layer(plan)' = SD!Layer(plan)  OBVIOUS
<1> QED  BY <1>1, <1>2, <1>3 DEF DepsDone

LEMMA RowsAddedKept ==
  ASSUME NEW ids, rows' = SD!NewRows(ids)
  PROVE  /\ RowsKept /\ DOMAIN rows' = DOMAIN rows \cup ids
         /\ \A id \in DOMAIN rows : rows'[id] = rows[id]
         /\ \A id \in ids \ DOMAIN rows : rows'[id] = [st |-> "queued", by |-> None]
BY DEF SD!NewRows, SD!Rows, RowsKept

\* A job that is ready to be queued has what it depends on.
LEMMA ReadyDeps ==
  ASSUME DispatchInv, go.st = "running", NEW job \in go.todo, NEW c
  PROVE  DepsDone(<<go.n, job, c>>)
<1>1. plan \in Plans /\ job \in SD!Jobs(plan) /\ job \in Batched
  BY DEF DispatchInv, DispatchTyped, GoType, Batched
<1> DEFINE id == <<go.n, job, c>>
<1>2. id[1] = go.n /\ id[2] = job  OBVIOUS
<1>3. ASSUME NEW d \in DOMAIN plan, SD!Earlier(At(SD!Task(d)), At(job)),
             Integrate(SD!Layer(plan)[d]) \notin Batched
      PROVE  \E a \in SD!Answers(go.n, d) : Coded(a, d) => Integrated(go.n, SD!Layer(plan)[d])
  <2>1. SD!Task(d) \in SD!Jobs(plan)  BY DEF SD!Jobs
  <2>2. At(SD!Task(d)) \in Nat \X Nat \X Nat /\ At(job) \in Nat \X Nat \X Nat
    BY <1>1, <2>1, PlaceBounds DEF At
  <2>3. SD!Task(d) \notin Left  BY <1>1, <1>3, <2>2, EarlierOrder DEF DispatchInv, BatchOrder
  <2>4. SD!Task(d) \notin Batched
    <3> SUFFICES ASSUME SD!Task(d) \in Batched PROVE FALSE
      OBVIOUS
    <3>1. At(SD!Task(d)) = At(job)  BY <1>1 DEF DispatchInv, BatchOrder
    <3> QED  BY <3>1, <1>3, <2>2, EarlierOrder
  <2>5. HasAnswer(d)  BY <2>1, <2>3, <2>4 DEF DispatchInv, PastAnswered, Past
  <2> QED  BY <2>5, <1>3 DEF HasAnswer
<1>4. ASSUME job[1] = "task", NEW d \in plan[job[2]].deps
      PROVE  \E a \in SD!Answers(go.n, d) : Coded(a, d) => Integrated(go.n, SD!Layer(plan)[d])
  <2>1. PICK k \in DOMAIN plan : job = SD!Task(k)
    BY <1>1, <1>4, JobKinds DEF Integrate, Validate, Review
  <2>2. d \in plan[k].deps /\ d \in DOMAIN plan  BY <1>1, <1>4, <2>1, Layers DEF SD!Task
  <2>3. SD!Layer(plan)[d] < SD!Layer(plan)[k]  BY <1>1, <2>2, Layers
  <2>4. At(job)[1] = SD!Layer(plan)[k] /\ At(SD!Task(d))[1] = SD!Layer(plan)[d]
    BY <1>1, <2>1, <2>2, TaskPlace DEF At
  <2>5. SD!Earlier(At(SD!Task(d)), At(job))  BY <2>3, <2>4 DEF SD!Earlier
  <2>6. At(Integrate(SD!Layer(plan)[d])) # At(job)
    <3>1. At(Integrate(SD!Layer(plan)[d]))[1] = SD!Layer(plan)[d]  BY PlaceOf DEF At
    <3>2. SD!Layer(plan)[d] \in Nat /\ SD!Layer(plan)[k] \in Nat  BY <1>1, <2>2, PlaceBounds
    <3> QED  BY <3>1, <3>2, <2>3, <2>4
  <2> QED  BY <1>1, <1>3, <2>2, <2>5, <2>6 DEF DispatchInv, BatchOrder
<1>5. ASSUME job[1] = "review", NEW k \in DOMAIN plan PROVE SD!Answers(go.n, k) # {}
  <2>1. job = Review
    BY <1>1, <1>5, JobKinds DEF Integrate, Validate, SD!Task
  <2>2. PICK n \in Nat, l \in Nat : n = Len(plan) /\ l = SD!Layer(plan)[k] /\ l <= n
    BY <1>1, PlaceBounds
  <2>3. At(job) = <<n + 1, 1, 0>> /\ At(SD!Task(k))[1] = l /\ At(Integrate(l)) = <<l, 1, 0>>
    BY <1>1, <2>1, <2>2, PlaceOf, TaskPlace DEF At
  <2>4. SD!Earlier(At(SD!Task(k)), At(job))  BY <2>2, <2>3 DEF SD!Earlier
  <2>5. At(Integrate(l)) # At(job)  BY <2>2, <2>3
  <2>6. Integrate(l) \notin Batched  BY <2>5, <1>1 DEF DispatchInv, BatchOrder
  <2> QED  BY <1>3, <2>2, <2>4, <2>6
<1> HIDE DEF id
<1> QED  BY <1>2, <1>4, <1>5 DEF DepsDone, id


JobsOf(steps) == {x.job : x \in steps}

LEMMA StepAt ==
  ASSUME NEW x \in SD!Steps(plan)
  PROVE  x.job \in SD!Jobs(plan) /\ x.at = At(x.job)
BY DEF SD!Steps, At

\* Going on with these steps: the first ones become the batch.
LEMMA OnBatch ==
  ASSUME plan \in Plans, UNCHANGED plan, NEW g \in Gos \cup {0},
         NEW steps \in SUBSET SD!Steps(plan), go' = SD!On(g, steps)
  PROVE  /\ go' \in GoType' /\ go'.st = "running" /\ go'.n = g /\ go'.wait = {}
         /\ BatchOrder'
         /\ Left' \cup Batched' = JobsOf(steps)
         /\ Batched' = JobsOf(SD!Batch(steps))
<1>1. /\ go'.n = g /\ go'.left = steps \ SD!Batch(steps) /\ go'.todo = {x.job : x \in SD!Batch(steps)}
      /\ go'.wait = {} /\ go'.st = "running"
      /\ go' = [n |-> go'.n, left |-> go'.left, todo |-> go'.todo, wait |-> go'.wait, st |-> go'.st]
  BY DEF SD!On
<1>2. SD!Batch(steps) \subseteq steps  BY DEF SD!Batch
<1>3. \A x \in steps : x.job \in SD!Jobs(plan) /\ x.at = At(x.job) /\ x.at \in Nat \X Nat \X Nat
  BY StepAt, PlaceBounds DEF At
<1>4. go' \in GoType'
  <2>1. go'.left \in SUBSET SD!Steps(plan) /\ go'.todo \in SUBSET SD!Jobs(plan)
    BY <1>1, <1>2, <1>3
  <2>2. go'.wait \in SUBSET ((Gos \cup {0}) \X SD!Jobs(plan) \X {1, 2})  BY <1>1
  <2>3. GoType' = GoType  BY DEF GoType
  <2> QED  BY <1>1, <2>1, <2>2, <2>3 DEF GoType
<1>5. Batched' = JobsOf(SD!Batch(steps)) /\ Left' = JobsOf(steps \ SD!Batch(steps))
  BY <1>1 DEF Batched, Awaited, Left, JobsOf
<1>6. BatchOrder'
  <2>1. ASSUME NEW x \in SD!Batch(steps), NEW y \in SD!Batch(steps) PROVE x.at = y.at
    BY <2>1, <1>2, <1>3, EarlierOrder DEF SD!Batch
  <2>2. ASSUME NEW x \in SD!Batch(steps), NEW y \in steps \ SD!Batch(steps) PROVE SD!Earlier(x.at, y.at)
    <3>1. PICK z \in steps : SD!Earlier(z.at, y.at)  BY <2>2 DEF SD!Batch
    <3>2. ~SD!Earlier(z.at, x.at)  BY <2>2 DEF SD!Batch
    <3> QED  BY <3>1, <3>2, <1>2, <1>3, EarlierOrder
  <2>3. \A x \in Batched', y \in Batched' : At(x) = At(y)
    BY <2>1, <1>2, <1>3, <1>5 DEF JobsOf
  <2>4. \A x \in Batched', y \in Left' : SD!Earlier(At(x), At(y))
    BY <2>2, <1>2, <1>3, <1>5 DEF JobsOf
  <2>5. \A x : At(x)' = At(x)  BY DEF At
  <2> QED  BY <2>3, <2>4, <2>5 DEF BatchOrder
<1>7. Left' \cup Batched' = JobsOf(steps)  BY <1>2, <1>5 DEF JobsOf
<1> QED  BY <1>1, <1>4, <1>5, <1>6, <1>7

\* The dispatch goes on with some of what is left: whatever is behind it now
\* has an answer, and what was skipped came first.
LEMMA Advances ==
  ASSUME DispatchInv, go.st = "running", UNCHANGED plan, RowsSound',
         \A id \in DOMAIN rows' : DepsDone(id)',
         NEW steps \in SUBSET go.left, go' = SD!On(go.n, steps),
         go.left \ steps \subseteq SD!Batch(go.left),
         \A k \in DOMAIN plan : SD!Task(k) \notin JobsOf(steps) => HasAnswer(k)'
  PROVE  DispatchInv'
<1>1. plan \in Plans /\ go \in GoType /\ go.n \in Gos \cup {0} /\ go.left \subseteq SD!Steps(plan)
  BY DEF DispatchInv, DispatchTyped, GoType
<1>2. /\ go' \in GoType' /\ go'.st = "running" /\ go'.n = go.n /\ go'.wait = {}
      /\ BatchOrder' /\ Left' \cup Batched' = JobsOf(steps)
  BY <1>1, OnBatch
<1>3. DispatchTyped'  BY <1>1, <1>2 DEF DispatchTyped
<1>4. \A x \in go.left : x.job \in Left /\ x.at = At(x.job) /\ x.at \in Nat \X Nat \X Nat
  BY <1>1, StepAt, PlaceBounds DEF At, Left
<1>5. \A x \in SD!Jobs(plan) : At(x) \in Nat \X Nat \X Nat  BY <1>1, PlaceBounds DEF At
<1>6. \A j \in JobsOf(steps) : j \in Left /\ j \in SD!Jobs(plan)
  BY <1>1, <1>4, StepAt DEF JobsOf
<1>7. ASSUME NEW x \in SD!Jobs(plan), x \notin JobsOf(steps), NEW y \in JobsOf(steps)
      PROVE  ~SD!Earlier(At(y), At(x))
  <2>1. CASE x \in Past  BY <2>1, <1>6, <1>7 DEF DispatchInv, PastAnswered
  <2>2. CASE x \in Batched
    <3>1. SD!Earlier(At(x), At(y))  BY <2>2, <1>6, <1>7 DEF DispatchInv, BatchOrder
    <3> QED  BY <3>1, <1>5, <1>6, <1>7, EarlierOrder
  <2>3. CASE x \in Left
    <3>1. PICK z \in go.left : z.job = x  BY <2>3 DEF Left
    <3>2. z \in SD!Batch(go.left)  BY <3>1, <1>7 DEF JobsOf
    <3>3. PICK w \in steps : w.job = y  BY <1>7 DEF JobsOf
    <3>4. ~SD!Earlier(w.at, z.at)  BY <3>2, <3>3 DEF SD!Batch
    <3> QED  BY <3>1, <3>3, <3>4, <1>4
  <2> QED  BY <2>1, <2>2, <2>3, <1>7 DEF Past
<1>8. Past' = SD!Jobs(plan) \ JobsOf(steps)  BY <1>2 DEF Past
<1>9. PastAnswered'
  <2>1. \A x : At(x)' = At(x)  BY DEF At
  <2>2. \A x \in Past', y \in (Batched \cup Left)' : ~SD!Earlier(At(y)', At(x)')
    BY <1>2, <1>7, <1>8, <2>1
  <2>3. \A k \in DOMAIN plan : SD!Task(k) \in Past' => HasAnswer(k)'  BY <1>8
  <2> QED  BY <2>2, <2>3 DEF PastAnswered
<1> QED  BY <1>2, <1>3, <1>9 DEF DispatchInv


LEMMA AnswerKept ==
  ASSUME RowsKept, UNCHANGED plan, go'.n = go.n, NEW k, HasAnswer(k),
         Integrate(SD!Layer(plan)[k]) \in Batched =>
           Integrate(SD!Layer(plan)[k]) \in Batched' \/ Integrated(go.n, SD!Layer(plan)[k])'
  PROVE  HasAnswer(k)'
<1>1. PICK g, l : g = go.n /\ g = go'.n /\ l = SD!Layer(plan)[k] /\ l = SD!Layer(plan')[k]  OBVIOUS
<1>2. PICK a \in SD!Answers(g, k) : Coded(a, k) => Integrate(l) \in Batched \/ Integrated(g, l)
  BY <1>1 DEF HasAnswer
<1>3. a \in SD!Answers(g, k)' /\ (Coded(a, k)' <=> Coded(a, k)) /\ (Integrated(g, l) => Integrated(g, l)')
  BY AnswersKept
<1>4. Integrated(go.n, SD!Layer(plan)[k])' <=> Integrated(g, l)'
  BY <1>1 DEF Integrated
<1>5. Coded(a, k)' => Integrate(l) \in Batched' \/ Integrated(g, l)'
  BY <1>1, <1>2, <1>3, <1>4
<1>6. \E i \in SD!Answers(g, k)' : Coded(i, k)' => Integrate(l) \in Batched' \/ Integrated(g, l)'
  BY <1>3, <1>5
<1>7. HasAnswer(k)' <=> \E i \in SD!Answers(g, k)' : Coded(i, k)' =>
                           Integrate(l) \in Batched' \/ Integrated(g, l)'
  BY <1>1 DEF HasAnswer, SD!Answers, Integrated
<1> QED  BY <1>6, <1>7

LEMMA Roles ==
  ASSUME DispatchInv
  PROVE  /\ \A k \in DOMAIN plan : SD!RoleOf(SD!Task(k)) = plan[k].role /\ plan[k].role \in SD!Plannable
         /\ \A n : SD!RoleOf(Integrate(n)) = "integrator"
         /\ SD!RoleOf(Validate) = "tester" /\ SD!RoleOf(Review) = "reviewer"
<1>1. plan \in Plans  BY DEF DispatchInv, DispatchTyped
<1>2. \A k \in DOMAIN plan : plan[k].role \in SD!Plannable  BY <1>1, Layers
<1> QED  BY <1>2 DEF SD!RoleOf, SD!Task, Integrate, Validate, Review

LEMMA StartStep ==
  ASSUME DispatchInv, SD!StartGo
  PROVE  DispatchInv'
<1>1. /\ plan \in Plans /\ go.n + 1 \in Gos \cup {0} /\ UNCHANGED <<plan, rows>>
      /\ go' = SD!On(go.n + 1, SD!Steps(plan))
  BY DEF DispatchInv, DispatchTyped, SD!StartGo
<1>2. /\ go' \in GoType' /\ go'.wait = {} /\ BatchOrder'
      /\ Left' \cup Batched' = JobsOf(SD!Steps(plan))
  BY <1>1, OnBatch
<1>3. JobsOf(SD!Steps(plan)) = SD!Jobs(plan)
  <2>1. ASSUME NEW job \in SD!Jobs(plan) PROVE job \in JobsOf(SD!Steps(plan))
    <3>1. PICK x : x = [job |-> job, at |-> SD!Place(plan, job)]  OBVIOUS
    <3>2. x \in SD!Steps(plan) /\ x.job = job  BY <3>1 DEF SD!Steps
    <3> QED  BY <3>2 DEF JobsOf
  <2> QED  BY <2>1, StepAt DEF JobsOf
<1>4. Past' = {}  BY <1>1, <1>2, <1>3 DEF Past
<1>5. PastAnswered'  BY <1>4 DEF PastAnswered
<1>6. RowsSound'  BY <1>1 DEF DispatchInv, DispatchTyped, RowsSound, RowState
<1>7. RowsKept  BY <1>1 DEF RowsKept
<1>8. \A id \in DOMAIN rows' : DepsDone(id)'  BY <1>1, <1>7, DepsKept DEF DispatchInv
<1>9. DispatchTyped'  BY <1>1, <1>2, <1>6 DEF DispatchTyped
<1> QED  BY <1>2, <1>5, <1>8, <1>9 DEF DispatchInv

\* The tester's step fails: what came before it has been answered for long.
LEMMA TesterNoted ==
  ASSUME DispatchInv, go.st = "running", NEW job \in Batched, SD!RoleOf(job) = "tester",
         UNCHANGED plan, RowsKept, RowsSound', \A id \in DOMAIN rows' : DepsDone(id)',
         go' = SD!On(go.n, go.left)
  PROVE  DispatchInv'
<1>1. plan \in Plans /\ go \in GoType /\ Batched \subseteq SD!Jobs(plan) /\ go.left \subseteq SD!Steps(plan)
  BY DEF DispatchInv, DispatchTyped, GoType, Batched, Awaited
<1>2. job = Validate  BY <1>1, Roles, JobKinds DEF SD!Plannable, SD!Dev
<1>3. PICK n \in Nat : n = Len(plan)  BY <1>1, Layers
<1>4. At(job) = <<n + 1, 0, 0>>  BY <1>2, <1>3, PlaceOf DEF At
<1>5. ASSUME NEW k \in DOMAIN plan, SD!Task(k) \notin JobsOf(go.left) PROVE HasAnswer(k)'
  <2>1. PICK l \in Nat : l = SD!Layer(plan)[k] /\ l <= n  BY <1>1, <1>3, PlaceBounds
  <2>2. At(SD!Task(k))[1] = l /\ SD!Task(k) \in SD!Jobs(plan) /\ At(Integrate(l)) = <<l, 1, 0>>
    BY <1>1, <2>1, TaskPlace, PlaceOf DEF At
  <2>3. At(SD!Task(k)) # At(job) /\ At(Integrate(l)) # At(job)  BY <1>3, <1>4, <2>1, <2>2
  <2>4. SD!Task(k) \notin Batched /\ Integrate(l) \notin Batched
    BY <2>3 DEF DispatchInv, BatchOrder
  <2>5. SD!Task(k) \in Past  BY <1>5, <2>2, <2>4 DEF Past, Left, JobsOf
  <2>6. HasAnswer(k)  BY <2>5 DEF DispatchInv, PastAnswered
  <2>7. go'.n = go.n  BY DEF SD!On
  <2> QED  BY <2>1, <2>4, <2>6, <2>7, AnswerKept
<1> QED  BY <1>5, Advances

\* A step that leaves the batch as it is, and may stop the dispatch.
LEMMA BatchStays ==
  ASSUME DispatchInv, UNCHANGED plan, RowsKept, RowsSound', \A id \in DOMAIN rows' : DepsDone(id)',
         go' \in GoType, \A id \in go'.wait : id \in DOMAIN rows' /\ id[1] = go'.n,
         go'.n = go.n, go'.left = go.left, Batched' = Batched, go'.st = "running" => go.st = "running"
  PROVE  DispatchInv'
<1>1. Left' = Left /\ Past' = Past /\ \A x : At(x)' = At(x)  BY DEF Left, Past, At
<1>2. BatchOrder'  BY <1>1 DEF DispatchInv, BatchOrder
<1>3. \A k : HasAnswer(k) => HasAnswer(k)'  BY AnswerKept
<1>4. PastAnswered'  BY <1>1, <1>3 DEF DispatchInv, PastAnswered
<1>5. GoType' = GoType  BY DEF GoType
<1>6. DispatchTyped'  BY <1>5 DEF DispatchInv, DispatchTyped
<1> QED  BY <1>2, <1>4, <1>6 DEF DispatchInv

LEMMA DispatchInit ==
  ASSUME SD!Init
  PROVE  DispatchInv
<1>1. /\ plan \in Plans /\ DOMAIN rows = {}
      /\ go = [n |-> 0, left |-> {}, todo |-> {}, wait |-> {}, st |-> "none"]
  BY DEF SD!Init
<1>2. go \in GoType  BY <1>1 DEF GoType
<1>3. Batched = {} /\ Left = {}  BY <1>1 DEF Batched, Awaited, Left
<1> QED  BY <1>1, <1>2, <1>3 DEF DispatchInv, DispatchTyped, RowsSound, BatchOrder, PastAnswered

\* Rows are put in the queue for a job whose turn it is.
LEMMA JobQueued ==
  ASSUME DispatchInv, UNCHANGED plan, go.st = "running", NEW job \in go.todo,
         NEW copies, rows' = SD!NewRows({<<go.n, job, c>> : c \in copies})
  PROVE  /\ RowsKept /\ RowsSound' /\ \A id \in DOMAIN rows' : DepsDone(id)'
         /\ DOMAIN rows' = DOMAIN rows \cup {<<go.n, job, c>> : c \in copies}
<1>1. PICK ids : ids = {<<go.n, job, c>> : c \in copies}  OBVIOUS
<1>2. /\ RowsKept /\ DOMAIN rows' = DOMAIN rows \cup ids
      /\ \A id \in DOMAIN rows : rows'[id] = rows[id]
      /\ \A id \in ids \ DOMAIN rows : rows'[id] = [st |-> "queued", by |-> None]
  BY <1>1, RowsAddedKept
<1>3. RowsSound'
  <2> SUFFICES ASSUME NEW id \in DOMAIN rows' PROVE rows'[id] \in RowState
    BY DEF RowsSound, RowState
  <2>1. CASE id \in DOMAIN rows  BY <1>2, <2>1 DEF DispatchInv, DispatchTyped, RowsSound
  <2>2. CASE id \in ids \ DOMAIN rows  BY <1>2, <2>2 DEF RowState
  <2> QED  BY <1>2, <2>1, <2>2
<1>4. ASSUME NEW id \in DOMAIN rows' PROVE DepsDone(id)'
  <2>1. DepsDone(id)
    <3>1. CASE id \in DOMAIN rows  BY <3>1 DEF DispatchInv
    <3>2. CASE id \in ids  BY <3>2, <1>1, ReadyDeps
    <3> QED  BY <3>1, <3>2, <1>2, <1>4
  <2> QED  BY <2>1, <1>2, DepsKept
<1> QED  BY <1>1, <1>2, <1>3, <1>4

\* The dispatch stops where it is.
LEMMA StopStep ==
  ASSUME DispatchInv, UNCHANGED plan, RowsKept, RowsSound', \A id \in DOMAIN rows' : DepsDone(id)',
         go' = [go EXCEPT !.st = "stopped"]
  PROVE  DispatchInv'
<1>1. go \in GoType  BY DEF DispatchInv, DispatchTyped
<1>2. /\ go'.n = go.n /\ go'.left = go.left /\ go'.todo = go.todo /\ go'.wait = go.wait
      /\ go'.st = "stopped" /\ go' \in GoType
  BY <1>1 DEF GoType
<1>3. Batched' = Batched  BY <1>2 DEF Batched, Awaited
<1>4. \A id \in go'.wait : id \in DOMAIN rows' /\ id[1] = go'.n
  BY <1>2 DEF DispatchInv, DispatchTyped, RowsKept
<1> QED  BY <1>2, <1>3, <1>4, BatchStays

\* A step that fails is only noted when it is the tester's; else it stops the dispatch.
LEMMA FailsStep ==
  ASSUME DispatchInv, go.st = "running", NEW job \in Batched, SD!Fails(job) = go',
         UNCHANGED plan, RowsKept, RowsSound', \A id \in DOMAIN rows' : DepsDone(id)'
  PROVE  DispatchInv'
<1>1. CASE SD!RoleOf(job) = "tester"  BY <1>1, TesterNoted DEF SD!Fails
<1>2. CASE SD!RoleOf(job) # "tester"  BY <1>2, StopStep DEF SD!Fails
<1> QED  BY <1>1, <1>2

\* The row c of the job is the one awaited.
LEMMA NowAwaited ==
  ASSUME DispatchInv, UNCHANGED plan, go.st = "running", NEW job \in go.todo, NEW c \in {1, 2},
         RowsKept, RowsSound', \A id \in DOMAIN rows' : DepsDone(id)', <<go.n, job, c>> \in DOMAIN rows',
         go' = [go EXCEPT !.todo = @ \ {job}, !.wait = @ \cup {<<go.n, job, c>>}]
  PROVE  DispatchInv'
<1>1. go \in GoType  BY DEF DispatchInv, DispatchTyped
<1>2. /\ go'.n = go.n /\ go'.left = go.left /\ go'.st = go.st
      /\ go'.todo = go.todo \ {job} /\ go'.wait = go.wait \cup {<<go.n, job, c>>}
      /\ go' = [n |-> go'.n, left |-> go'.left, todo |-> go'.todo, wait |-> go'.wait, st |-> go'.st]
  BY <1>1 DEF GoType
<1>3. go' \in GoType
  <2>1. go.todo \subseteq SD!Jobs(plan) /\ go.n \in Gos \cup {0}  BY <1>1 DEF GoType
  <2>2. <<go.n, job, c>> \in (Gos \cup {0}) \X SD!Jobs(plan) \X {1, 2}  BY <2>1
  <2>3. go'.wait \in SUBSET ((Gos \cup {0}) \X SD!Jobs(plan) \X {1, 2})  BY <1>1, <1>2, <2>2 DEF GoType
  <2> QED  BY <1>1, <1>2, <2>1, <2>3 DEF GoType
<1>4. Batched' = Batched
  <2>1. Awaited' = Awaited \cup {job}  BY <1>2 DEF Awaited
  <2> QED  BY <2>1, <1>2 DEF Batched
<1>5. \A id \in go'.wait : id \in DOMAIN rows' /\ id[1] = go'.n
  BY <1>2 DEF DispatchInv, DispatchTyped, RowsKept
<1> QED  BY <1>2, <1>3, <1>4, <1>5, BatchStays

LEMMA SameRows ==
  ASSUME DispatchInv, UNCHANGED <<plan, rows>>
  PROVE  RowsKept /\ RowsSound' /\ \A id \in DOMAIN rows' : DepsDone(id)'
<1>1. RowsKept  BY DEF RowsKept
<1>2. RowsSound'  BY DEF DispatchInv, DispatchTyped, RowsSound, RowState
<1> QED  BY <1>1, <1>2, DepsKept DEF DispatchInv

LEMMA QueueStep ==
  ASSUME DispatchInv, NEW job \in go.todo, SD!Queue(job)
  PROVE  DispatchInv'
<1>1. go.st = "running" /\ UNCHANGED plan /\ job \in Batched  BY DEF SD!Queue, Batched
<1>2. /\ {<<go.n, job, 1>>} = {<<go.n, job, c>> : c \in {1}}
      /\ {<<go.n, job, 1>>, <<go.n, job, 2>>} = {<<go.n, job, c>> : c \in {1, 2}}
  OBVIOUS
<1>3. CASE /\ rows' = SD!NewRows({<<go.n, job, 1>>})
           /\ go' = [go EXCEPT !.todo = @ \ {job}, !.wait = @ \cup {<<go.n, job, 1>>}]
  BY <1>1, <1>2, <1>3, JobQueued, NowAwaited
<1>4. CASE /\ rows' = SD!NewRows({<<go.n, job, 1>>, <<go.n, job, 2>>})
           /\ go' = [go EXCEPT !.todo = @ \ {job}, !.wait = @ \cup {<<go.n, job, 2>>}]
  BY <1>1, <1>2, <1>4, JobQueued, NowAwaited
<1>5. CASE rows' = rows /\ go' = SD!Fails(job)
  BY <1>1, <1>5, SameRows, FailsStep
<1>6. CASE rows' = SD!NewRows({<<go.n, job, 1>>}) /\ go' = SD!Fails(job)
  BY <1>1, <1>2, <1>6, JobQueued, FailsStep
<1> QED  BY <1>3, <1>4, <1>5, <1>6 DEF SD!Queue

LEMMA WaitTimesOutStep ==
  ASSUME DispatchInv, SD!WaitTimesOut
  PROVE  DispatchInv'
<1>1. PICK id \in go.wait : go' = SD!Fails(id[2])  BY DEF SD!WaitTimesOut
<1>2. go.st = "running" /\ UNCHANGED <<plan, rows>> /\ id[2] \in Batched
  BY DEF SD!WaitTimesOut, Batched, Awaited
<1> QED  BY <1>1, <1>2, SameRows, FailsStep

\* The integrator of layer l is next once the tasks in the batch have left code for it.
LEMMA IntegratorNext ==
  ASSUME DispatchInv, go.st = "running", NEW k \in DOMAIN plan,
         SD!Task(k) \in Batched, SD!TextOnly(plan, k)
  PROVE  Integrate(SD!Layer(plan)[k]) \in JobsOf(SD!Batch(go.left))
<1>1. plan \in Plans /\ go \in GoType /\ go.left \subseteq SD!Steps(plan)
  BY DEF DispatchInv, DispatchTyped, GoType
<1>2. PICK l \in Nat : l = SD!Layer(plan)[k]  BY <1>1, PlaceBounds, TaskPlace
<1>3. At(SD!Task(k)) = <<l, 0, 0>> /\ At(Integrate(l)) = <<l, 1, 0>>
  BY <1>2, PlaceOf DEF At
<1>4. Integrate(l) \in SD!Jobs(plan)
  BY <1>2 DEF SD!Jobs, Integrate
<1>5. SD!Earlier(At(SD!Task(k)), At(Integrate(l))) /\ At(SD!Task(k)) # At(Integrate(l))
  BY <1>3 DEF SD!Earlier
<1>6. Integrate(l) \notin Batched  BY <1>5 DEF DispatchInv, BatchOrder
<1>7. Integrate(l) \notin Past  BY <1>5 DEF DispatchInv, PastAnswered
<1>8. PICK z \in go.left : z.job = Integrate(l)
  BY <1>4, <1>6, <1>7 DEF Past, Left
<1>9. z.at = <<l, 1, 0>>  BY <1>1, <1>3, <1>8, StepAt
<1>10. ASSUME NEW y \in go.left, SD!Earlier(y.at, z.at) PROVE FALSE
  <2>1. y.job \in Left /\ y.job \in SD!Jobs(plan) /\ y.at = At(y.job)
    BY <1>1, StepAt DEF Left
  <2>2. SD!Earlier(<<l, 0, 0>>, y.at)  BY <2>1, <1>3 DEF DispatchInv, BatchOrder
  <2>3. y.at \in Nat \X Nat \X Nat /\ (y.at[2] = 0 => y.at[3] = 0)
    BY <2>1, <1>1, PlaceBounds DEF At
  <2>4. PICK a \in Nat, b \in Nat, c \in Nat : y.at = <<a, b, c>>  BY <2>3
  <2>5. SD!Earlier(<<a, b, c>>, <<l, 1, 0>>) /\ SD!Earlier(<<l, 0, 0>>, <<a, b, c>>) /\ (b = 0 => c = 0)
    BY <1>9, <1>10, <2>2, <2>3, <2>4
  <2> QED  BY <2>5, <1>2 DEF SD!Earlier
<1>11. z \in SD!Batch(go.left)  BY <1>8, <1>10 DEF SD!Batch
<1> QED  BY <1>2, <1>8, <1>11 DEF JobsOf

LEMMA BatchEndsStep ==
  ASSUME DispatchInv, SD!BatchEnds
  PROVE  DispatchInv'
<1>1. /\ plan \in Plans /\ go \in GoType /\ go.left \subseteq SD!Steps(plan) /\ go.n \in Gos \cup {0}
      /\ go.st = "running" /\ go.todo = {} /\ UNCHANGED <<plan, rows>> /\ Batched = Awaited
  BY DEF DispatchInv, DispatchTyped, GoType, SD!BatchEnds, Batched
<1>2. PICK failed, skip, left :
        /\ failed = \E id \in go.wait : rows[id].st = "failed" /\ SD!RoleOf(id[2]) # "tester"
        /\ skip = {x \in SD!Batch(go.left) : x.job[1] = "integrate" /\ SD!Code(go.wait) = {}}
        /\ left = go.left \ skip
        /\ go' = IF failed THEN [go EXCEPT !.st = "stopped"]
                 ELSE IF left = {} THEN [go EXCEPT !.st = "finished", !.left = {}]
                 ELSE SD!On(go.n, left)
  BY DEF SD!BatchEnds
<1>3. \A id \in go.wait : id \in DOMAIN rows /\ id[1] = go.n /\ rows[id].st \in {"done", "failed"}
  BY DEF SD!BatchEnds, SD!Ended, DispatchInv, DispatchTyped
<1>4. CASE failed  BY <1>1, <1>2, <1>4, SameRows, StopStep
<1>5. CASE ~failed /\ left = {}
  <2>1. go' = [go EXCEPT !.st = "finished", !.left = {}]  BY <1>2, <1>5
  <2>2. /\ go'.n = go.n /\ go'.left = {} /\ go'.todo = go.todo /\ go'.wait = go.wait
        /\ go'.st = "finished" /\ go' \in GoType
    BY <2>1, <1>1 DEF GoType
  <2>3. Batched' = Batched /\ Left' = {}  BY <2>2 DEF Batched, Awaited, Left
  <2>4. \A x : At(x)' = At(x)  BY <1>1 DEF At
  <2>5. BatchOrder'  BY <2>3, <2>4 DEF DispatchInv, BatchOrder
  <2>6. PastAnswered'  BY <2>2 DEF PastAnswered
  <2>7. DispatchTyped'
    <3>1. GoType' = GoType  BY <1>1 DEF GoType
    <3> QED  BY <3>1, <1>1, <1>3, <2>2, SameRows DEF DispatchTyped
  <2> QED  BY <1>1, <2>5, <2>6, <2>7, SameRows DEF DispatchInv
<1>6. CASE ~failed /\ left # {}
  <2>1. /\ go' = SD!On(go.n, left) /\ left \in SUBSET go.left /\ left \in SUBSET SD!Steps(plan)
        /\ go.left \ left \subseteq SD!Batch(go.left)
    BY <1>1, <1>2, <1>6
  <2>2. ASSUME NEW id \in go.wait, SD!RoleOf(id[2]) # "tester" PROVE rows[id].st = "done"
    BY <1>2, <1>3, <1>6, <2>2
  <2>3. go'.n = go.n /\ Batched' = JobsOf(SD!Batch(left))  BY <1>1, <2>1, OnBatch
  <2>4. ASSUME NEW k \in DOMAIN plan, SD!Task(k) \notin JobsOf(left) PROVE HasAnswer(k)'
    <3>1. PICK l : l = SD!Layer(plan)[k] /\ l = SD!Layer(plan')[k]  BY <1>1
    <3>2. SD!Task(k) \in SD!Jobs(plan)  BY <1>1, TaskPlace
    <3>3. SD!Task(k) \notin Left
      <4> SUFFICES ASSUME NEW x \in go.left, x.job = SD!Task(k) PROVE FALSE  BY DEF Left
      <4>1. x \in skip  BY <1>2, <2>4 DEF JobsOf
      <4> QED  BY <4>1, <1>2 DEF SD!Task
    <3>4. CASE SD!Task(k) \in Past
      <4>1. HasAnswer(k)  BY <3>4, <1>1 DEF DispatchInv, PastAnswered
      <4>2. ASSUME Integrate(l) \in Batched PROVE Integrated(go.n, l)'
        <5>1. PICK id \in go.wait : id[2] = Integrate(l)  BY <4>2, <1>1 DEF Awaited
        <5>2. rows[id].st = "done"  BY <5>1, <2>2, Roles
        <5> QED  BY <5>1, <5>2, <1>1, <1>3, <2>3 DEF Integrated
      <4> QED  BY <4>1, <4>2, <3>1, <1>1, <2>3, SameRows, AnswerKept
    <3>5. CASE SD!Task(k) \in Batched
      <4>1. PICK id \in go.wait : id[2] = SD!Task(k)  BY <3>5, <1>1 DEF Awaited
      <4>2. SD!RoleOf(id[2]) = plan[k].role /\ plan[k].role # "tester"
        BY <4>1, Roles DEF SD!Plannable, SD!Dev
      <4>3. rows[id].st = "done" /\ id \in DOMAIN rows /\ id[1] = go.n  BY <4>2, <2>2, <1>3
      <4>4. ASSUME Coded(id, k) PROVE Integrate(l) \in Batched'
        <5>1. SD!RoleOf(id[2]) = "dev_backend" /\ SD!TextOnly(plan, k)
          BY <4>2, <4>4 DEF Coded, SD!ReturnsCode, SD!TextOnly
        <5>2. SD!TextOnly(plan, k)  BY <5>1
        <5>3. id \in SD!Code(go.wait)  BY <4>4, <5>1 DEF Coded, SD!Code
        <5>4. left = go.left  BY <5>3, <1>2
        <5> QED  BY <5>2, <5>4, <3>1, <3>5, <1>1, <2>3, IntegratorNext
      <4>5. PICK g : g = go.n /\ g = go'.n  BY <2>3
      <4>6. id \in SD!Answers(g, k)'  BY <4>1, <4>3, <4>5, <1>1 DEF SD!Answers, SD!Rows
      <4>7. HasAnswer(k)' <=> \E a \in SD!Answers(g, k)' : Coded(a, k)' =>
                                 Integrate(l) \in Batched' \/ Integrated(go.n, l)'
        BY <4>5, <3>1 DEF HasAnswer, SD!Answers, Integrated
      <4>8. Coded(id, k)' <=> Coded(id, k)  BY <1>1 DEF Coded, SD!ReturnsCode
      <4> QED  BY <4>4, <4>6, <4>7, <4>8
    <3> QED  BY <3>2, <3>3, <3>4, <3>5 DEF Past
  <2> QED  BY <2>1, <2>4, <1>1, SameRows, Advances
<1> QED  BY <1>4, <1>5, <1>6

\* The fleet answers a row; nothing else changes.
LEMMA FleetStep ==
  ASSUME DispatchInv, NEW id \in DOMAIN rows, SD!TaskStarts(id) \/ SD!TaskEnds(id)
  PROVE  DispatchInv'
<1>1. UNCHANGED <<plan, go>> /\ go \in GoType /\ rows[id] \in RowState
  BY DEF SD!TaskStarts, SD!TaskEnds, DispatchInv, DispatchTyped, RowsSound
<1>2. PICK r \in RowState :
        rows' = [rows EXCEPT ![id] = r] /\ rows[id].st # "done"
  <2>1. CASE SD!TaskStarts(id)
    <3>1. PICK a \in Agents : rows' = [rows EXCEPT ![id] = [st |-> "running", by |-> a]]
      BY <2>1 DEF SD!TaskStarts
    <3>2. [st |-> "running", by |-> a] \in RowState  BY <3>1 DEF RowState
    <3> QED  BY <2>1, <3>1, <3>2 DEF SD!TaskStarts
  <2>2. CASE SD!TaskEnds(id)
    <3>1. PICK st \in {"done", "failed"} : rows' = SD!End(id, st)
      BY <2>2 DEF SD!TaskEnds
    <3>2. PICK b \in Agents \cup {None} :
            b = IF SD!RoleOf(id[2]) = "dev_backend" THEN rows[id].by ELSE None
      BY <1>1 DEF RowState
    <3>3. rows' = [rows EXCEPT ![id] = [st |-> st, by |-> b]]  BY <3>1, <3>2 DEF SD!End
    <3>4. [st |-> st, by |-> b] \in RowState  BY <3>2 DEF RowState
    <3>5. rows[id].st = "running"  BY <2>2 DEF SD!TaskEnds
    <3> QED  BY <3>3, <3>4, <3>5
  <2> QED  BY <2>1, <2>2
<1>3. /\ DOMAIN rows' = DOMAIN rows /\ rows'[id] = r
      /\ \A x \in DOMAIN rows : x # id => rows'[x] = rows[x]
  BY <1>2
<1>4. RowsKept  BY <1>2, <1>3 DEF RowsKept
<1>5. RowsSound'
  <2> SUFFICES ASSUME NEW x \in DOMAIN rows' PROVE rows'[x] \in RowState
    BY DEF RowsSound, RowState
  <2>1. CASE x = id  BY <1>2, <1>3, <2>1
  <2>2. CASE x # id  BY <1>3, <2>2 DEF DispatchInv, DispatchTyped, RowsSound
  <2> QED  BY <2>1, <2>2
<1>6. \A x \in DOMAIN rows' : DepsDone(x)'  BY <1>1, <1>3, <1>4, DepsKept DEF DispatchInv
<1>7. Batched' = Batched  BY <1>1 DEF Batched, Awaited
<1>8. \A x \in go'.wait : x \in DOMAIN rows' /\ x[1] = go'.n
  BY <1>1, <1>3 DEF DispatchInv, DispatchTyped
<1> QED  BY <1>1, <1>4, <1>5, <1>6, <1>7, <1>8, BatchStays

------------------------------------------------------------------------------
(* ScrumDispatch: the theorems.                                            *)

LEMMA DispatchStep ==
  ASSUME DispatchInv, [SD!Next]_(SD!vars)
  PROVE  DispatchInv'
<1>1. CASE SD!StartGo  BY <1>1, StartStep
<1>2. CASE \E job \in go.todo : SD!Queue(job)  BY <1>2, QueueStep
<1>3. CASE SD!BatchEnds  BY <1>3, BatchEndsStep
<1>4. CASE SD!WaitTimesOut  BY <1>4, WaitTimesOutStep
<1>5. CASE SD!Fleet  BY <1>5, FleetStep DEF SD!Fleet, SD!Rows
<1>6. CASE UNCHANGED SD!vars
  <2>1. UNCHANGED <<plan, rows, go>>  BY <1>6 DEF SD!vars
  <2>2. Batched' = Batched  BY <2>1 DEF Batched, Awaited
  <2>3. \A x \in go'.wait : x \in DOMAIN rows' /\ x[1] = go'.n
    BY <2>1 DEF DispatchInv, DispatchTyped
  <2> QED  BY <2>1, <2>2, <2>3, SameRows, BatchStays DEF DispatchInv, DispatchTyped
<1> QED  BY <1>1, <1>2, <1>3, <1>4, <1>5, <1>6 DEF SD!Next, SD!Dispatcher

THEOREM DispatchHolds == SD!Spec => []DispatchInv
<1>1. SD!Init => DispatchInv  BY DispatchInit
<1>2. DispatchInv /\ [SD!Next]_(SD!vars) => DispatchInv'  BY DispatchStep
<1> QED  BY <1>1, <1>2, PTL DEF SD!Spec

LEMMA DepsFromInv == DispatchInv => DependenciesFirst
<1> SUFFICES ASSUME DispatchInv, NEW id \in DOMAIN rows
             PROVE  /\ id[2][1] = "task" => \A d \in plan[id[2][2]].deps :
                         \E a \in SD!Answers(id[1], d) :
                           rows[a].by = "deepseek" /\ SD!ReturnsCode(plan, d) =>
                           \E i \in DOMAIN rows : i[1] = id[1] /\ i[2] = Integrate(SD!Layer(plan)[d])
                                                  /\ rows[i].st = "done"
                    /\ id[2][1] = "review" => \A k \in DOMAIN plan : SD!Answers(id[1], k) # {}
  BY DEF DependenciesFirst, SD!DependenciesFirst, SD!Rows, Integrate
<1> QED  BY DEF DispatchInv, DepsDone, Integrated, Coded

LEMMA EditorsFromInv == DispatchInv => EditorsRaceOnlyAstray
<1> SUFFICES ASSUME DispatchInv, NEW x \in DOMAIN rows, NEW y \in DOMAIN rows, x # y,
                    ~SD!Stray(x), ~SD!Stray(y)
             PROVE  FALSE
  BY DEF EditorsRaceOnlyAstray, SD!EditorsRaceOnlyAstray, SD!Rows
<1>1. /\ x \in go.wait /\ y \in go.wait /\ x[3] # 2 /\ y[3] # 2 /\ x[1] = go.n /\ y[1] = go.n
      /\ x \in (Gos \cup {0}) \X SD!Jobs(plan) \X {1, 2} /\ y \in (Gos \cup {0}) \X SD!Jobs(plan) \X {1, 2}
      /\ plan \in Plans
  BY DEF SD!Stray, DispatchInv, DispatchTyped, GoType
<1>2. x[2] # y[2]  BY <1>1
<1>3. SD!Place(plan, x[2]) = SD!Place(plan, y[2])
  BY <1>1 DEF DispatchInv, BatchOrder, Batched, Awaited, At
<1>4. \A k \in DOMAIN plan : x[2] = SD!Task(k) \/ y[2] = SD!Task(k) => ~SD!TextOnly(plan, k)
  BY DEF SD!Stray, SD!Task
<1> QED  BY <1>1, <1>2, <1>3, <1>4, PlacesApart

\* In every run of every plan, whatever is queued for a task finds the tasks it
\* depends on done and the code that DeepSeek returned for those queued for it
\* integrated, whichever agent answers which task (dispatch).
THEOREM DependenciesHeld == SD!Spec => []DependenciesFirst
BY DispatchHolds, DepsFromInv, PTL

\* Two tasks that edit run at once only when one of them was created twice,
\* left behind by an earlier run, or fell over to an agent that edits (dispatch).
THEOREM EditorsApart == SD!Spec => []EditorsRaceOnlyAstray
BY DispatchHolds, EditorsFromInv, PTL


------------------------------------------------------------------------------
(* The composition.                                                        *)

\* A behaviour of LiveServices is one of each of its parts, of which at most one
\* ever moves: what is proved of a part's specification holds where the parts
\* are put side by side.
THEOREM EachPartBehaves == Spec => WS!Spec /\ SD!Spec /\ CT!Spec
<1>1. Init => WS!Init /\ SD!Init /\ CT!Init  BY DEF Init
<1>2. [Next]_vars => [WS!Next]_WS!vars
  BY DEF Next, Waha, Dispatch, Composite, vars, wsVars, WS!vars
<1>3. [Next]_vars => [SD!Next]_SD!vars
  BY DEF Next, Waha, Dispatch, Composite, vars, sdVars, SD!vars
<1>4. [Next]_vars => [CT!Next]_CT!vars
  BY DEF Next, Waha, Dispatch, Composite, vars, ctVars, CT!vars
<1> QED  BY <1>1, <1>2, <1>3, <1>4, PTL DEF Spec, WS!Spec, SD!Spec, CT!Spec

===============================================================================
