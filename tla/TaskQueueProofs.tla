--------------------------- MODULE TaskQueueProofs ---------------------------
(***************************************************************************)
(* Proofs about TaskQueue, for any tasks, workers, placements, backend and *)
(* bounds: its types, one hand-out per epoch, the refinement of the        *)
(* ledger, announced work and kept outcomes, and the cap on the tasks a    *)
(* worker has at work and the slots they hold.                             *)
(***************************************************************************)
EXTENDS TaskQueue, FiniteSetTheorems, TLAPS

\* Strengthening: a task that does not exist yet was not handed out.
Counted ==
  /\ OneHandoutPerEpoch
  /\ \A t \in Tasks : status[t] = "absent" => claims[t] = 0

HandoutInv == TypeOK /\ Counted

LEMMA SendsTyped ==
  ASSUME NEW x \in RunRecord, NEW n \in 1..MaxSends
  PROVE  [x EXCEPT !.sends = n] \in RunRecord
BY DEF RunRecord

LEMMA DeadTyped ==
  ASSUME NEW x \in RunRecord
  PROVE  [x EXCEPT !.phase = "dead"] \in RunRecord
BY DEF RunRecord, Phase

USE DEF Run, RunRecord, Status, Held, Terminal, Outcome, Reporting, Phase, Kind

LEMMA BoundsNat ==
  /\ MaxEpochs \in Nat \ {0} /\ MaxSends \in Nat \ {0} /\ Endpoints \in Nat \ {0}
  /\ MaxFaults \in Nat
BY QueueAssumption

LEMMA InitHandout == Init => HandoutInv
<1> SUFFICES ASSUME Init PROVE HandoutInv
  OBVIOUS
<1> USE BoundsNat DEF Init
<1>1. RowsTyped
  BY DEF RowsTyped
<1>2. CountsTyped
  BY DEF CountsTyped
<1>3. WorkersTyped
  BY DEF WorkersTyped, NoRun, Entering
<1>4. NetTyped
  BY DEF NetTyped
<1>5. Counted
  BY DEF Counted, OneHandoutPerEpoch
<1>6. QED
  BY <1>1, <1>2, <1>3, <1>4, <1>5 DEF HandoutInv, TypeOK

\* One hand-out: the row was pending, so a claim was still due.
LEMMA ClaimRowTyped ==
  ASSUME HandoutInv, NEW w \in Workers, NEW t \in Tasks, NEW p \in {"starting", "orphan"},
         status[t] = "pending", ClaimRow(w, t, p)
  PROVE  /\ status' \in [Tasks -> Status]
         /\ assigned' \in [Tasks -> Workers \cup {None}]
         /\ stale' \subseteq Tasks
         /\ claims' \in [Tasks -> 0..MaxEpochs]
         /\ <<t, claims[t] + 1>> \in Run
         /\ run' \in [Run -> RunRecord]
         /\ epochs' = epochs => Counted'
<1> USE BoundsNat DEF HandoutInv, TypeOK, RowsTyped, CountsTyped, WorkersTyped, ClaimRow, Entering
<1>1. claims[t] < epochs[t] /\ claims[t] \in 0..MaxEpochs /\ epochs[t] \in 0..MaxEpochs
  BY DEF Counted, OneHandoutPerEpoch
<1>2. <<t, claims[t] + 1>> \in Run
  BY <1>1
<1>3. claims' \in [Tasks -> 0..MaxEpochs]
  BY <1>1
<1>4. run' \in [Run -> RunRecord]
  BY <1>2
<1>5. ASSUME epochs' = epochs PROVE Counted'
  BY <1>1, <1>5 DEF Counted, OneHandoutPerEpoch
<1>6. QED
  BY <1>2, <1>3, <1>4, <1>5

LEMMA NothingClaimedTyped ==
  ASSUME HandoutInv, NothingClaimed
  PROVE  /\ status' \in [Tasks -> Status]
         /\ assigned' \in [Tasks -> Workers \cup {None}]
         /\ stale' \subseteq Tasks
         /\ claims' \in [Tasks -> 0..MaxEpochs]
         /\ run' \in [Run -> RunRecord]
         /\ active' \in [Workers -> SUBSET Run]
         /\ epochs' = epochs => Counted'
BY DEF HandoutInv, TypeOK, RowsTyped, CountsTyped, WorkersTyped, NothingClaimed, Counted, OneHandoutPerEpoch

\* A report is an UPDATE by id and leaves the counts alone.
LEMMA UpdateTaskTyped ==
  ASSUME HandoutInv, NEW r \in Run, NEW kind \in Kind, UpdateTask(r, kind)
  PROVE  RowsTyped' /\ CountsTyped' /\ Counted'
<1> USE DEF HandoutInv, TypeOK, RowsTyped, CountsTyped, UpdateTask, StatusReported, countVars, sqliteVars
<1>1. r[1] \in Tasks
  OBVIOUS
<1>2. \A t \in Tasks : status'[t] = "pending" => status[t] = "pending"
  BY <1>1
<1>3. RowsTyped'
  BY <1>1
<1>4. CountsTyped'
  OBVIOUS
<1>5. Counted'
  BY <1>2 DEF Counted, OneHandoutPerEpoch
<1>6. QED
  BY <1>3, <1>4, <1>5

LEMMA KindTyped ==
  ASSUME NEW r \in Run, run[r].phase \in Reporting
  PROVE  KindOf(r) \in Kind
BY DEF KindOf, ReportIn

LEMMA AdvanceTyped ==
  ASSUME HandoutInv, NEW r \in Run, NEW p \in Phase, Advance(r, p)
  PROVE  /\ run' \in [Run -> RunRecord]
         /\ active' \in [Workers -> SUBSET Run]
<1> DEFINE next == Entering(run[r].worker, p, run[r].outcome)
<1>1. run[r] \in RunRecord /\ run \in [Run -> RunRecord]
  BY DEF HandoutInv, TypeOK, WorkersTyped
<1>2. next \in RunRecord
  BY <1>1, BoundsNat DEF RunRecord, Entering
<1>3. run' = [run EXCEPT ![r] = next]
  BY DEF Advance
<1>4. run' \in [Run -> RunRecord]
  BY <1>1, <1>2, <1>3
<1>5. active \in [Workers -> SUBSET Run]
  BY DEF HandoutInv, TypeOK, WorkersTyped
<1>6. active' \in [Workers -> SUBSET Run]
  <2>1. \A w \in Workers : {x \in active[w] : x[1] # r[1]} \in SUBSET Run
    BY <1>5
  <2>2. CASE p = "ended"
    BY <2>1, <2>2, <1>5 DEF Advance
  <2>3. CASE p # "ended"
    BY <2>3, <1>5 DEF Advance
  <2>4. QED
    BY <2>2, <2>3
<1>7. QED
  BY <1>4, <1>6

LEMMA SpoolTyped ==
  ASSUME HandoutInv, NEW r \in Run, SpoolUnreported(r)
  PROVE  /\ spool' \in [Workers -> [Tasks -> Run \cup {None}]]
         /\ unsaved' \subseteq Run
<1>1. /\ spool \in [Workers -> [Tasks -> Run \cup {None}]] /\ unsaved \subseteq Run
  BY DEF HandoutInv, TypeOK, WorkersTyped
<1>2. \A x \in Run \cup {None} :
        [spool EXCEPT ![run[r].worker][r[1]] = x] \in [Workers -> [Tasks -> Run \cup {None}]]
  BY <1>1
<1>3. QED
  BY <1>1, <1>2 DEF SpoolUnreported

LEMMA CopyTyped ==
  ASSUME HandoutInv, NEW r \in Run, run[r].phase \in Reporting
  PROVE  CopyOf(r) \in [run : Run, kind : Kind, send : 1..MaxSends]
BY KindTyped DEF HandoutInv, TypeOK, WorkersTyped, CopyOf

-------------------------------------------------------------------------------
(* One lemma per group of steps *)

LEMMA OrchestratorHandout ==
  ASSUME HandoutInv, OrchestratorStep
  PROVE  HandoutInv'
<1> USE BoundsNat DEF HandoutInv, TypeOK, rowVars, clockVars, countVars, sqliteVars,
        workerVars, spoolVars, netVars
<1>1. ASSUME NEW t \in Tasks, NEW b \in Bodies, CreateTask(t, b)
      PROVE  HandoutInv'
  <2>1. WithPlacement(b) \in PlacedBodies
    BY DEF PlacedBodies
  <2>2. RowsTyped'
    BY <1>1, <2>1 DEF RowsTyped, CreateTask
  <2>3. CountsTyped' /\ WorkersTyped' /\ NetTyped'
    BY <1>1 DEF CountsTyped, WorkersTyped, NetTyped, CreateTask
  <2>4. claims[t] <= epochs[t] /\ epochs[t] \in Nat /\ claims[t] \in Nat
    BY DEF Counted, OneHandoutPerEpoch, CountsTyped
  <2>5. status[t] = "absent" /\ status' = [status EXCEPT ![t] = "pending"]
        /\ epochs' = [epochs EXCEPT ![t] = 1] /\ claims' = claims
    BY <1>1 DEF CreateTask
  <2>6. Counted'
    BY <2>4, <2>5 DEF Counted, OneHandoutPerEpoch, RowsTyped, CountsTyped
  <2>7. QED
    BY <2>2, <2>3, <2>6
<1>2. ASSUME NEW t \in Tasks, NEW s \in {"done", "failed", "pending"}, Resolve(t, s)
      PROVE  HandoutInv'
  <2>1. RowsTyped'
    BY <1>2 DEF RowsTyped, Resolve
  <2>2. CountsTyped'
    BY <1>2 DEF CountsTyped, Resolve
  <2>3. WorkersTyped' /\ NetTyped'
    BY <1>2 DEF WorkersTyped, NetTyped, Resolve
  <2>4. Counted'
    BY <1>2 DEF Counted, OneHandoutPerEpoch, RowsTyped, CountsTyped, Resolve
  <2>5. QED
    BY <2>1, <2>2, <2>3, <2>4
<1>3. ASSUME NEW S \in SUBSET Tasks, ReapRows(S), stuck' \subseteq Tasks, picked' = picked
      PROVE  HandoutInv'
  BY <1>3 DEF ReapRows, RowsTyped, CountsTyped, WorkersTyped, NetTyped, Counted, OneHandoutPerEpoch
<1>4. CASE ReapStale
  BY <1>3, <1>4 DEF ReapStale, StuckRows, CountsTyped
<1>5. CASE ReapSelect
  BY <1>5 DEF ReapSelect, StuckRows, RowsTyped, CountsTyped, WorkersTyped, NetTyped,
     Counted, OneHandoutPerEpoch
<1>6. CASE ReapUpdate
  BY <1>3, <1>6 DEF ReapUpdate, CountsTyped
<1>7. CASE Backfill
  BY <1>7 DEF Backfill, RowsTyped, CountsTyped, WorkersTyped, NetTyped, Counted, OneHandoutPerEpoch
<1>8. ASSUME NEW p \in picked, ClaimUpdate(p)
      PROVE  HandoutInv'
  <2>1. p.worker \in Workers /\ p.task \in Tasks /\ p.live \in BOOLEAN
    BY DEF CountsTyped
  <2>2. /\ RowsTyped' /\ claims' \in [Tasks -> 0..MaxEpochs] /\ stale' \subseteq Tasks
        /\ run' \in [Run -> RunRecord] /\ active' \in [Workers -> SUBSET Run]
        /\ Counted'
    <3>1. CASE status[p.task] # "pending"
      BY <1>8, <3>1, NothingClaimedTyped DEF ClaimUpdate, RowsTyped
    <3>2. CASE status[p.task] = "pending" /\ p.live = TRUE
      <4>1. ClaimRow(p.worker, p.task, "starting") /\ epochs' = epochs
            /\ active' = [active EXCEPT ![p.worker] = @ \cup {<<p.task, claims[p.task] + 1>>}]
        BY <1>8, <3>2 DEF ClaimUpdate, TakeUp
      <4>2. QED
        BY <1>8, <2>1, <3>2, <4>1, ClaimRowTyped DEF ClaimUpdate, RowsTyped, WorkersTyped
    <3>3. CASE status[p.task] = "pending" /\ p.live = FALSE
      BY <1>8, <2>1, <3>3, ClaimRowTyped DEF ClaimUpdate, RowsTyped, WorkersTyped
    <3>4. QED
      BY <2>1, <3>1, <3>2, <3>3
  <2>3. CountsTyped'
    BY <1>8, <2>2 DEF ClaimUpdate, CountsTyped
  <2>4. asked' \in [Workers -> 0..Endpoints]
    BY <1>8, <2>1, 0 \in 0..Endpoints DEF ClaimUpdate, WorkersTyped
  <2>5. WorkersTyped' /\ NetTyped'
    BY <1>8, <2>2, <2>4 DEF ClaimUpdate, WorkersTyped, NetTyped
  <2>6. QED
    BY <2>2, <2>3, <2>5
<1>9. ASSUME NEW c \in late, LateReport(c)
      PROVE  HandoutInv'
  <2>1. c.run \in Run /\ c.kind \in Kind
    BY DEF NetTyped
  <2>2. RowsTyped' /\ CountsTyped' /\ Counted'
    BY <1>9, <2>1, UpdateTaskTyped DEF LateReport
  <2>3. QED
    BY <1>9, <2>2 DEF LateReport, WorkersTyped, NetTyped
<1>10. QED
  BY <1>1, <1>2, <1>4, <1>5, <1>6, <1>7, <1>8, <1>9 DEF OrchestratorStep

LEMMA ClockHandout ==
  ASSUME HandoutInv, NEW t \in Tasks, GraceElapses(t) \/ BecomesStale(t)
  PROVE  HandoutInv'
BY DEF HandoutInv, TypeOK, RowsTyped, CountsTyped, WorkersTyped, NetTyped, Counted, OneHandoutPerEpoch,
   GraceElapses, BecomesStale, rowVars, countVars, sqliteVars, workerVars, spoolVars, netVars

LEMMA NextForPending ==
  ASSUME HandoutInv, NEW w \in Workers, NEW t \in NextFor(w)
  PROVE  t \in Tasks /\ status[t] = "pending"
BY DEF NextFor, Eligible

\* A claim that is given up only moves between asked, picked and ghost.
LEMMA GivenUpTyped ==
  ASSUME HandoutInv, NEW w \in Workers, LoseClaim(w) \/ DelayClaim(w)
  PROVE  /\ picked' \subseteq [worker : Workers, task : Tasks, live : BOOLEAN]
         /\ ghost' \in [Workers -> Nat]
<1> USE DEF HandoutInv, TypeOK, CountsTyped, NetTyped
<1>1. CASE LoseClaim(w)
  BY <1>1 DEF LoseClaim
<1>2. CASE DelayClaim(w)
  <2>1. \A p \in LivePicks(w) : [p EXCEPT !.live = FALSE]
          \in [worker : Workers, task : Tasks, live : BOOLEAN]
    BY DEF LivePicks
  <2>2. QED
    BY <1>2, <2>1 DEF DelayClaim
<1>3. QED
  BY <1>1, <1>2

LEMMA WorkerHandout ==
  ASSUME HandoutInv, NEW w \in Workers, WorkerStep(w)
  PROVE  HandoutInv'
<1> USE BoundsNat DEF HandoutInv, TypeOK, rowVars, clockVars, countVars, sqliteVars,
        workerVars, spoolVars, netVars
<1>1. CASE Poll(w)
  BY <1>1 DEF Poll, RowsTyped, CountsTyped, WorkersTyped, NetTyped, Counted, OneHandoutPerEpoch
<1>2. CASE PollTimeout(w)
  <2>1. faults' \in 0..MaxFaults
    BY <1>2 DEF PollTimeout, Fault, NetTyped
  <2>2. asked' \in [Workers -> 0..Endpoints]
    BY <1>2 DEF PollTimeout, WorkersTyped
  <2>3. /\ picked' \subseteq [worker : Workers, task : Tasks, live : BOOLEAN]
        /\ ghost' \in [Workers -> Nat]
    BY <1>2, GivenUpTyped DEF PollTimeout
  <2>4. QED
    BY <1>2, <2>1, <2>2, <2>3 DEF PollTimeout, RowsTyped, CountsTyped, WorkersTyped, NetTyped,
       Counted, OneHandoutPerEpoch
<1>3. CASE ClaimAnswered(w)
  <2>1. asked' \in [Workers -> 0..Endpoints]
    BY <1>3 DEF ClaimAnswered, WorkersTyped
  <2>2. ASSUME NEW t \in NextFor(w), TakeUp(w, t) PROVE HandoutInv'
    <3>1. t \in Tasks /\ status[t] = "pending"
      BY NextForPending
    <3>2. ClaimRow(w, t, "starting")
          /\ active' = [active EXCEPT ![w] = @ \cup {<<t, claims[t] + 1>>}]
      BY <2>2 DEF TakeUp
    <3>3. QED
      BY <1>3, <2>1, <3>1, <3>2, ClaimRowTyped
         DEF ClaimAnswered, RowsTyped, CountsTyped, WorkersTyped, NetTyped
  <2>3. ASSUME NothingClaimed PROVE HandoutInv'
    BY <1>3, <2>1, <2>3, NothingClaimedTyped
       DEF ClaimAnswered, RowsTyped, CountsTyped, WorkersTyped, NetTyped
  <2>4. QED
    BY <1>3, <2>2, <2>3 DEF ClaimAnswered
<1>4. CASE GhostClaim(w)
  <2>1. ghost' \in [Workers -> Nat]
    BY <1>4 DEF GhostClaim, NetTyped
  <2>2. ASSUME NEW t \in NextFor(w), ClaimRow(w, t, "orphan") PROVE HandoutInv'
    <3>1. t \in Tasks /\ status[t] = "pending"
      BY NextForPending
    <3>2. QED
      BY <1>4, <2>1, <2>2, <3>1, ClaimRowTyped
         DEF GhostClaim, RowsTyped, CountsTyped, WorkersTyped, NetTyped
  <2>3. ASSUME UNCHANGED <<status, assigned, stale, claims, run>> PROVE HandoutInv'
    BY <1>4, <2>1, <2>3 DEF GhostClaim, RowsTyped, CountsTyped, WorkersTyped, NetTyped,
       Counted, OneHandoutPerEpoch
  <2>4. QED
    BY <1>4, <2>2, <2>3 DEF GhostClaim
<1>5. ASSUME NEW live \in BOOLEAN, ClaimSelect(w, live)
      PROVE  HandoutInv'
  <2>1. picked' \subseteq [worker : Workers, task : Tasks, live : BOOLEAN]
    BY <1>5, NextForPending DEF ClaimSelect, CountsTyped
  <2>2. asked' \in [Workers -> 0..Endpoints]
    BY <1>5 DEF ClaimSelect, WorkersTyped
  <2>3. ghost' \in [Workers -> Nat]
    BY <1>5 DEF ClaimSelect, NetTyped
  <2>4. QED
    BY <1>5, <2>1, <2>2, <2>3 DEF ClaimSelect, RowsTyped, CountsTyped, WorkersTyped, NetTyped,
       Counted, OneHandoutPerEpoch
<1>6. CASE Crash(w)
  <2> DEFINE dying == {r \in Run : run[r].worker = w
                                   /\ run[r].phase \in Reporting \cup {"working"}}
  <2>1. /\ run' = [r \in Run |-> IF r \in dying THEN [run[r] EXCEPT !.phase = "dead"]
                                 ELSE run[r]]
        /\ late' = late \cup {CopyOf(r) : r \in {x \in dying : run[x].phase # "working"}}
        /\ active' = [active EXCEPT ![w] = {}] /\ asked' = [asked EXCEPT ![w] = 0]
    BY <1>6 DEF Crash
  <2>2. run' \in [Run -> RunRecord]
    <3>1. \A r \in Run : [run[r] EXCEPT !.phase = "dead"] \in RunRecord
      BY DeadTyped DEF WorkersTyped
    <3>2. QED
      BY <2>1, <3>1 DEF WorkersTyped
  <2>3. late' \subseteq [run : Run, kind : Kind, send : 1..MaxSends]
    BY <2>1, CopyTyped DEF NetTyped
  <2>4. WorkersTyped'
    BY <1>6, <2>1, <2>2 DEF Crash, WorkersTyped
  <2>5. /\ picked' \subseteq [worker : Workers, task : Tasks, live : BOOLEAN]
        /\ ghost' \in [Workers -> Nat]
    BY <1>6, GivenUpTyped DEF Crash
  <2>6. faults' \in 0..MaxFaults
    BY <1>6 DEF Crash, Fault, NetTyped
  <2>7. QED
    BY <1>6, <2>3, <2>4, <2>5, <2>6 DEF Crash, RowsTyped, CountsTyped, NetTyped,
       Counted, OneHandoutPerEpoch
<1>7. QED
  BY <1>1, <1>2, <1>3, <1>4, <1>5, <1>6 DEF WorkerStep

LEMMA RunHandout ==
  ASSUME HandoutInv, NEW r \in Run, RunStep(r)
  PROVE  HandoutInv'
<1> USE BoundsNat DEF HandoutInv, TypeOK, rowVars, clockVars, countVars, sqliteVars,
        workerVars, spoolVars, netVars
<1>1. ASSUME NEW o \in Outcome \ {"none"}, HandlerEnds(r, o)
      PROVE  HandoutInv'
  <2>1. run' \in [Run -> RunRecord]
    BY <1>1 DEF HandlerEnds, Entering, WorkersTyped
  <2>2. QED
    BY <1>1, <2>1 DEF HandlerEnds, RowsTyped, CountsTyped, WorkersTyped, NetTyped,
       Counted, OneHandoutPerEpoch
<1>2. CASE ReportAnswered(r)
  <2>1. run[r].phase \in Reporting /\ PhaseAfter[run[r].phase] \in Phase
    BY <1>2 DEF ReportAnswered, PhaseAfter
  <2>2. RowsTyped' /\ CountsTyped' /\ Counted'
    BY <1>2, <2>1, KindTyped, UpdateTaskTyped DEF ReportAnswered
  <2>3. run' \in [Run -> RunRecord] /\ active' \in [Workers -> SUBSET Run]
    BY <1>2, <2>1, AdvanceTyped DEF ReportAnswered
  <2>4. QED
    BY <1>2, <2>2, <2>3 DEF ReportAnswered, WorkersTyped, NetTyped
<1>3. CASE ReportUnanswered(r)
  <2>1. run[r].phase \in Reporting
    BY <1>3 DEF ReportUnanswered
  <2>2. run' \in [Run -> RunRecord] /\ active' \in [Workers -> SUBSET Run]
    <3>1. CASE run[r].sends < MaxSends
      <4>1. run[r].sends + 1 \in 1..MaxSends
        BY <3>1 DEF WorkersTyped
      <4>2. run' = [run EXCEPT ![r].sends = @ + 1] /\ active' = active
        BY <1>3, <3>1 DEF ReportUnanswered
      <4>3. QED
        BY <4>1, <4>2, SendsTyped DEF WorkersTyped
    <3>2. CASE ~(run[r].sends < MaxSends)
      BY <1>3, <3>2, AdvanceTyped DEF ReportUnanswered
    <3>3. QED
      BY <3>1, <3>2
  <2>3. spool' \in [Workers -> [Tasks -> Run \cup {None}]] /\ unsaved' \subseteq Run
    BY <1>3, SpoolTyped DEF ReportUnanswered, WorkersTyped
  <2>4. late' \subseteq [run : Run, kind : Kind, send : 1..MaxSends]
    BY <1>3, <2>1, CopyTyped DEF ReportUnanswered, NetTyped
  <2>5. faults' \in 0..MaxFaults
    BY <1>3 DEF ReportUnanswered, Fault, NetTyped
  <2>6. QED
    BY <1>3, <2>2, <2>3, <2>4, <2>5 DEF ReportUnanswered, RowsTyped, CountsTyped, WorkersTyped,
       NetTyped, Counted, OneHandoutPerEpoch
<1>4. QED
  BY <1>1, <1>2, <1>3 DEF RunStep

LEMMA NextHandout == HandoutInv /\ [Next]_vars => HandoutInv'
<1> SUFFICES ASSUME HandoutInv, [Next]_vars PROVE HandoutInv'
  OBVIOUS
<1>1. CASE UNCHANGED vars
  BY <1>1 DEF vars, rowVars, clockVars, countVars, sqliteVars, workerVars, spoolVars, netVars, HandoutInv,
     TypeOK, RowsTyped, CountsTyped, WorkersTyped, NetTyped, Counted, OneHandoutPerEpoch
<1>2. QED
  BY <1>1, OrchestratorHandout, ClockHandout, WorkerHandout, RunHandout DEF Next

(***************************************************************************)
(* The rows, the workers' bookkeeping and the requests in flight keep      *)
(* their types and bounds: no count passes MaxEpochs, no report is sent    *)
(* more than MaxSends times.                                               *)
(***************************************************************************)
THEOREM TypeCorrect == Spec => []TypeOK
<1>1. HandoutInv => TypeOK
  BY DEF HandoutInv
<1>2. QED
  BY InitHandout, NextHandout, <1>1, PTL DEF Spec

(***************************************************************************)
(* No task is ever claimed twice, on either backend: whatever requests are *)
(* lost, late or retried, a task is handed out at most once each time it   *)
(* became pending.                                                         *)
(***************************************************************************)
THEOREM HandedOutOnce == Spec => []OneHandoutPerEpoch
<1>1. HandoutInv => OneHandoutPerEpoch
  BY DEF HandoutInv, Counted
<1>2. QED
  BY InitHandout, NextHandout, <1>1, PTL DEF Spec

-------------------------------------------------------------------------------
(* Runs and reports come from claims *)

Handed ==
  /\ \A r \in Run : run[r].phase # "none" => r[2] <= claims[r[1]]
  /\ \A r \in Run : run[r].phase # "none" => run[r].worker \in Workers
  /\ \A c \in late : run[c.run].phase # "none"

HandedInv == HandoutInv /\ Handed

LEMMA ClaimRowHanded ==
  ASSUME HandedInv, NEW w \in Workers, NEW t \in Tasks, NEW p \in {"starting", "orphan"},
         status[t] = "pending", ClaimRow(w, t, p), late' = late
  PROVE  Handed'
<1> DEFINE q == <<t, claims[t] + 1>>
<1> USE DEF HandedInv, HandoutInv, TypeOK, CountsTyped, WorkersTyped, NetTyped
<1>1. q \in Run
  BY ClaimRowTyped
<1>2. claims' = [claims EXCEPT ![t] = @ + 1] /\ run' = [run EXCEPT ![q] = Entering(w, p, "none")]
  BY DEF ClaimRow
<1>3. \A r \in Run : run'[r] = IF r = q THEN Entering(w, p, "none") ELSE run[r]
  BY <1>2
<1>4. \A u \in Tasks : claims[u] <= claims'[u]
  BY <1>2, BoundsNat
<1>5. ASSUME NEW r \in Run, run'[r].phase # "none" PROVE r[2] <= claims'[r[1]]
  <2>1. r[1] \in Tasks /\ r[2] \in Nat /\ claims[r[1]] \in Nat /\ claims'[r[1]] \in Nat
    BY <1>2, BoundsNat
  <2>2. CASE r = q
    BY <2>1, <2>2, <1>2
  <2>3. CASE r # q
    BY <2>1, <2>3, <1>3, <1>4, <1>5 DEF Handed
  <2>4. QED
    BY <2>2, <2>3
<1>6. \A r \in Run : run'[r].phase # "none" => run'[r].worker \in Workers
  BY <1>3 DEF Entering, Handed
<1>7. \A c \in late' : run'[c.run].phase # "none"
  BY <1>3 DEF Entering, Handed
<1>8. QED
  BY <1>5, <1>6, <1>7 DEF Handed

\* Steps of a run, which keep its worker and never take it back to "none".
LEMMA AdvanceHanded ==
  ASSUME HandedInv, NEW r \in Run, run[r].phase \in Reporting \cup {"working"},
         NEW p \in Phase \ {"none"}, NEW o \in Outcome,
         run' = [run EXCEPT ![r] = Entering(@.worker, p, o)],
         claims' = claims, \A c \in late' : c \in late \/ c.run = r
  PROVE  Handed'
<1> USE DEF HandedInv, HandoutInv, TypeOK, CountsTyped, WorkersTyped, NetTyped
<1>1. \A x \in Run : /\ run'[x].worker = run[x].worker
                     /\ x # r => run'[x] = run[x]
  BY DEF Entering
<1>2. run'[r].phase = p
  BY DEF Entering
<1>3. \A x \in Run : run'[x].phase = "none" => run[x].phase = "none"
  BY <1>1, <1>2
<1>4. \A x \in Run : run'[x].phase # "none" => run[x].phase # "none"
  BY <1>1
<1>5. \A c \in late' : run'[c.run].phase # "none"
  BY <1>2, <1>3 DEF Handed
<1>6. \A x \in Run : run'[x].phase # "none" => run'[x].worker \in Workers
  BY <1>1, <1>4 DEF Handed
<1>7. QED
  BY <1>4, <1>5, <1>6 DEF Handed

LEMMA NextHanded == HandedInv /\ [Next]_vars => HandedInv'
<1> SUFFICES ASSUME HandedInv, [Next]_vars PROVE Handed'
  BY NextHandout DEF HandedInv
<1> USE DEF rowVars, clockVars, countVars, sqliteVars, workerVars, spoolVars, netVars
<1>0. ASSUME run' = run, claims' = claims, late' \subseteq late PROVE Handed'
  BY <1>0 DEF HandedInv, Handed
<1>1. ASSUME NEW w \in Workers, NEW t \in Tasks, NEW p \in {"starting", "orphan"},
             status[t] = "pending", ClaimRow(w, t, p), late' = late
      PROVE  Handed'
  BY <1>1, ClaimRowHanded
<1>2. CASE OrchestratorStep
  <2>1. ASSUME NEW p \in picked, ClaimUpdate(p) PROVE Handed'
    <3>1. p.worker \in Workers /\ p.task \in Tasks /\ p.live \in BOOLEAN
      BY DEF HandedInv, HandoutInv, TypeOK, CountsTyped
    <3>2. CASE status[p.task] # "pending"
      BY <1>0, <2>1, <3>2 DEF ClaimUpdate, NothingClaimed
    <3>3. CASE status[p.task] = "pending" /\ p.live = TRUE
      BY <1>1, <2>1, <3>1, <3>3 DEF ClaimUpdate, TakeUp
    <3>4. CASE status[p.task] = "pending" /\ p.live = FALSE
      BY <1>1, <2>1, <3>1, <3>4 DEF ClaimUpdate
    <3>5. QED
      BY <3>1, <3>2, <3>3, <3>4
  <2>2. ASSUME NEW c \in late, LateReport(c) PROVE Handed'
    BY <1>0, <2>2 DEF LateReport, UpdateTask
  <2>3. ASSUME NEW t \in Tasks, NEW b \in Bodies, CreateTask(t, b) PROVE Handed'
    BY <1>0, <2>3 DEF CreateTask
  <2>4. ASSUME NEW t \in Tasks, NEW s \in {"done", "failed", "pending"}, Resolve(t, s)
        PROVE  Handed'
    BY <1>0, <2>4 DEF Resolve
  <2>5. CASE ReapStale \/ ReapSelect \/ ReapUpdate \/ Backfill
    BY <1>0, <2>5 DEF ReapStale, ReapSelect, ReapUpdate, ReapRows, Backfill
  <2>6. QED
    BY <1>2, <2>1, <2>2, <2>3, <2>4, <2>5 DEF OrchestratorStep
<1>3. ASSUME NEW t \in Tasks, GraceElapses(t) \/ BecomesStale(t) PROVE Handed'
  BY <1>0, <1>3 DEF GraceElapses, BecomesStale
<1>4. ASSUME NEW w \in Workers, WorkerStep(w) PROVE Handed'
  <2>1. CASE Poll(w) \/ PollTimeout(w)
    BY <1>0, <2>1 DEF Poll, PollTimeout
  <2>2. CASE ClaimAnswered(w)
    <3>1. ASSUME NEW t \in NextFor(w), TakeUp(w, t) PROVE Handed'
      BY <1>1, <2>2, <3>1, NextForPending DEF ClaimAnswered, TakeUp, HandedInv
    <3>2. QED
      BY <1>0, <2>2, <3>1 DEF ClaimAnswered, NothingClaimed
  <2>3. CASE GhostClaim(w)
    <3>1. ASSUME NEW t \in NextFor(w), ClaimRow(w, t, "orphan") PROVE Handed'
      BY <1>1, <2>3, <3>1, NextForPending DEF GhostClaim, HandedInv
    <3>2. QED
      BY <1>0, <2>3, <3>1 DEF GhostClaim
  <2>4. ASSUME NEW live \in BOOLEAN, ClaimSelect(w, live) PROVE Handed'
    BY <1>0, <2>4 DEF ClaimSelect
  <2>5. CASE Crash(w)
    <3> DEFINE dying == {r \in Run : run[r].worker = w
                                     /\ run[r].phase \in Reporting \cup {"working"}}
    <3>1. /\ run' = [r \in Run |-> IF r \in dying THEN [run[r] EXCEPT !.phase = "dead"]
                                   ELSE run[r]]
          /\ late' = late \cup {CopyOf(r) : r \in {x \in dying : run[x].phase # "working"}}
          /\ claims' = claims
      BY <2>5 DEF Crash
    <3>2. run \in [Run -> RunRecord] /\ \A c \in late : c.run \in Run
      BY DEF HandedInv, HandoutInv, TypeOK, WorkersTyped, NetTyped
    <3>3. \A r \in Run : /\ r \in dying => run'[r].phase = "dead" /\ run'[r].worker = run[r].worker
                         /\ r \notin dying => run'[r] = run[r]
      BY <3>1, <3>2
    <3>4. \A r \in dying : run[r].phase # "none"
      OBVIOUS
    <3>5. \A r \in Run : CopyOf(r).run = r
      BY DEF CopyOf
    <3>6. \A c \in late' : c.run \in Run /\ run'[c.run].phase # "none"
      BY <3>1, <3>2, <3>3, <3>5 DEF HandedInv, Handed
    <3>7. QED
      BY <3>1, <3>3, <3>4, <3>6 DEF HandedInv, Handed
  <2>6. QED
    BY <1>4, <2>1, <2>2, <2>3, <2>4, <2>5 DEF WorkerStep
<1>5. ASSUME NEW r \in Run, RunStep(r) PROVE Handed'
  <2>1. run[r].outcome \in Outcome /\ run \in [Run -> RunRecord]
    BY DEF HandedInv, HandoutInv, TypeOK, WorkersTyped
  <2>2. ASSUME NEW o \in Outcome \ {"none"}, HandlerEnds(r, o) PROVE Handed'
    <3>1. /\ run[r].phase = "working" /\ claims' = claims /\ late' = late
          /\ run' = [run EXCEPT ![r] =
                       Entering(@.worker, IF o = "human" THEN "keeping" ELSE "closing", o)]
      BY <2>2 DEF HandlerEnds
    <3>2. QED
      BY <3>1, AdvanceHanded
  <2>3. CASE ReportAnswered(r)
    <3>1. /\ run[r].phase \in Reporting /\ claims' = claims /\ late' = late
          /\ run' = [run EXCEPT ![r] = Entering(@.worker, PhaseAfter[run[r].phase], @.outcome)]
      BY <2>3 DEF ReportAnswered, UpdateTask, Advance
    <3>2. PICK p \in Phase \ {"none"} : p = PhaseAfter[run[r].phase]
      BY <3>1 DEF PhaseAfter
    <3>3. run' = [run EXCEPT ![r] = Entering(@.worker, p, run[r].outcome)]
      BY <3>1, <3>2
    <3>4. run[r].phase \in Reporting \cup {"working"} /\ claims' = claims
          /\ (\A c \in late' : c \in late \/ c.run = r) /\ run[r].outcome \in Outcome
      BY <2>1, <3>1
    <3>5. QED
      BY <3>3, <3>4, AdvanceHanded
  <2>4. CASE ReportUnanswered(r)
    <3>1. /\ run[r].phase \in Reporting /\ claims' = claims
          /\ late' = late \cup {CopyOf(r)} /\ CopyOf(r).run = r
      BY <2>4 DEF ReportUnanswered, CopyOf
    <3>2. CASE run[r].sends < MaxSends
      <4>1. run' = [run EXCEPT ![r].sends = @ + 1]
        BY <2>4, <3>2 DEF ReportUnanswered
      <4>2. \A x \in Run : run'[x].phase = run[x].phase /\ run'[x].worker = run[x].worker
        BY <2>1, <4>1
      <4>3. \A c \in late' : c.run \in Run /\ (c \in late \/ c.run = r)
        BY <3>1 DEF HandedInv, HandoutInv, TypeOK, NetTyped
      <4>4. \A c \in late' : run[c.run].phase # "none"
        BY <3>1, <4>3 DEF HandedInv, Handed
      <4>5. \A c \in late' : run'[c.run].phase # "none"
        BY <4>2, <4>3, <4>4
      <4>6. \A x \in Run : run'[x].phase # "none" => x[2] <= claims'[x[1]]
        BY <3>1, <4>2 DEF HandedInv, Handed
      <4>7. \A x \in Run : run'[x].phase # "none" => run'[x].worker \in Workers
        BY <4>2 DEF HandedInv, Handed
      <4>8. QED
        BY <4>5, <4>6, <4>7 DEF Handed
    <3>3. CASE ~(run[r].sends < MaxSends)
      <4> DEFINE p == IF run[r].phase = "failing" THEN "ended" ELSE "failing"
      <4>1. run' = [run EXCEPT ![r] = Entering(@.worker, p, run[r].outcome)]
        BY <2>4, <3>3 DEF ReportUnanswered, Advance
      <4>2. QED
        BY <2>1, <3>1, <4>1, AdvanceHanded
    <3>4. QED
      BY <3>2, <3>3
  <2>5. QED
    BY <1>5, <2>2, <2>3, <2>4 DEF RunStep
<1>6. CASE UNCHANGED vars
  BY <1>0, <1>6 DEF vars
<1>7. QED
  BY <1>2, <1>3, <1>4, <1>5, <1>6 DEF Next

-------------------------------------------------------------------------------
(* The queue implements the ledger *)

\* A row a claim selected stays one that the claiming machine may run.
PickedMayRun ==
  \A p \in picked : status[p.task] # "absent" /\ Ledger!MayRun(p.worker, body[p.task])

LedgerInv == HandedInv /\ PickedMayRun

LEMMA NextForMayRun ==
  ASSUME NEW w \in Workers, NEW t \in NextFor(w)
  PROVE  t \in Tasks /\ status[t] = "pending" /\ Ledger!MayRun(w, body[t])
BY DEF NextFor, Eligible, Ledger!MayRun

LEMMA NextPicked == LedgerInv /\ [Next]_vars => LedgerInv'
<1> SUFFICES ASSUME LedgerInv, [Next]_vars PROVE PickedMayRun'
  BY NextHanded DEF LedgerInv
<1> USE DEF rowVars, clockVars, countVars, sqliteVars, workerVars, spoolVars, netVars
<1>t. /\ \A p \in picked : p.task \in Tasks
      /\ status \in [Tasks -> Status] /\ body \in [Tasks -> PlacedBodies \cup {None}]
  BY DEF LedgerInv, HandedInv, HandoutInv, TypeOK, RowsTyped, CountsTyped
<1>0. ASSUME \A t \in Tasks : status[t] # "absent" => status'[t] # "absent" /\ body'[t] = body[t],
             picked' \subseteq picked
      PROVE  PickedMayRun'
  BY <1>0, <1>t DEF LedgerInv, PickedMayRun, Ledger!MayRun
<1>1. ASSUME NEW w \in Workers, NEW t \in Tasks, NEW p \in {"starting", "orphan"},
             ClaimRow(w, t, p), body' = body, picked' \subseteq picked
      PROVE  PickedMayRun'
  BY <1>0, <1>1, <1>t DEF ClaimRow
<1>2. CASE OrchestratorStep
  <2>1. ASSUME NEW p \in picked, ClaimUpdate(p) PROVE PickedMayRun'
    <3>1. p.worker \in Workers /\ p.task \in Tasks /\ p.live \in BOOLEAN
      BY DEF LedgerInv, HandedInv, HandoutInv, TypeOK, CountsTyped
    <3>2. body' = body /\ picked' \subseteq picked
      BY <2>1 DEF ClaimUpdate
    <3>3. CASE status[p.task] # "pending"
      BY <1>0, <2>1, <3>2, <3>3 DEF ClaimUpdate, NothingClaimed
    <3>4. CASE status[p.task] = "pending" /\ p.live = TRUE
      BY <1>1, <2>1, <3>1, <3>2, <3>4 DEF ClaimUpdate, TakeUp
    <3>5. CASE status[p.task] = "pending" /\ p.live = FALSE
      BY <1>1, <2>1, <3>1, <3>2, <3>5 DEF ClaimUpdate
    <3>6. QED
      BY <3>1, <3>3, <3>4, <3>5
  <2>2. ASSUME NEW c \in late, LateReport(c) PROVE PickedMayRun'
    <3>1. c.run \in Run /\ c.kind \in Kind
      BY DEF LedgerInv, HandedInv, HandoutInv, TypeOK, NetTyped
    <3>2. UpdateTask(c.run, c.kind)
      BY <2>2 DEF LateReport
    <3>3. QED
      BY <1>0, <1>t, <3>1, <3>2 DEF UpdateTask, StatusReported
  <2>3. ASSUME NEW t \in Tasks, NEW b \in Bodies, CreateTask(t, b) PROVE PickedMayRun'
    BY <1>0, <1>t, <2>3 DEF CreateTask
  <2>4. ASSUME NEW t \in Tasks, NEW s \in {"done", "failed", "pending"}, Resolve(t, s)
        PROVE  PickedMayRun'
    BY <1>0, <1>t, <2>4 DEF Resolve
  <2>5. CASE ReapStale \/ ReapSelect \/ ReapUpdate \/ Backfill
    BY <1>0, <1>t, <2>5 DEF ReapStale, ReapSelect, ReapUpdate, ReapRows, Backfill
  <2>6. QED
    BY <1>2, <2>1, <2>2, <2>3, <2>4, <2>5 DEF OrchestratorStep
<1>3. ASSUME NEW t \in Tasks, GraceElapses(t) \/ BecomesStale(t) PROVE PickedMayRun'
  BY <1>0, <1>3 DEF GraceElapses, BecomesStale
<1>4. ASSUME NEW w \in Workers, WorkerStep(w) PROVE PickedMayRun'
  <2>1. CASE Poll(w)
    BY <1>0, <2>1 DEF Poll
  <2>2. CASE ClaimAnswered(w)
    BY <1>0, <1>1, <2>2, NextForMayRun DEF ClaimAnswered, TakeUp, NothingClaimed
  <2>3. CASE GhostClaim(w)
    BY <1>0, <1>1, <2>3, NextForMayRun DEF GhostClaim
  <2>4. ASSUME NEW live \in BOOLEAN, ClaimSelect(w, live) PROVE PickedMayRun'
    <3>1. body' = body /\ status' = status
          /\ picked' = picked \cup {[worker |-> w, task |-> t, live |-> live] : t \in NextFor(w)}
      BY <2>4 DEF ClaimSelect
    <3>2. \A t \in NextFor(w) : status[t] # "absent" /\ Ledger!MayRun(w, body[t])
      BY NextForMayRun
    <3>3. QED
      BY <3>1, <3>2 DEF LedgerInv, PickedMayRun, Ledger!MayRun
  <2>5. ASSUME LoseClaim(w) \/ DelayClaim(w), status' = status, body' = body
        PROVE  PickedMayRun'
    <3>1. \A p \in picked' : \E q \in picked : p.worker = q.worker /\ p.task = q.task
      <4>1. CASE LoseClaim(w)
        BY <4>1 DEF LoseClaim
      <4>2. CASE DelayClaim(w)
        <5>1. \A q \in LivePicks(w) : /\ q \in picked
                                      /\ [q EXCEPT !.live = FALSE].worker = q.worker
                                      /\ [q EXCEPT !.live = FALSE].task = q.task
          BY DEF LivePicks, LedgerInv, HandedInv, HandoutInv, TypeOK, CountsTyped
        <5>2. QED
          BY <4>2, <5>1 DEF DelayClaim
      <4>3. QED
        BY <2>5, <4>1, <4>2
    <3>2. QED
      BY <2>5, <3>1 DEF LedgerInv, PickedMayRun, Ledger!MayRun
  <2>6. CASE PollTimeout(w)
    BY <2>5, <2>6 DEF PollTimeout
  <2>7. CASE Crash(w)
    BY <2>5, <2>7 DEF Crash
  <2>8. QED
    BY <1>4, <2>1, <2>2, <2>3, <2>4, <2>6, <2>7 DEF WorkerStep
<1>5. ASSUME NEW r \in Run, RunStep(r) PROVE PickedMayRun'
  <2>1. ASSUME NEW o \in Outcome \ {"none"}, HandlerEnds(r, o) PROVE PickedMayRun'
    BY <1>0, <2>1 DEF HandlerEnds
  <2>2. CASE ReportAnswered(r)
    <3>1. UpdateTask(r, KindOf(r)) /\ KindOf(r) \in Kind
      BY <2>2, KindTyped DEF ReportAnswered
    <3>2. QED
      BY <1>0, <1>t, <3>1 DEF UpdateTask, StatusReported
  <2>3. CASE ReportUnanswered(r)
    BY <1>0, <2>3 DEF ReportUnanswered
  <2>4. QED
    BY <1>5, <2>1, <2>2, <2>3 DEF RunStep
<1>6. CASE UNCHANGED vars
  BY <1>0, <1>6 DEF vars
<1>7. QED
  BY <1>2, <1>3, <1>4, <1>5, <1>6 DEF Next

LEMMA ClaimRowFollows ==
  ASSUME NEW w \in Workers, NEW t \in Tasks, NEW p \in {"starting", "orphan"},
         status[t] = "pending", Ledger!MayRun(w, body[t]), ClaimRow(w, t, p),
         UNCHANGED <<body, epochs>>
  PROVE  Ledger!Next
<1>1. Ledger!HandOut(t, w)
  BY DEF Ledger!HandOut, ClaimRow
<1>2. QED
  BY <1>1 DEF Ledger!Next

LEMMA UpdateTaskFollows ==
  ASSUME LedgerInv, NEW r \in Run, run[r].phase # "none", NEW kind \in Kind, UpdateTask(r, kind)
  PROVE  [Ledger!Next]_Ledger!ledgerVars
<1> USE DEF UpdateTask, StatusReported, countVars
<1>1. r[1] \in Tasks /\ claims[r[1]] > 0
  BY BoundsNat DEF LedgerInv, HandedInv, Handed, HandoutInv, TypeOK, CountsTyped
<1>2. CASE kind = "result"
  BY <1>2 DEF Ledger!ledgerVars
<1>3. CASE kind # "result"
  <2>1. StatusReported[kind] \in Terminal \cup {"in_progress"}
    BY <1>3
  <2>2. Ledger!Report(r[1], StatusReported[kind])
    BY <1>1, <1>3 DEF Ledger!Report
  <2>3. QED
    BY <1>1, <2>1, <2>2 DEF Ledger!Next, Ledger!Terminal
<1>4. QED
  BY <1>2, <1>3

LEMMA StepFollows == LedgerInv /\ [Next]_vars => [Ledger!Next]_Ledger!ledgerVars
<1> SUFFICES ASSUME LedgerInv, [Next]_vars PROVE [Ledger!Next]_Ledger!ledgerVars
  OBVIOUS
<1> USE DEF rowVars, clockVars, countVars, sqliteVars, workerVars, spoolVars, netVars
<1>0. ASSUME UNCHANGED <<status, body, assigned, epochs, claims>>
      PROVE  [Ledger!Next]_Ledger!ledgerVars
  BY <1>0 DEF Ledger!ledgerVars
<1>2. CASE OrchestratorStep
  <2>1. ASSUME NEW p \in picked, ClaimUpdate(p) PROVE [Ledger!Next]_Ledger!ledgerVars
    <3>1. /\ p.worker \in Workers /\ p.task \in Tasks /\ p.live \in BOOLEAN
          /\ Ledger!MayRun(p.worker, body[p.task])
      BY DEF LedgerInv, PickedMayRun, HandedInv, HandoutInv, TypeOK, CountsTyped
    <3>2. body' = body /\ epochs' = epochs
      BY <2>1 DEF ClaimUpdate
    <3>3. CASE status[p.task] # "pending"
      BY <1>0, <2>1, <3>2, <3>3 DEF ClaimUpdate, NothingClaimed
    <3>4. CASE status[p.task] = "pending" /\ p.live = TRUE
      BY <2>1, <3>1, <3>2, <3>4, ClaimRowFollows DEF ClaimUpdate, TakeUp
    <3>5. CASE status[p.task] = "pending" /\ p.live = FALSE
      BY <2>1, <3>1, <3>2, <3>5, ClaimRowFollows DEF ClaimUpdate
    <3>6. QED
      BY <3>1, <3>3, <3>4, <3>5
  <2>2. ASSUME NEW c \in late, LateReport(c) PROVE [Ledger!Next]_Ledger!ledgerVars
    <3>1. c.run \in Run /\ c.kind \in Kind /\ run[c.run].phase # "none"
      BY DEF LedgerInv, HandedInv, Handed, HandoutInv, TypeOK, NetTyped
    <3>2. UpdateTask(c.run, c.kind)
      BY <2>2 DEF LateReport
    <3>3. QED
      BY <3>1, <3>2, UpdateTaskFollows
  <2>3. ASSUME NEW t \in Tasks, NEW b \in Bodies, CreateTask(t, b)
        PROVE  [Ledger!Next]_Ledger!ledgerVars
    <3>1. WithPlacement(b) \in PlacedBodies
      BY DEF PlacedBodies
    <3>2. Ledger!Create(t, WithPlacement(b))
      BY <2>3 DEF CreateTask, Ledger!Create
    <3>3. QED
      BY <3>1, <3>2 DEF Ledger!Next
  <2>4. ASSUME NEW t \in Tasks, NEW s \in {"done", "failed", "pending"}, Resolve(t, s)
        PROVE  [Ledger!Next]_Ledger!ledgerVars
    <3>1. epochs \in [Tasks -> 0..MaxEpochs]
      BY DEF LedgerInv, HandedInv, HandoutInv, TypeOK, CountsTyped
    <3>2. epochs'[t] <= MaxEpochs
      BY <2>4, <3>1, BoundsNat DEF Resolve
    <3>3. Ledger!Resolve(t, s)
      BY <2>4, <3>2 DEF Resolve, Ledger!Resolve
    <3>4. QED
      BY <3>3 DEF Ledger!Next
  <2>5. ASSUME NEW S \in SUBSET Tasks, \A t \in S : status[t] \in Held, ReapRows(S)
        PROVE  [Ledger!Next]_Ledger!ledgerVars
    <3>1. Ledger!Reap(S)
      BY <2>5 DEF ReapRows, Ledger!Reap, Ledger!Held
    <3>2. QED
      BY <3>1 DEF Ledger!Next
  <2>6. stale \subseteq Tasks /\ stuck \subseteq Tasks
    BY DEF LedgerInv, HandedInv, HandoutInv, TypeOK, CountsTyped
  <2>7. CASE ReapStale
    BY <2>5, <2>6, <2>7 DEF ReapStale, StuckRows
  <2>8. CASE ReapUpdate
    BY <2>5, <2>6, <2>8 DEF ReapUpdate
  <2>9. CASE ReapSelect \/ Backfill
    BY <1>0, <2>9 DEF ReapSelect, Backfill
  <2>10. QED
    BY <1>2, <2>1, <2>2, <2>3, <2>4, <2>7, <2>8, <2>9 DEF OrchestratorStep
<1>3. ASSUME NEW t \in Tasks, GraceElapses(t) \/ BecomesStale(t)
      PROVE  [Ledger!Next]_Ledger!ledgerVars
  BY <1>0, <1>3 DEF GraceElapses, BecomesStale
<1>4. ASSUME NEW w \in Workers, WorkerStep(w) PROVE [Ledger!Next]_Ledger!ledgerVars
  <2>1. CASE ClaimAnswered(w)
    BY <1>0, <2>1, NextForMayRun, ClaimRowFollows DEF ClaimAnswered, TakeUp, NothingClaimed
  <2>2. CASE GhostClaim(w)
    BY <1>0, <2>2, NextForMayRun, ClaimRowFollows DEF GhostClaim
  <2>3. CASE Poll(w) \/ PollTimeout(w) \/ (\E live \in BOOLEAN : ClaimSelect(w, live)) \/ Crash(w)
    BY <1>0, <2>3 DEF Poll, PollTimeout, ClaimSelect, Crash
  <2>4. QED
    BY <1>4, <2>1, <2>2, <2>3 DEF WorkerStep
<1>5. ASSUME NEW r \in Run, RunStep(r) PROVE [Ledger!Next]_Ledger!ledgerVars
  <2>1. CASE ReportAnswered(r)
    <3>1. UpdateTask(r, KindOf(r)) /\ KindOf(r) \in Kind /\ run[r].phase # "none"
      BY <2>1, KindTyped DEF ReportAnswered
    <3>2. QED
      BY <3>1, UpdateTaskFollows
  <2>2. CASE (\E o \in Outcome \ {"none"} : HandlerEnds(r, o)) \/ ReportUnanswered(r)
    BY <1>0, <2>2 DEF HandlerEnds, ReportUnanswered
  <2>3. QED
    BY <1>5, <2>1, <2>2 DEF RunStep
<1>6. CASE UNCHANGED vars
  BY <1>0, <1>6 DEF vars
<1>7. QED
  BY <1>2, <1>3, <1>4, <1>5, <1>6 DEF Next

LEMMA InitLedger == Init => LedgerInv /\ Ledger!Init
<1> SUFFICES ASSUME Init PROVE Handed /\ PickedMayRun /\ Ledger!Init
  BY InitHandout DEF LedgerInv, HandedInv
<1>1. Handed
  BY DEF Init, Handed, NoRun, Entering
<1>2. PickedMayRun
  BY DEF Init, PickedMayRun
<1>3. Ledger!Init
  BY DEF Init, Ledger!Init
<1>4. QED
  BY <1>1, <1>2, <1>3

(***************************************************************************)
(* Both backends implement the ledger: with every request the network may  *)
(* lose or delay, the rows only ever see atomic hand-outs to machines that *)
(* may run the task, reports of machines that were handed it, the reaper   *)
(* and the owner (claim_next_task and update_task of the two backends).    *)
(***************************************************************************)
THEOREM QueueFollowsLedger == Spec => FollowsLedger
<1>1. LedgerInv /\ [Next]_vars => LedgerInv'
  BY NextPicked
<1>2. QED
  BY InitLedger, <1>1, StepFollows, PTL DEF Spec, FollowsLedger, Ledger!Spec

-------------------------------------------------------------------------------
(* Announced work *)

AnnouncedInv == HandedInv /\ WorkIsAnnounced

\* A row becomes "claimed" only by a claim, and then its last run is a new one.
LEMMA StatusOrClaim ==
  ASSUME HandedInv, [Next]_vars
  PROVE  \A t \in Tasks :
           status'[t] # "claimed" \/ (status'[t] = status[t] /\ claims'[t] = claims[t])
                                  \/ claims'[t] = claims[t] + 1
<1> USE DEF rowVars, clockVars, countVars, sqliteVars, workerVars, spoolVars, netVars
<1> DEFINE Goal == \A t \in Tasks :
             status'[t] # "claimed" \/ (status'[t] = status[t] /\ claims'[t] = claims[t])
                                    \/ claims'[t] = claims[t] + 1
<1>t. status \in [Tasks -> Status] /\ claims \in [Tasks -> 0..MaxEpochs]
  BY DEF HandedInv, HandoutInv, TypeOK, RowsTyped, CountsTyped
<1>0. ASSUME UNCHANGED <<status, claims>> PROVE Goal
  BY <1>0
<1>1. ASSUME NEW w, NEW t \in Tasks, NEW p, ClaimRow(w, t, p) PROVE Goal
  BY <1>1, <1>t DEF ClaimRow
<1>2. ASSUME NEW r \in Run, NEW kind \in Kind, UpdateTask(r, kind) PROVE Goal
  BY <1>2, <1>t DEF UpdateTask, StatusReported
<1>3. CASE OrchestratorStep
  <2>1. ASSUME NEW p \in picked, ClaimUpdate(p) PROVE Goal
    <3>1. p.worker \in Workers /\ p.task \in Tasks
      BY DEF HandedInv, HandoutInv, TypeOK, CountsTyped
    <3>2. NothingClaimed \/ ClaimRow(p.worker, p.task, "starting")
          \/ ClaimRow(p.worker, p.task, "orphan")
      BY <2>1 DEF ClaimUpdate, TakeUp
    <3>3. QED
      BY <1>0, <1>1, <3>1, <3>2 DEF NothingClaimed
  <2>2. ASSUME NEW c \in late, LateReport(c) PROVE Goal
    <3>1. c.run \in Run /\ c.kind \in Kind
      BY DEF HandedInv, HandoutInv, TypeOK, NetTyped
    <3>2. QED
      BY <1>2, <2>2, <3>1 DEF LateReport
  <2>3. ASSUME NEW t \in Tasks, NEW b \in Bodies, CreateTask(t, b) PROVE Goal
    BY <1>t, <2>3 DEF CreateTask
  <2>4. ASSUME NEW t \in Tasks, NEW s \in {"done", "failed", "pending"}, Resolve(t, s) PROVE Goal
    BY <1>t, <2>4 DEF Resolve
  <2>5. CASE ReapStale \/ ReapUpdate
    BY <1>t, <2>5 DEF ReapStale, ReapUpdate, ReapRows
  <2>6. CASE ReapSelect \/ Backfill
    BY <1>0, <2>6 DEF ReapSelect, Backfill
  <2>7. QED
    BY <1>3, <2>1, <2>2, <2>3, <2>4, <2>5, <2>6 DEF OrchestratorStep
<1>4. ASSUME NEW t \in Tasks, GraceElapses(t) \/ BecomesStale(t) PROVE Goal
  BY <1>0, <1>4 DEF GraceElapses, BecomesStale
<1>5. ASSUME NEW w \in Workers, WorkerStep(w) PROVE Goal
  <2>1. CASE ClaimAnswered(w)
    BY <1>0, <1>1, <2>1, NextForMayRun DEF ClaimAnswered, TakeUp, NothingClaimed
  <2>2. CASE GhostClaim(w)
    BY <1>0, <1>1, <2>2, NextForMayRun DEF GhostClaim
  <2>3. CASE Poll(w) \/ PollTimeout(w) \/ (\E live \in BOOLEAN : ClaimSelect(w, live)) \/ Crash(w)
    BY <1>0, <2>3 DEF Poll, PollTimeout, ClaimSelect, Crash
  <2>4. QED
    BY <1>5, <2>1, <2>2, <2>3 DEF WorkerStep
<1>6. ASSUME NEW r \in Run, RunStep(r) PROVE Goal
  <2>1. CASE ReportAnswered(r)
    BY <1>2, <2>1, KindTyped DEF ReportAnswered
  <2>2. CASE (\E o \in Outcome \ {"none"} : HandlerEnds(r, o)) \/ ReportUnanswered(r)
    BY <1>0, <2>2 DEF HandlerEnds, ReportUnanswered
  <2>3. QED
    BY <1>6, <2>1, <2>2 DEF RunStep
<1>7. CASE UNCHANGED vars
  BY <1>0, <1>7 DEF vars
<1>8. QED
  BY <1>3, <1>4, <1>5, <1>6, <1>7 DEF Next

WorkPhase == {"working", "keeping", "closing"}

\* A run works only after its in_progress report was delivered.
LEMMA PhaseStep ==
  ASSUME HandedInv, [Next]_vars
  PROVE  \A r \in Run : run'[r].phase \in WorkPhase =>
           run[r].phase \in WorkPhase \/ (run[r].phase = "starting" /\ ReportAnswered(r))
<1> USE DEF WorkPhase, rowVars, clockVars, countVars, sqliteVars, workerVars, spoolVars, netVars
<1> DEFINE Goal == \A r \in Run : run'[r].phase \in WorkPhase =>
             run[r].phase \in WorkPhase \/ (run[r].phase = "starting" /\ ReportAnswered(r))
<1>t. run \in [Run -> RunRecord]
  BY DEF HandedInv, HandoutInv, TypeOK, WorkersTyped
<1>0. ASSUME run' = run PROVE Goal
  BY <1>0
<1>1. ASSUME NEW w, NEW t \in Tasks, NEW p \in {"starting", "orphan"}, ClaimRow(w, t, p)
      PROVE  Goal
  BY <1>1, <1>t DEF ClaimRow, Entering
<1>2. CASE OrchestratorStep
  <2>1. ASSUME NEW p \in picked, ClaimUpdate(p) PROVE Goal
    <3>1. p.worker \in Workers /\ p.task \in Tasks
      BY DEF HandedInv, HandoutInv, TypeOK, CountsTyped
    <3>2. NothingClaimed \/ ClaimRow(p.worker, p.task, "starting")
          \/ ClaimRow(p.worker, p.task, "orphan")
      BY <2>1 DEF ClaimUpdate, TakeUp
    <3>3. QED
      BY <1>0, <1>1, <3>1, <3>2 DEF NothingClaimed
  <2>2. ASSUME ~\E p \in picked : ClaimUpdate(p) PROVE run' = run
    BY <1>2, <2>2 DEF OrchestratorStep, CreateTask, Resolve, ReapStale, ReapSelect, ReapUpdate,
       ReapRows, Backfill, LateReport
  <2>3. QED
    BY <1>0, <2>1, <2>2
<1>3. ASSUME NEW t \in Tasks, GraceElapses(t) \/ BecomesStale(t) PROVE Goal
  BY <1>0, <1>3 DEF GraceElapses, BecomesStale
<1>4. ASSUME NEW w \in Workers, WorkerStep(w) PROVE Goal
  <2>1. CASE ClaimAnswered(w)
    BY <1>0, <1>1, <2>1, NextForMayRun DEF ClaimAnswered, TakeUp, NothingClaimed
  <2>2. CASE GhostClaim(w)
    BY <1>0, <1>1, <2>2, NextForMayRun DEF GhostClaim
  <2>3. CASE Poll(w) \/ PollTimeout(w) \/ (\E live \in BOOLEAN : ClaimSelect(w, live))
    BY <1>0, <2>3 DEF Poll, PollTimeout, ClaimSelect
  <2>4. CASE Crash(w)
    <3>1. \A r \in Run : run'[r] = run[r] \/ run'[r].phase = "dead"
      BY <1>t, <2>4 DEF Crash
    <3>2. QED
      BY <3>1
  <2>5. QED
    BY <1>4, <2>1, <2>2, <2>3, <2>4 DEF WorkerStep
<1>5. ASSUME NEW r \in Run, RunStep(r) PROVE Goal
  <2>1. \A x \in Run : x # r => run'[x] = run[x]
    BY <1>5, <1>t DEF RunStep, HandlerEnds, ReportAnswered, ReportUnanswered, Advance
  <2>2. CASE \E o \in Outcome \ {"none"} : HandlerEnds(r, o)
    BY <2>1, <2>2 DEF HandlerEnds
  <2>3. CASE ReportAnswered(r)
    <3>1. run[r].phase \in Reporting
      BY <2>3 DEF ReportAnswered
    <3>2. CASE run[r].phase = "failing"
      BY <1>t, <2>1, <2>3, <3>2 DEF ReportAnswered, Advance, Entering, PhaseAfter
    <3>3. QED
      BY <2>1, <2>3, <3>1, <3>2
  <2>4. CASE ReportUnanswered(r)
    <3>1. run'[r].phase \in {run[r].phase, "failing", "ended"}
      BY <1>t, <2>4 DEF ReportUnanswered, Advance, Entering
    <3>2. QED
      BY <2>1, <3>1
  <2>5. QED
    BY <1>5, <2>2, <2>3, <2>4 DEF RunStep
<1>6. CASE UNCHANGED vars
  BY <1>0, <1>6 DEF vars
<1>7. QED
  BY <1>2, <1>3, <1>4, <1>5, <1>6 DEF Next

LEMMA NextAnnounced == AnnouncedInv /\ [Next]_vars => AnnouncedInv'
<1> SUFFICES ASSUME AnnouncedInv, [Next]_vars PROVE WorkIsAnnounced'
  BY NextHanded DEF AnnouncedInv
<1> USE DEF AnnouncedInv, WorkPhase
<1> SUFFICES ASSUME NEW r \in Run, run'[r].phase \in WorkPhase, r[2] = claims'[r[1]]
             PROVE  status'[r[1]] # "claimed"
  BY DEF WorkIsAnnounced
<1>1. /\ r[1] \in Tasks /\ r[2] \in Nat /\ claims[r[1]] \in Nat
      /\ status \in [Tasks -> Status] /\ run \in [Run -> RunRecord]
  BY BoundsNat DEF HandedInv, HandoutInv, TypeOK, RowsTyped, CountsTyped, WorkersTyped
<1>2. CASE run[r].phase = "starting" /\ ReportAnswered(r)
  <2>1. UpdateTask(r, "start")
    BY <1>2 DEF ReportAnswered, KindOf, ReportIn
  <2>2. QED
    BY <1>1, <2>1 DEF UpdateTask, StatusReported
<1>3. CASE run[r].phase \in WorkPhase
  <2>1. r[2] <= claims[r[1]]
    BY <1>3 DEF HandedInv, Handed
  <2>2. claims'[r[1]] # claims[r[1]] + 1
    BY <1>1, <2>1
  <2>3. CASE status'[r[1]] = status[r[1]] /\ claims'[r[1]] = claims[r[1]]
    BY <1>3, <2>3 DEF WorkIsAnnounced
  <2>4. QED
    BY <1>1, <2>2, <2>3, StatusOrClaim
<1>4. QED
  BY <1>2, <1>3, PhaseStep

(***************************************************************************)
(* While the last claimant of a task works on it, the task's row is not    *)
(* still "claimed": the in_progress report was delivered before dispatch   *)
(* (_run_task), and no later claim can have come between.                  *)
(***************************************************************************)
THEOREM WorkAnnounced == Spec => []WorkIsAnnounced
<1>1. Init => AnnouncedInv
  <2>1. Init => WorkIsAnnounced
    BY DEF Init, WorkIsAnnounced, NoRun, Entering
  <2>2. QED
    BY <2>1, InitLedger DEF AnnouncedInv, LedgerInv
<1>2. AnnouncedInv => WorkIsAnnounced
  BY DEF AnnouncedInv
<1>3. QED
  BY <1>1, <1>2, NextAnnounced, PTL DEF Spec

-------------------------------------------------------------------------------
(* Kept outcomes *)

Ran(r) == run[r].outcome \in {"complete", "human"}
\* The worker has a spool file for the task, or once failed to write it.
Spooled(r) ==
  \/ spool[run[r].worker][r[1]] # None
  \/ \E x \in unsaved : x[1] = r[1] /\ run[x].worker = run[r].worker
ErrorOf(r) == result[r[1]] # None /\ result[r[1]].run = r /\ result[r[1]].error
AfterFail == {"failing", "ended", "dead"}

\* Strengthening: a run whose error was or may be reported first spooled what it
\* produced, and a run that keeps its output for the owner has stored it.
FailSpooled == \A r \in Run : run[r].phase = "failing" /\ Ran(r) => Spooled(r)
LateFailSpooled ==
  \A c \in late : c.kind = "fail" =>
    run[c.run].phase \in AfterFail /\ (Ran(c.run) => Spooled(c.run))
ErrorAfterFail == \A r \in Run : ErrorOf(r) => run[r].phase \in AfterFail
OutputStored ==
  \A r \in Run : run[r].phase = "closing" /\ run[r].outcome = "human" => result[r[1]] # None
EndedKept ==
  \A r \in Run : run[r].phase = "ended" /\ Ran(r) =>
    Spooled(r) \/ (result[r[1]] # None /\ ~ErrorOf(r))

\* A run that could not write its file is one that was handed out.
UnsavedRan == \A x \in unsaved : x \in Run /\ run[x].phase # "none"

StartingFresh == \A r \in Run : run[r].phase = "starting" => ~Ran(r)

OutcomeInv ==
  /\ HandedInv
  /\ FailSpooled /\ LateFailSpooled /\ ErrorAfterFail /\ OutputStored /\ EndedKept
  /\ StartingFresh /\ UnsavedRan

LEMMA NoneIsNothing ==
  /\ \A r \in Run : r # None
  /\ \A r \in Run, e \in BOOLEAN : [run |-> r, error |-> e] # None
BY NoneAssumption

LEMMA OutcomeTypes ==
  ASSUME HandedInv
  PROVE  /\ run \in [Run -> RunRecord]
         /\ \A c \in late : c.run \in Run /\ c.kind \in Kind
         /\ result \in [Tasks -> [run : Run, error : BOOLEAN] \cup {None}]
         /\ spool \in [Workers -> [Tasks -> Run \cup {None}]]
BY DEF HandedInv, HandoutInv, TypeOK, RowsTyped, WorkersTyped, NetTyped

\* What a delivered report leaves in the row.
LEMMA ReportedResult ==
  ASSUME HandedInv, NEW r \in Run, NEW kind \in Kind, UpdateTask(r, kind)
  PROVE  \A x \in Run :
           /\ x[1] # r[1] => result'[x[1]] = result[x[1]]
           /\ kind \in {"start", "needs_human"} => result'[x[1]] = result[x[1]]
           /\ kind \in {"result", "complete", "fail"} /\ x[1] = r[1] =>
                /\ result'[x[1]] # None
                /\ result'[x[1]].run = r
                /\ result'[x[1]].error <=> kind = "fail"
BY OutcomeTypes, NoneIsNothing DEF UpdateTask

LEMMA ClaimRowOutcome ==
  ASSUME OutcomeInv, NEW w \in Workers, NEW t \in Tasks, NEW p \in {"starting", "orphan"},
         status[t] = "pending", ClaimRow(w, t, p), UNCHANGED <<result, spool, unsaved, late>>, HandedInv'
  PROVE  OutcomeInv'
<1> DEFINE q == <<t, claims[t] + 1>>
<1>1. q \in Run /\ HandedInv /\ claims[t] \in Nat
  BY ClaimRowTyped, BoundsNat DEF OutcomeInv, HandedInv, HandoutInv, TypeOK, CountsTyped
<1>2. run[q].phase = "none"
  BY <1>1 DEF HandedInv, Handed
<1>3. \A r \in Run : run'[r] = IF r = q THEN Entering(w, p, "none") ELSE run[r]
  BY <1>1, OutcomeTypes DEF ClaimRow
<1>4. run'[q].phase \in {"starting", "orphan"} /\ run'[q].outcome = "none"
  BY <1>1, <1>3 DEF Entering
<1>5. \A c \in late : c.run \in Run /\ c.run # q
  BY <1>1, <1>2, OutcomeTypes DEF HandedInv, Handed
<1>6. ~ErrorOf(q)
  BY <1>1, <1>2 DEF OutcomeInv, ErrorAfterFail, AfterFail
<1>7. \A r \in Run : ErrorOf(r)' <=> ErrorOf(r)
  BY DEF ErrorOf
<1>14. \A x \in unsaved : x \in Run /\ x # q
  BY <1>2 DEF OutcomeInv, UnsavedRan
<1>8. \A r \in Run \ {q} : (Ran(r)' <=> Ran(r)) /\ (Spooled(r)' <=> Spooled(r))
  BY <1>3, <1>14 DEF Ran, Spooled
<1>15. UnsavedRan'
  BY <1>3, <1>14 DEF OutcomeInv, UnsavedRan
<1>9. FailSpooled' /\ OutputStored' /\ EndedKept'
  BY <1>3, <1>4, <1>7, <1>8 DEF OutcomeInv, FailSpooled, OutputStored, EndedKept
<1>10. LateFailSpooled'
  BY <1>3, <1>5, <1>8 DEF OutcomeInv, LateFailSpooled
<1>11. ErrorAfterFail'
  BY <1>3, <1>6, <1>7 DEF OutcomeInv, ErrorAfterFail
<1>12. StartingFresh'
  BY <1>3, <1>4, <1>8 DEF OutcomeInv, StartingFresh, Ran
<1>13. QED
  BY <1>9, <1>10, <1>11, <1>12, <1>15 DEF OutcomeInv

LEMMA LateReportOutcome ==
  ASSUME OutcomeInv, NEW c \in late, LateReport(c), HandedInv'
  PROVE  OutcomeInv'
<1>1. /\ run' = run /\ spool' = spool /\ unsaved' = unsaved /\ late' \subseteq late
      /\ UpdateTask(c.run, c.kind) /\ c.run \in Run /\ c.kind \in Kind
  BY OutcomeTypes DEF LateReport, workerVars, spoolVars, OutcomeInv
<1>2. \A r \in Run : (Ran(r)' <=> Ran(r)) /\ (Spooled(r)' <=> Spooled(r))
  BY <1>1 DEF Ran, Spooled
<1>3. \A r \in Run : ErrorOf(r)' => ErrorOf(r) \/ (r = c.run /\ c.kind = "fail")
  BY <1>1, ReportedResult DEF ErrorOf, OutcomeInv
<1>4. \A r \in Run : result[r[1]] # None => result'[r[1]] # None
  BY <1>1, ReportedResult DEF OutcomeInv
<1>5. FailSpooled' /\ OutputStored'
  BY <1>1, <1>2, <1>4 DEF OutcomeInv, FailSpooled, OutputStored
<1>6. LateFailSpooled'
  BY <1>1, <1>2, OutcomeTypes DEF OutcomeInv, LateFailSpooled
<1>7. ErrorAfterFail'
  BY <1>1, <1>3 DEF OutcomeInv, ErrorAfterFail, LateFailSpooled
<1>8. EndedKept'
  BY <1>1, <1>2, <1>3, <1>4 DEF OutcomeInv, EndedKept, LateFailSpooled
<1>9. StartingFresh'
  BY <1>1, <1>2 DEF OutcomeInv, StartingFresh
<1>11. UnsavedRan'
  BY <1>1 DEF OutcomeInv, UnsavedRan
<1>10. QED
  BY <1>5, <1>6, <1>7, <1>8, <1>9, <1>11 DEF OutcomeInv

LEMMA ReportAnsweredOutcome ==
  ASSUME OutcomeInv, NEW r \in Run, ReportAnswered(r), HandedInv'
  PROVE  OutcomeInv'
<1> DEFINE p == PhaseAfter[run[r].phase]
<1>1. /\ run[r].phase \in Reporting /\ spool' = spool /\ unsaved' = unsaved /\ late' = late
      /\ UpdateTask(r, KindOf(r)) /\ KindOf(r) \in Kind
  BY KindTyped DEF ReportAnswered, spoolVars, netVars
<1>2. /\ \A x \in Run : x # r => run'[x] = run[x]
      /\ run'[r].phase = p /\ run'[r].outcome = run[r].outcome
      /\ run'[r].worker = run[r].worker
  BY OutcomeTypes DEF ReportAnswered, Advance, Entering, OutcomeInv
<1>w. \A x \in Run : run'[x].worker = run[x].worker /\ (run[x].phase # "none" => run'[x].phase # "none")
  BY <1>1, <1>2 DEF PhaseAfter
<1>3. \A x \in Run : (Ran(x)' <=> Ran(x)) /\ (Spooled(x)' <=> Spooled(x))
  <2>1. \A x \in Run : Ran(x)' <=> Ran(x)
    BY <1>2 DEF Ran
  <2>2. \A x \in unsaved : x \in Run
    BY DEF OutcomeInv, UnsavedRan
  <2>3. QED
    BY <1>1, <1>w, <2>1, <2>2 DEF Spooled
<1>14. UnsavedRan'
  BY <1>1, <1>w DEF OutcomeInv, UnsavedRan
<1>4. /\ run[r].phase = "starting" => p = "working" /\ KindOf(r) = "start"
      /\ run[r].phase = "keeping" => p = "closing" /\ KindOf(r) = "result"
      /\ run[r].phase = "failing" => p = "ended" /\ KindOf(r) = "fail"
      /\ run[r].phase = "closing" =>
           /\ p = "ended"
           /\ KindOf(r) = IF run[r].outcome = "complete" THEN "complete" ELSE "needs_human"
  BY <1>1 DEF PhaseAfter, KindOf, ReportIn
<1>5. \A x \in Run : ErrorOf(x)' => ErrorOf(x) \/ (x = r /\ run[r].phase = "failing")
  BY <1>1, <1>4, ReportedResult DEF ErrorOf, OutcomeInv
<1>6. \A x \in Run : result[x[1]] # None => result'[x[1]] # None
  BY <1>1, ReportedResult DEF OutcomeInv
<1>7. FailSpooled'
  BY <1>1, <1>2, <1>3, <1>4 DEF OutcomeInv, FailSpooled
<1>8. LateFailSpooled'
  BY <1>1, <1>2, <1>3, <1>4, OutcomeTypes DEF OutcomeInv, LateFailSpooled, AfterFail
<1>9. ErrorAfterFail'
  BY <1>1, <1>2, <1>4, <1>5 DEF OutcomeInv, ErrorAfterFail, AfterFail
<1>10. OutputStored'
  <2>1. run[r].phase = "keeping" => result'[r[1]] # None
    BY <1>1, <1>4, ReportedResult DEF OutcomeInv
  <2>2. QED
    BY <1>1, <1>2, <1>4, <1>6, <2>1 DEF OutcomeInv, OutputStored
<1>11. EndedKept'
  <2>1. ASSUME NEW x \in Run, run'[x].phase = "ended", Ran(x), ~Spooled(x)
        PROVE  result'[x[1]] # None /\ ~ErrorOf(x)'
    <3>1. CASE x # r
      BY <1>2, <1>5, <1>6, <2>1, <3>1 DEF OutcomeInv, EndedKept
    <3>2. CASE x = r
      <4>1. run[r].phase = "closing"
        BY <1>1, <1>2, <1>4, <2>1, <3>2 DEF OutcomeInv, FailSpooled
      <4>2. ~ErrorOf(r)'
        BY <1>5, <4>1 DEF OutcomeInv, ErrorAfterFail, AfterFail
      <4>3. CASE run[r].outcome = "complete"
        BY <1>1, <1>4, <3>2, <4>1, <4>2, <4>3, ReportedResult DEF OutcomeInv
      <4>4. CASE run[r].outcome = "human"
        BY <1>6, <3>2, <4>1, <4>2, <4>4 DEF OutcomeInv, OutputStored
      <4>5. QED
        BY <2>1, <3>2, <4>3, <4>4 DEF Ran
    <3>3. QED
      BY <3>1, <3>2
  <2>2. QED
    BY <1>3, <2>1 DEF EndedKept
<1>12. StartingFresh'
  BY <1>1, <1>2, <1>3, <1>4 DEF OutcomeInv, StartingFresh
<1>13. QED
  BY <1>7, <1>8, <1>9, <1>10, <1>11, <1>12, <1>14 DEF OutcomeInv

LEMMA HandlerEndsOutcome ==
  ASSUME OutcomeInv, NEW r \in Run, NEW o \in Outcome \ {"none"}, HandlerEnds(r, o), HandedInv'
  PROVE  OutcomeInv'
<1>1. run[r].phase = "working" /\ UNCHANGED <<result, spool, unsaved, late>>
  BY DEF HandlerEnds, rowVars, spoolVars, netVars
<1>2. /\ \A x \in Run : x # r => run'[x] = run[x]
      /\ run'[r].phase = (IF o = "human" THEN "keeping" ELSE "closing")
      /\ run'[r].outcome = o /\ run'[r].worker = run[r].worker
  BY OutcomeTypes DEF HandlerEnds, Entering, OutcomeInv
<1>w. \A x \in Run : run'[x].worker = run[x].worker /\ (run[x].phase # "none" => run'[x].phase # "none")
  BY <1>1, <1>2
<1>3. \A x \in Run \ {r} : (Ran(x)' <=> Ran(x)) /\ (Spooled(x)' <=> Spooled(x))
  <2>1. \A x \in Run \ {r} : Ran(x)' <=> Ran(x)
    BY <1>2 DEF Ran
  <2>2. \A x \in unsaved : x \in Run
    BY DEF OutcomeInv, UnsavedRan
  <2>3. QED
    BY <1>1, <1>w, <2>1, <2>2 DEF Spooled
<1>11. UnsavedRan'
  BY <1>1, <1>w DEF OutcomeInv, UnsavedRan
<1>4. \A x \in Run : ErrorOf(x)' <=> ErrorOf(x)
  BY <1>1 DEF ErrorOf
<1>5. ~ErrorOf(r) /\ \A c \in late : c.kind = "fail" => c.run # r
  BY <1>1 DEF OutcomeInv, ErrorAfterFail, LateFailSpooled, AfterFail
<1>6. FailSpooled' /\ OutputStored' /\ EndedKept'
  BY <1>1, <1>2, <1>3, <1>4 DEF OutcomeInv, FailSpooled, OutputStored, EndedKept
<1>7. LateFailSpooled'
  BY <1>1, <1>2, <1>3, <1>5, OutcomeTypes DEF OutcomeInv, LateFailSpooled
<1>8. ErrorAfterFail'
  BY <1>1, <1>2, <1>4, <1>5 DEF OutcomeInv, ErrorAfterFail
<1>9. StartingFresh'
  BY <1>2, <1>3 DEF OutcomeInv, StartingFresh
<1>10. QED
  BY <1>6, <1>7, <1>8, <1>9, <1>11 DEF OutcomeInv

LEMMA ReportUnansweredOutcome ==
  ASSUME OutcomeInv, NEW r \in Run, ReportUnanswered(r), HandedInv'
  PROVE  OutcomeInv'
<1>1. /\ run[r].phase \in Reporting /\ result' = result
      /\ late' = late \cup {CopyOf(r)} /\ CopyOf(r).run = r /\ CopyOf(r).kind = KindOf(r)
  BY DEF ReportUnanswered, CopyOf, rowVars
<1>2. KindOf(r) = "fail" <=> run[r].phase = "failing"
  BY <1>1 DEF KindOf, ReportIn
<1>3. /\ \A x \in Run : x # r => run'[x] = run[x]
      /\ run'[r].outcome = run[r].outcome /\ run'[r].worker = run[r].worker
      /\ run'[r].phase \in {run[r].phase, "failing", "ended"}
      /\ run'[r].phase = "ended" => run[r].phase \in {"failing", "ended"}
  <2>1. run \in [Run -> RunRecord]
    BY OutcomeTypes DEF OutcomeInv
  <2>2. CASE run[r].sends < MaxSends
    BY <2>1, <2>2 DEF ReportUnanswered
  <2>3. CASE ~(run[r].sends < MaxSends)
    <3>1. run' = [run EXCEPT ![r] = Entering(run[r].worker,
                    IF run[r].phase = "failing" THEN "ended" ELSE "failing", run[r].outcome)]
      BY <2>3 DEF ReportUnanswered, Advance
    <3>2. QED
      BY <2>1, <3>1 DEF Entering
  <2>4. QED
    BY <2>2, <2>3
<1>4. \A x \in Run : run[x].phase # "none" /\ Spooled(x) => Spooled(x)'
  <2>1. UNCHANGED <<spool, unsaved>> \/ SpoolUnreported(r)
    BY DEF ReportUnanswered, spoolVars
  <2>w. \A x \in unsaved : x \in Run
    BY DEF OutcomeInv, UnsavedRan
  <2>2. CASE UNCHANGED <<spool, unsaved>>
    BY <1>3, <2>w, <2>2 DEF Spooled
  <2>3. ASSUME SpoolUnreported(r), NEW x \in Run, run[x].phase # "none", Spooled(x)
        PROVE  Spooled(x)'
    <3>1. /\ run[r].worker \in Workers /\ run[x].worker \in Workers
          /\ spool \in [Workers -> [Tasks -> Run \cup {None}]]
      BY <1>1, <2>3, OutcomeTypes DEF OutcomeInv, HandedInv, Handed
    <3>2. \A y \in Run : run'[y].worker = run[y].worker
      BY <1>3
    <3>3. unsaved \subseteq unsaved'
      BY <2>3 DEF SpoolUnreported, spoolVars
    <3>4. CASE \E y \in unsaved : y[1] = x[1] /\ run[y].worker = run[x].worker
      BY <2>w, <3>2, <3>3, <3>4 DEF Spooled
    <3>5. CASE spool[run[x].worker][x[1]] # None /\ (x[1] # r[1] \/ run[x].worker # run[r].worker)
      BY <2>3, <3>1, <3>2, <3>5 DEF SpoolUnreported, Spooled
    <3>6. CASE x[1] = r[1] /\ run[x].worker = run[r].worker
      BY <2>3, <3>1, <3>2, <3>6, NoneIsNothing DEF SpoolUnreported, Spooled
    <3>7. QED
      BY <2>3, <3>4, <3>5, <3>6 DEF Spooled
  <2>4. QED
    BY <2>1, <2>2, <2>3
<1>5. \A x \in Run : (Ran(x)' <=> Ran(x)) /\ (ErrorOf(x)' <=> ErrorOf(x))
  BY <1>1, <1>3 DEF Ran, ErrorOf
<1>6. run[r].phase \in {"keeping", "closing"} /\ run'[r].phase = "failing" => Spooled(r)'
  <2>1. SUFFICES ASSUME run[r].phase \in {"keeping", "closing"}, run'[r].phase = "failing"
                 PROVE  Spooled(r)'
    OBVIOUS
  <2>2. ~(run[r].sends < MaxSends)
    BY <2>1, OutcomeTypes DEF ReportUnanswered, OutcomeInv
  <2>3. SpoolUnreported(r)
    BY <2>1, <2>2 DEF ReportUnanswered
  <2>4. run[r].worker \in Workers /\ spool \in [Workers -> [Tasks -> Run \cup {None}]]
    BY <1>1, OutcomeTypes DEF OutcomeInv, HandedInv, Handed
  <2>5. QED
    BY <1>3, <2>3, <2>4, NoneIsNothing DEF SpoolUnreported, Spooled
<1>7. Ran(r) => run[r].phase # "starting"
  BY DEF OutcomeInv, StartingFresh
<1>8. FailSpooled'
  BY <1>1, <1>3, <1>4, <1>5, <1>6, <1>7 DEF OutcomeInv, FailSpooled
<1>9. LateFailSpooled'
  BY <1>1, <1>2, <1>3, <1>4, <1>5, OutcomeTypes DEF OutcomeInv, LateFailSpooled, FailSpooled, AfterFail
<1>10. ErrorAfterFail'
  BY <1>3, <1>5 DEF OutcomeInv, ErrorAfterFail, AfterFail
<1>11. OutputStored'
  BY <1>1, <1>3 DEF OutcomeInv, OutputStored
<1>12. EndedKept'
  BY <1>1, <1>3, <1>4, <1>5 DEF OutcomeInv, EndedKept, FailSpooled
<1>13. StartingFresh'
  BY <1>1, <1>3, <1>5 DEF OutcomeInv, StartingFresh
<1>15. UnsavedRan'
  <2>1. \A x \in unsaved' : x \in unsaved \/ x = r
    BY DEF ReportUnanswered, SpoolUnreported, spoolVars
  <2>2. \A x \in unsaved' : x \in Run /\ run[x].phase # "none"
    BY <1>1, <2>1 DEF OutcomeInv, UnsavedRan
  <2>3. QED
    BY <1>1, <1>3, <2>2 DEF UnsavedRan
<1>14. QED
  BY <1>8, <1>9, <1>10, <1>11, <1>12, <1>13, <1>15 DEF OutcomeInv

LEMMA CrashOutcome ==
  ASSUME OutcomeInv, NEW w \in Workers, Crash(w), HandedInv'
  PROVE  OutcomeInv'
<1> DEFINE dying == {r \in Run : run[r].worker = w
                                 /\ run[r].phase \in Reporting \cup {"working"}}
<1>1. /\ result' = result /\ spool' = spool /\ unsaved' = unsaved
      /\ late' = late \cup {CopyOf(r) : r \in {x \in dying : run[x].phase # "working"}}
      /\ run' = [r \in Run |-> IF r \in dying THEN [run[r] EXCEPT !.phase = "dead"]
                               ELSE run[r]]
  BY DEF Crash, rowVars, spoolVars
<1>2. \A r \in Run : /\ run'[r].outcome = run[r].outcome /\ run'[r].worker = run[r].worker
                     /\ r \in dying => run'[r].phase = "dead"
                     /\ r \notin dying => run'[r].phase = run[r].phase
  BY <1>1, OutcomeTypes DEF OutcomeInv
<1>3. \A r \in Run : /\ Ran(r)' <=> Ran(r)
                     /\ Spooled(r)' <=> Spooled(r)
                     /\ ErrorOf(r)' <=> ErrorOf(r)
  <2>1. \A x \in unsaved : x \in Run
    BY DEF OutcomeInv, UnsavedRan
  <2>2. ASSUME NEW r \in Run PROVE (Ran(r)' <=> Ran(r)) /\ (ErrorOf(r)' <=> ErrorOf(r))
    BY <1>1, <1>2 DEF Ran, ErrorOf
  <2>3. ASSUME NEW r \in Run PROVE Spooled(r)' <=> Spooled(r)
    <3>1. spool'[run'[r].worker][r[1]] = spool[run[r].worker][r[1]]
      BY <1>1, <1>2
    <3>2. \A x \in unsaved : run'[x].worker = run[x].worker
      BY <1>2, <2>1
    <3>3. unsaved' = unsaved /\ run'[r].worker = run[r].worker
      BY <1>1, <1>2
    <3> QED BY <3>1, <3>2, <3>3 DEF Spooled
  <2>4. QED
    BY <2>2, <2>3
<1>9. UnsavedRan'
  BY <1>1, <1>2 DEF OutcomeInv, UnsavedRan
<1>4. \A r \in Run : run[r].phase \in AfterFail => run'[r].phase \in AfterFail
  BY <1>2 DEF AfterFail
<1>5. FailSpooled' /\ OutputStored' /\ EndedKept' /\ StartingFresh'
  BY <1>1, <1>2, <1>3
     DEF OutcomeInv, FailSpooled, OutputStored, EndedKept, StartingFresh
<1>6. ErrorAfterFail'
  BY <1>3, <1>4 DEF OutcomeInv, ErrorAfterFail
<1>7. LateFailSpooled'
  <2>1. ASSUME NEW c \in late', c.kind = "fail"
        PROVE  run'[c.run].phase \in AfterFail /\ (Ran(c.run)' => Spooled(c.run)')
    <3>1. CASE c \in late
      BY <1>3, <1>4, <2>1, <3>1, OutcomeTypes DEF OutcomeInv, LateFailSpooled
    <3>2. CASE c \notin late
      <4>1. PICK r \in dying : run[r].phase # "working" /\ c = CopyOf(r)
        BY <1>1, <3>2
      <4>2. c.run = r /\ run[r].phase = "failing"
        BY <2>1, <4>1 DEF CopyOf, KindOf, ReportIn
      <4>3. QED
        BY <1>2, <1>3, <4>1, <4>2 DEF OutcomeInv, FailSpooled, AfterFail
    <3>3. QED
      BY <3>1, <3>2
  <2>2. QED
    BY <2>1 DEF LateFailSpooled
<1>8. QED
  BY <1>5, <1>6, <1>7, <1>9 DEF OutcomeInv

LEMMA NextOutcome == OutcomeInv /\ [Next]_vars => OutcomeInv'
<1> SUFFICES ASSUME OutcomeInv, [Next]_vars PROVE OutcomeInv'
  OBVIOUS
<1> USE DEF rowVars, clockVars, countVars, sqliteVars, workerVars, spoolVars, netVars
<1>h. HandedInv /\ HandedInv'
  BY NextHanded DEF OutcomeInv
<1>0. ASSUME UNCHANGED <<run, result, spool, unsaved, late>> PROVE OutcomeInv'
  BY <1>h, <1>0 DEF OutcomeInv, FailSpooled, LateFailSpooled, ErrorAfterFail, OutputStored,
     EndedKept, StartingFresh, UnsavedRan, Ran, Spooled, ErrorOf
<1>1. ASSUME NEW w \in Workers, NEW t \in Tasks, NEW p \in {"starting", "orphan"},
             status[t] = "pending", ClaimRow(w, t, p), UNCHANGED <<result, spool, unsaved, late>>
      PROVE  OutcomeInv'
  BY <1>h, <1>1, ClaimRowOutcome
<1>2. CASE OrchestratorStep
  <2>1. ASSUME NEW p \in picked, ClaimUpdate(p) PROVE OutcomeInv'
    <3>1. p.worker \in Workers /\ p.task \in Tasks
      BY <1>h DEF HandedInv, HandoutInv, TypeOK, CountsTyped
    <3>2. UNCHANGED <<result, spool, unsaved, late>>
      BY <2>1 DEF ClaimUpdate
    <3>3. CASE status[p.task] # "pending"
      BY <1>0, <2>1, <3>2, <3>3 DEF ClaimUpdate, NothingClaimed
    <3>4. CASE status[p.task] = "pending"
      <4>1. ClaimRow(p.worker, p.task, "starting") \/ ClaimRow(p.worker, p.task, "orphan")
        BY <2>1, <3>4 DEF ClaimUpdate, TakeUp
      <4>2. QED
        BY <1>1, <3>1, <3>2, <3>4, <4>1
    <3>5. QED
      BY <3>3, <3>4
  <2>2. ASSUME NEW c \in late, LateReport(c) PROVE OutcomeInv'
    BY <1>h, <2>2, LateReportOutcome
  <2>3. ASSUME NEW t \in Tasks, NEW b \in Bodies, CreateTask(t, b) PROVE OutcomeInv'
    BY <1>0, <2>3 DEF CreateTask
  <2>4. ASSUME NEW t \in Tasks, NEW s \in {"done", "failed", "pending"}, Resolve(t, s)
        PROVE  OutcomeInv'
    BY <1>0, <2>4 DEF Resolve
  <2>5. CASE ReapStale \/ ReapSelect \/ ReapUpdate \/ Backfill
    BY <1>0, <2>5 DEF ReapStale, ReapSelect, ReapUpdate, ReapRows, Backfill
  <2>6. QED
    BY <1>2, <2>1, <2>2, <2>3, <2>4, <2>5 DEF OrchestratorStep
<1>3. ASSUME NEW t \in Tasks, GraceElapses(t) \/ BecomesStale(t) PROVE OutcomeInv'
  BY <1>0, <1>3 DEF GraceElapses, BecomesStale
<1>4. ASSUME NEW w \in Workers, WorkerStep(w) PROVE OutcomeInv'
  <2>1. CASE ClaimAnswered(w)
    BY <1>0, <1>1, <2>1, NextForMayRun DEF ClaimAnswered, TakeUp, NothingClaimed
  <2>2. CASE GhostClaim(w)
    BY <1>0, <1>1, <2>2, NextForMayRun DEF GhostClaim
  <2>3. CASE Poll(w) \/ PollTimeout(w) \/ (\E live \in BOOLEAN : ClaimSelect(w, live))
    BY <1>0, <2>3 DEF Poll, PollTimeout, ClaimSelect
  <2>4. CASE Crash(w)
    BY <1>h, <2>4, CrashOutcome
  <2>5. QED
    BY <1>4, <2>1, <2>2, <2>3, <2>4 DEF WorkerStep
<1>5. ASSUME NEW r \in Run, RunStep(r) PROVE OutcomeInv'
  BY <1>h, <1>5, HandlerEndsOutcome, ReportAnsweredOutcome, ReportUnansweredOutcome DEF RunStep
<1>6. CASE UNCHANGED vars
  BY <1>0, <1>6 DEF vars
<1>7. QED
  BY <1>2, <1>3, <1>4, <1>5, <1>6 DEF Next

(***************************************************************************)
(* What a finished run produced is never simply gone: when its worker lets *)
(* go of the task, the row holds it or a later report has replaced it, or  *)
(* the worker's spool holds a file for the task, unless writing that file  *)
(* failed.  In particular the /fail a run reports after it could not       *)
(* deliver its outcome is the only thing left only when the disk refused   *)
(* the file (_run_task, _spool_unreported).                                *)
(***************************************************************************)
THEOREM OutcomeIsKept == Spec => []OutcomeKept
<1>1. Init => OutcomeInv
  <2>1. Init => HandedInv
    BY InitLedger DEF LedgerInv
  <2>2. Init => /\ FailSpooled /\ LateFailSpooled /\ ErrorAfterFail
                /\ OutputStored /\ EndedKept /\ StartingFresh /\ UnsavedRan
    BY DEF Init, FailSpooled, LateFailSpooled, ErrorAfterFail, OutputStored, EndedKept,
       StartingFresh, UnsavedRan, Ran, ErrorOf, NoRun, Entering
  <2>3. QED
    BY <2>1, <2>2 DEF OutcomeInv
<1>2. OutcomeInv => OutcomeKept
  BY OutcomeTypes DEF OutcomeInv, EndedKept, OutcomeKept, Ran, Spooled, ErrorOf
<1>3. QED
  BY <1>1, <1>2, NextOutcome, PTL DEF Spec
-------------------------------------------------------------------------------
(* The cap and the slots                                                   *)

\* Rows have a body, so that a claim's SELECT returns one row at most.
BodiesKnown == \A t \in Tasks : status[t] # "absent" => body[t] \in PlacedBodies

\* The row a live claim selected is the one its worker waits for.
OneLivePick ==
  /\ \A p \in picked : p.live => asked[p.worker] > 0
  /\ \A p, q \in picked : p.live /\ q.live /\ p.worker = q.worker => p = q
  /\ Backend = "rqlite" => picked = {}

\* The tasks a worker has taken up, and the one it asks for, are within its cap.
ActiveWithinCap ==
  \A w \in Workers :
    /\ IsFiniteSet(active[w])
    /\ MaxConcurrent > 0 =>
         Cardinality(active[w]) + (IF asked[w] > 0 THEN 1 ELSE 0) <= MaxConcurrent

\* The id of a running task is in active_tasks, unless another run of it ended.
RunningActive ==
  \A r \in Run :
    run[r].phase \in Reporting \cup {"working"} /\ epochs[r[1]] <= 1 => r \in active[run[r].worker]

CapInv == HandedInv /\ BodiesKnown /\ OneLivePick /\ ActiveWithinCap /\ RunningActive

LEMMA BodyIsRecord ==
  \A b \in PlacedBodies : b.prio \in Nat
<1> SUFFICES ASSUME NEW b \in Bodies PROVE WithPlacement(b).prio \in Nat
  BY DEF PlacedBodies
<1>1. b = [type |-> b.type, prio |-> b.prio, pin |-> b.pin, pref |-> b.pref] /\ b.prio \in 0..10
  BY QueueAssumption
<1>2. [b EXCEPT !.pref = Primary].prio = b.prio
  BY <1>1
<1> QED BY <1>1, <1>2 DEF WithPlacement

\* A row keeps its body and its age; a task that has runs is no absent one.
LEMMA RowsGoOn ==
  ASSUME HandedInv, [Next]_vars
  PROVE  /\ aged \subseteq aged'
         /\ \A t \in Tasks : status[t] # "absent" => body'[t] = body[t]
         /\ \A t \in Tasks : body'[t] = body[t] \/ body'[t] \in PlacedBodies
         /\ \A t \in Tasks : status[t] = "absent" => status'[t] = "absent" \/ body'[t] \in PlacedBodies
<1> DEFINE Goal == /\ aged \subseteq aged'
                   /\ \A t \in Tasks : status[t] # "absent" => body'[t] = body[t]
                   /\ \A t \in Tasks : body'[t] = body[t] \/ body'[t] \in PlacedBodies
                   /\ \A t \in Tasks : status[t] = "absent" =>
                        status'[t] = "absent" \/ body'[t] \in PlacedBodies
<1> USE DEF rowVars, clockVars, countVars, sqliteVars, workerVars, spoolVars, netVars
<1>t. /\ status \in [Tasks -> Status] /\ body \in [Tasks -> PlacedBodies \cup {None}]
      /\ claims \in [Tasks -> 0..MaxEpochs] /\ run \in [Run -> RunRecord]
      /\ picked \subseteq [worker : Workers, task : Tasks, live : BOOLEAN]
      /\ late \subseteq [run : Run, kind : Kind, send : 1..MaxSends]
  BY DEF HandedInv, HandoutInv, TypeOK, RowsTyped, CountsTyped, WorkersTyped, NetTyped
<1>0. ASSUME aged \subseteq aged', body' = body,
             \A t \in Tasks : status[t] = "absent" => status'[t] = "absent"
      PROVE  Goal
  BY <1>0
<1>1. ASSUME NEW w, NEW t \in Tasks, NEW p, ClaimRow(w, t, p), status[t] = "pending",
             aged' = aged, body' = body
      PROVE  Goal
  BY <1>1, <1>t DEF ClaimRow
<1>2. ASSUME NEW r \in Run, NEW kind \in Kind, run[r].phase # "none", UpdateTask(r, kind) PROVE Goal
  <2>1. r[1] \in Tasks /\ r[2] \in 1..MaxEpochs /\ r[2] <= claims[r[1]]
    BY <1>2 DEF HandedInv, Handed
  <2>2. status[r[1]] # "absent"
    BY <1>t, <2>1, BoundsNat DEF HandedInv, HandoutInv, Counted
  <2> QED BY <1>0, <1>2, <1>t, <2>1, <2>2 DEF UpdateTask
<1>3. CASE OrchestratorStep
  <2>1. ASSUME NEW p \in picked, ClaimUpdate(p) PROVE Goal
    <3>1. p.worker \in Workers /\ p.task \in Tasks
      BY <1>t
    <3>2. CASE NothingClaimed
      BY <1>0, <2>1, <3>2 DEF ClaimUpdate, NothingClaimed
    <3>3. CASE status[p.task] = "pending" /\ \E x \in {"starting", "orphan"} : ClaimRow(p.worker, p.task, x)
      BY <1>1, <2>1, <3>1, <3>3 DEF ClaimUpdate
    <3> QED BY <2>1, <3>2, <3>3 DEF ClaimUpdate, TakeUp
  <2>2. ASSUME NEW c \in late, LateReport(c) PROVE Goal
    <3>1. c.run \in Run /\ c.kind \in Kind /\ run[c.run].phase # "none"
      BY <1>t DEF HandedInv, Handed
    <3> QED BY <1>2, <2>2, <3>1 DEF LateReport
  <2>3. ASSUME NEW t \in Tasks, NEW b \in Bodies, CreateTask(t, b) PROVE Goal
    <3>1. WithPlacement(b) \in PlacedBodies
      BY DEF PlacedBodies
    <3> QED BY <1>t, <2>3, <3>1 DEF CreateTask
  <2>4. ASSUME NEW t \in Tasks, NEW s \in {"done", "failed", "pending"}, Resolve(t, s) PROVE Goal
    BY <1>0, <1>t, <2>4 DEF Resolve
  <2>5. CASE ReapStale \/ ReapUpdate
    BY <1>0, <1>t, <2>5 DEF ReapStale, ReapUpdate, ReapRows, StuckRows
  <2>6. CASE ReapSelect \/ Backfill
    BY <1>0, <2>6 DEF ReapSelect, Backfill
  <2> QED BY <1>3, <2>1, <2>2, <2>3, <2>4, <2>5, <2>6 DEF OrchestratorStep
<1>4. ASSUME NEW t \in Tasks, GraceElapses(t) \/ BecomesStale(t) PROVE Goal
  BY <1>0, <1>4 DEF GraceElapses, BecomesStale
<1>5. ASSUME NEW w \in Workers, WorkerStep(w) PROVE Goal
  <2>1. CASE ClaimAnswered(w)
    BY <1>0, <1>1, <2>1, NextForMayRun DEF ClaimAnswered, TakeUp, NothingClaimed
  <2>2. CASE GhostClaim(w)
    BY <1>0, <1>1, <2>2, NextForMayRun DEF GhostClaim
  <2>3. CASE Poll(w) \/ PollTimeout(w) \/ (\E live \in BOOLEAN : ClaimSelect(w, live)) \/ Crash(w)
    BY <1>0, <2>3 DEF Poll, PollTimeout, ClaimSelect, Crash
  <2> QED BY <1>5, <2>1, <2>2, <2>3 DEF WorkerStep
<1>6. ASSUME NEW r \in Run, RunStep(r) PROVE Goal
  <2>1. CASE ReportAnswered(r)
    BY <1>2, <2>1, KindTyped DEF ReportAnswered
  <2>2. CASE (\E o \in Outcome \ {"none"} : HandlerEnds(r, o)) \/ ReportUnanswered(r)
    BY <1>0, <2>2 DEF HandlerEnds, ReportUnanswered
  <2> QED BY <1>6, <2>1, <2>2 DEF RunStep
<1>7. CASE UNCHANGED vars
  BY <1>0, <1>7 DEF vars
<1> QED BY <1>3, <1>4, <1>5, <1>6, <1>7 DEF Next

LEMMA BodiesStep ==
  ASSUME HandedInv, BodiesKnown, [Next]_vars
  PROVE  BodiesKnown'
BY RowsGoOn DEF BodiesKnown

\* A claim's SELECT returns one row at most: no two tasks are equally urgent
\* and equally old.
LEMMA NextForUnique ==
  ASSUME HandedInv, BodiesKnown, NEW w \in Workers, NEW t \in NextFor(w), NEW u \in NextFor(w)
  PROVE  t = u
<1>1. t \in Tasks /\ u \in Tasks /\ Before(t, u) /\ Before(u, t) /\ t \in Nat /\ u \in Nat
  BY QueueAssumption DEF NextFor
<1>2. body[t].prio \in Nat /\ body[u].prio \in Nat
  BY <1>1, BodyIsRecord, NextForMayRun DEF BodiesKnown
<1> QED BY <1>1, <1>2 DEF Before

\* A picked entry that was given up is live no more.
LEMMA GivenUpPicks ==
  ASSUME HandedInv, NEW w \in Workers, LoseClaim(w) \/ DelayClaim(w)
  PROVE  \A p \in picked' : p.live => p \in picked /\ p.worker # w
<1>1. \A p \in picked \ LivePicks(w) : p.live => p.worker # w
  BY DEF LivePicks
<1>2. \A p \in LivePicks(w) : ~[p EXCEPT !.live = FALSE].live
  BY DEF LivePicks, HandedInv, HandoutInv, TypeOK, CountsTyped
<1>3. CASE LoseClaim(w)
  BY <1>1, <1>3 DEF LoseClaim
<1>4. CASE DelayClaim(w)
  BY <1>1, <1>2, <1>4 DEF DelayClaim
<1> QED BY <1>3, <1>4

LEMMA PicksStep ==
  ASSUME HandedInv, BodiesKnown, OneLivePick, [Next]_vars
  PROVE  OneLivePick'
<1> USE DEF rowVars, clockVars, countVars, sqliteVars, workerVars, spoolVars, netVars
<1>t. /\ asked \in [Workers -> 0..Endpoints] /\ Endpoints \in Nat
      /\ picked \subseteq [worker : Workers, task : Tasks, live : BOOLEAN]
  BY BoundsNat DEF HandedInv, HandoutInv, TypeOK, WorkersTyped, CountsTyped
<1>0. ASSUME UNCHANGED <<picked, asked>> PROVE OneLivePick'
  BY <1>0 DEF OneLivePick
<1>1. ASSUME NEW w \in Workers, LoseClaim(w) \/ DelayClaim(w), NEW n, asked' = [asked EXCEPT ![w] = n]
      PROVE  OneLivePick'
  <2>1. \A p \in picked' : p.live => p \in picked /\ p.worker # w
    BY <1>1, GivenUpPicks
  <2>2. Backend = "rqlite" => picked' = {}
    BY <1>1 DEF OneLivePick, LoseClaim, DelayClaim, LivePicks
  <2> QED BY <1>1, <1>t, <2>1, <2>2 DEF OneLivePick
<1>2. ASSUME NEW w \in Workers, NEW live \in BOOLEAN, ClaimSelect(w, live) PROVE OneLivePick'
  <2> DEFINE new == {[worker |-> w, task |-> t, live |-> live] : t \in NextFor(w)}
  <2>1. picked' = picked \cup new /\ Backend # "rqlite"
    BY <1>2 DEF ClaimSelect
  <2>2. \A p \in new : p.worker = w /\ p.live = live
    OBVIOUS
  <2>3. \A p, q \in new : p = q
    BY NextForUnique
  <2>4. \A p \in picked : p.live /\ p.worker = w => ~live
    BY <1>2 DEF ClaimSelect, LivePicks
  <2>5. asked' = asked \/ (live /\ new = {} /\ asked' = [asked EXCEPT ![w] = 0])
    BY <1>2 DEF ClaimSelect
  <2>6. live => asked[w] > 0
    BY <1>2 DEF ClaimSelect
  <2>7. \A p \in picked' : p.live => asked'[p.worker] > 0
    <3> SUFFICES ASSUME NEW p \in picked', p.live PROVE asked'[p.worker] > 0
      OBVIOUS
    <3>1. CASE p \in new
      BY <2>2, <2>5, <2>6, <3>1
    <3>2. CASE p \in picked
      BY <1>t, <2>4, <2>5, <3>2 DEF OneLivePick
    <3> QED BY <2>1, <3>1, <3>2
  <2>8. \A p, q \in picked' : p.live /\ q.live /\ p.worker = q.worker => p = q
    BY <2>1, <2>2, <2>3, <2>4 DEF OneLivePick
  <2> QED BY <2>1, <2>7, <2>8 DEF OneLivePick
<1>3. ASSUME NEW p \in picked, ClaimUpdate(p) PROVE OneLivePick'
  <2>1. picked' = picked \ {p} /\ asked' = IF p.live THEN [asked EXCEPT ![p.worker] = 0] ELSE asked
    BY <1>3 DEF ClaimUpdate
  <2>2. \A q \in picked' : q.live /\ p.live => q.worker # p.worker
    BY <2>1 DEF OneLivePick
  <2> QED BY <1>t, <2>1, <2>2 DEF OneLivePick
<1>4. ASSUME NEW w \in Workers, WorkerStep(w) PROVE OneLivePick'
  <2>1. CASE ClaimAnswered(w)
    BY <2>1 DEF ClaimAnswered, OneLivePick
  <2>2. CASE GhostClaim(w)
    BY <1>0, <2>2 DEF GhostClaim
  <2>3. CASE Poll(w)
    BY <1>t, <2>3 DEF Poll, OneLivePick
  <2>4. CASE PollTimeout(w) \/ Crash(w)
    BY <1>1, <2>4 DEF PollTimeout, Crash
  <2> QED BY <1>2, <1>4, <2>1, <2>2, <2>3, <2>4 DEF WorkerStep
<1>5. CASE OrchestratorStep
  BY <1>0, <1>3, <1>5 DEF OrchestratorStep, CreateTask, Resolve, ReapStale, ReapSelect, ReapUpdate,
                          ReapRows, Backfill, LateReport, UpdateTask
<1>6. ASSUME NEW t \in Tasks, GraceElapses(t) \/ BecomesStale(t) PROVE OneLivePick'
  BY <1>0, <1>6 DEF GraceElapses, BecomesStale
<1>7. ASSUME NEW r \in Run, RunStep(r) PROVE OneLivePick'
  BY <1>0, <1>7 DEF RunStep, HandlerEnds, ReportAnswered, ReportUnanswered, UpdateTask
<1>8. CASE UNCHANGED vars
  BY <1>0, <1>8 DEF vars
<1> QED BY <1>4, <1>5, <1>6, <1>7, <1>8 DEF Next

\* One more entry in a finite set.
LEMMA OneMore ==
  ASSUME NEW S, IsFiniteSet(S), NEW x
  PROVE  /\ IsFiniteSet(S \cup {x}) /\ Cardinality(S \cup {x}) <= Cardinality(S) + 1
         /\ Cardinality(S) \in Nat /\ Cardinality(S \cup {x}) \in Nat
<1>1. /\ IsFiniteSet(S \cup {x})
      /\ Cardinality(S \cup {x}) = IF x \in S THEN Cardinality(S) ELSE Cardinality(S) + 1
  BY FS_AddElement
<1>2. Cardinality(S) \in Nat
  BY FS_CardinalityType
<1> QED BY <1>1, <1>2

\* What ends, fails or gives up leaves no more active tasks than there were.
LEMMA ActiveShrinks ==
  ASSUME ActiveWithinCap,
         \A w \in Workers : active'[w] \subseteq active[w] /\ (asked'[w] > 0 => asked[w] > 0)
  PROVE  ActiveWithinCap'
<1> SUFFICES ASSUME NEW w \in Workers
             PROVE  /\ IsFiniteSet(active'[w])
                    /\ MaxConcurrent > 0 =>
                         Cardinality(active'[w]) + (IF asked'[w] > 0 THEN 1 ELSE 0) <= MaxConcurrent
  BY DEF ActiveWithinCap
<1>1. IsFiniteSet(active[w]) /\ MaxConcurrent \in Nat
  BY QueueAssumption DEF ActiveWithinCap
<1>2. IsFiniteSet(active'[w]) /\ Cardinality(active'[w]) <= Cardinality(active[w])
  BY <1>1, FS_Subset
<1>3. Cardinality(active'[w]) \in Nat /\ Cardinality(active[w]) \in Nat
  BY <1>1, <1>2, FS_CardinalityType
<1> QED BY <1>1, <1>2, <1>3 DEF ActiveWithinCap

\* A worker that asked has room for the task it then takes up.
LEMMA TakeUpWithinCap ==
  ASSUME HandedInv, ActiveWithinCap, NEW w \in Workers, asked[w] > 0, NEW x,
         active' = [active EXCEPT ![w] = @ \cup {x}], asked' = [asked EXCEPT ![w] = 0]
  PROVE  ActiveWithinCap'
<1>1. active \in [Workers -> SUBSET Run] /\ asked \in [Workers -> 0..Endpoints]
  BY DEF HandedInv, HandoutInv, TypeOK, WorkersTyped
<1>2. MaxConcurrent \in Nat /\ IsFiniteSet(active[w])
      /\ (MaxConcurrent > 0 => Cardinality(active[w]) + 1 <= MaxConcurrent)
  BY QueueAssumption DEF ActiveWithinCap
<1>3. /\ active'[w] = active[w] \cup {x} /\ asked'[w] = 0
      /\ \A v \in Workers \ {w} : active'[v] = active[v] /\ asked'[v] = asked[v]
  BY <1>1
<1>4. /\ IsFiniteSet(active'[w]) /\ Cardinality(active'[w]) <= Cardinality(active[w]) + 1
      /\ Cardinality(active[w]) \in Nat /\ Cardinality(active'[w]) \in Nat
  <2>1. /\ IsFiniteSet(active[w] \cup {x})
        /\ Cardinality(active[w] \cup {x}) <= Cardinality(active[w]) + 1
        /\ Cardinality(active[w]) \in Nat /\ Cardinality(active[w] \cup {x}) \in Nat
    BY <1>2, OneMore
  <2> QED BY <1>3, <2>1
<1>5. MaxConcurrent > 0 => Cardinality(active'[w]) <= MaxConcurrent
  BY <1>2, <1>4
<1> QED BY <1>3, <1>4, <1>5 DEF ActiveWithinCap

LEMMA ActiveStep ==
  ASSUME HandedInv, OneLivePick, ActiveWithinCap, [Next]_vars
  PROVE  ActiveWithinCap'
<1> USE DEF rowVars, clockVars, countVars, sqliteVars, workerVars, spoolVars, netVars
<1>t. active \in [Workers -> SUBSET Run] /\ asked \in [Workers -> 0..Endpoints] /\ Endpoints \in Nat
      /\ run \in [Run -> RunRecord]
  BY BoundsNat DEF HandedInv, HandoutInv, TypeOK, WorkersTyped
<1>0. ASSUME UNCHANGED <<active, asked>> PROVE ActiveWithinCap'
  BY <1>0, ActiveShrinks
<1>1. ASSUME NEW w \in Workers, active' = active, asked' = [asked EXCEPT ![w] = 0] PROVE ActiveWithinCap'
  BY <1>1, <1>t, ActiveShrinks
<1>2. ASSUME NEW p \in picked, ClaimUpdate(p) PROVE ActiveWithinCap'
  <2>1. p.worker \in Workers /\ p.live \in BOOLEAN /\ (p.live => asked[p.worker] > 0)
    BY DEF OneLivePick, HandedInv, HandoutInv, TypeOK, CountsTyped
  <2>2. CASE active' = active
    BY <1>0, <1>1, <1>2, <2>1, <2>2 DEF ClaimUpdate
  <2>3. CASE p.live /\ TakeUp(p.worker, p.task)
    BY <1>2, <2>1, <2>3, TakeUpWithinCap DEF ClaimUpdate, TakeUp
  <2> QED BY <1>2, <2>2, <2>3 DEF ClaimUpdate, NothingClaimed
<1>3. CASE OrchestratorStep
  BY <1>0, <1>2, <1>3 DEF OrchestratorStep, CreateTask, Resolve, ReapStale, ReapSelect, ReapUpdate,
                          ReapRows, Backfill, LateReport, UpdateTask
<1>4. ASSUME NEW w \in Workers, WorkerStep(w) PROVE ActiveWithinCap'
  <2>1. CASE Poll(w)
    <3>1. /\ active' = active /\ asked' = [asked EXCEPT ![w] = 1]
          /\ MaxConcurrent = 0 \/ Cardinality(active[w]) < MaxConcurrent
      BY <2>1 DEF Poll
    <3>2. MaxConcurrent \in Nat /\ Cardinality(active[w]) \in Nat /\ IsFiniteSet(active[w])
      BY QueueAssumption, FS_CardinalityType DEF ActiveWithinCap
    <3> QED BY <1>t, <3>1, <3>2 DEF ActiveWithinCap
  <2>2. CASE ClaimAnswered(w)
    <3>1. asked[w] > 0 /\ asked' = [asked EXCEPT ![w] = 0]
      BY <2>2 DEF ClaimAnswered
    <3>2. CASE NothingClaimed
      BY <1>1, <3>1, <3>2 DEF NothingClaimed
    <3>3. ASSUME NEW t, TakeUp(w, t) PROVE ActiveWithinCap'
      BY <3>1, <3>3, TakeUpWithinCap DEF TakeUp
    <3> QED BY <2>2, <3>2, <3>3 DEF ClaimAnswered
  <2>3. CASE GhostClaim(w)
    BY <1>0, <2>3 DEF GhostClaim
  <2>4. CASE \E live \in BOOLEAN : ClaimSelect(w, live)
    BY <1>0, <1>1, <2>4 DEF ClaimSelect
  <2>5. CASE PollTimeout(w)
    <3>1. asked[w] > 0 /\ active' = active /\ \A v \in Workers : v # w => asked'[v] = asked[v]
      BY <1>t, <2>5 DEF PollTimeout
    <3> QED BY <3>1, ActiveShrinks
  <2>6. CASE Crash(w)
    <3>1. /\ active' = [active EXCEPT ![w] = {}] /\ asked' = [asked EXCEPT ![w] = 0]
      BY <2>6 DEF Crash
    <3>2. \A v \in Workers : active'[v] \subseteq active[v] /\ (asked'[v] > 0 => asked[v] > 0)
      BY <1>t, <3>1
    <3> QED BY <3>2, ActiveShrinks
  <2> QED BY <1>4, <2>1, <2>2, <2>3, <2>4, <2>5, <2>6 DEF WorkerStep
<1>5. ASSUME NEW r \in Run, RunStep(r) PROVE ActiveWithinCap'
  <2>1. asked' = asked
    BY <1>5 DEF RunStep, HandlerEnds, ReportAnswered, ReportUnanswered
  <2>2. \A w \in Workers : active'[w] \subseteq active[w]
    <3>1. ASSUME NEW p, Advance(r, p) PROVE \A w \in Workers : active'[w] \subseteq active[w]
      BY <1>t, <3>1 DEF Advance
    <3> QED BY <1>5, <3>1 DEF RunStep, HandlerEnds, ReportAnswered, ReportUnanswered
  <2> QED BY <2>1, <2>2, ActiveShrinks
<1>6. ASSUME NEW t \in Tasks, GraceElapses(t) \/ BecomesStale(t) PROVE ActiveWithinCap'
  BY <1>0, <1>6 DEF GraceElapses, BecomesStale
<1>7. CASE UNCHANGED vars
  BY <1>0, <1>7 DEF vars
<1> QED BY <1>3, <1>4, <1>5, <1>6, <1>7 DEF Next

\* Two claims of one task need it to be pending twice.
LEMMA OneRunEach ==
  ASSUME HandedInv, NEW r \in Run, NEW x \in Run, run[r].phase # "none", run[x].phase # "none",
         x[1] = r[1], epochs[r[1]] <= 1
  PROVE  x = r
<1>1. /\ r[1] \in Tasks /\ r[2] \in Nat /\ x[2] \in Nat /\ r[2] >= 1 /\ x[2] >= 1
      /\ r = <<r[1], r[2]>> /\ x = <<x[1], x[2]>>
  BY BoundsNat
<1>2. /\ claims[r[1]] \in Nat /\ epochs[r[1]] \in Nat /\ claims[r[1]] <= epochs[r[1]]
      /\ r[2] <= claims[r[1]] /\ x[2] <= claims[r[1]]
  BY <1>1, BoundsNat DEF HandedInv, Handed, HandoutInv, Counted, OneHandoutPerEpoch, TypeOK, CountsTyped
<1> QED BY <1>1, <1>2

LEMMA RunningStep ==
  ASSUME HandedInv, RunningActive, [Next]_vars
  PROVE  RunningActive'
<1> DEFINE Live == Reporting \cup {"working"}
<1> USE DEF rowVars, clockVars, countVars, sqliteVars, workerVars, spoolVars, netVars
<1>t. /\ active \in [Workers -> SUBSET Run] /\ run \in [Run -> RunRecord]
      /\ epochs \in [Tasks -> 0..MaxEpochs] /\ claims \in [Tasks -> 0..MaxEpochs]
      /\ \A r \in Run : r[1] \in Tasks /\ (run[r].phase # "none" => run[r].worker \in Workers)
  BY DEF HandedInv, HandoutInv, TypeOK, WorkersTyped, CountsTyped, Handed
<1>0. ASSUME UNCHANGED <<run, active, epochs>> PROVE RunningActive'
  BY <1>0 DEF RunningActive
<1>1. ASSUME NEW w \in Workers, NEW t \in Tasks, status[t] = "pending", UNCHANGED epochs,
             TakeUp(w, t) \/ (ClaimRow(w, t, "orphan") /\ UNCHANGED active)
      PROVE  RunningActive'
  <2> DEFINE q == <<t, claims[t] + 1>>
  <2>1. q \in Run
    BY <1>1, ClaimRowTyped DEF TakeUp, HandedInv
  <2>2. \A r \in Run : r # q => run'[r] = run[r]
    BY <1>1, <1>t DEF TakeUp, ClaimRow
  <2>3. \A v \in Workers : active[v] \subseteq active'[v]
    BY <1>1, <1>t DEF TakeUp
  <2>4. run'[q].phase \in Live => run'[q].worker = w /\ q \in active'[w]
    <3>1. CASE TakeUp(w, t)
      BY <1>t, <2>1, <3>1 DEF TakeUp, ClaimRow, Entering
    <3>2. CASE ClaimRow(w, t, "orphan")
      BY <1>t, <2>1, <3>2 DEF ClaimRow, Entering
    <3> QED BY <1>1, <3>1, <3>2
  <2>5. ASSUME NEW r \in Run, run'[r].phase \in Live, epochs'[r[1]] <= 1
        PROVE  r \in active'[run'[r].worker]
    <3>1. CASE r = q
      BY <2>4, <2>5, <3>1
    <3>2. CASE r # q
      <4>1. run'[r] = run[r] /\ run[r].worker \in Workers /\ r \in active[run[r].worker]
        BY <1>1, <1>t, <2>2, <2>5, <3>2 DEF RunningActive
      <4> QED BY <2>3, <4>1
    <3> QED BY <3>1, <3>2
  <2> QED BY <2>5 DEF RunningActive
<1>2. ASSUME NEW p \in picked, ClaimUpdate(p) PROVE RunningActive'
  <2>1. p.worker \in Workers /\ p.task \in Tasks
    BY DEF HandedInv, HandoutInv, TypeOK, CountsTyped
  <2> QED BY <1>0, <1>1, <1>2, <2>1 DEF ClaimUpdate, NothingClaimed
<1>3. ASSUME NEW t \in Tasks, UNCHANGED <<run, active>>, NEW n, epochs' = [epochs EXCEPT ![t] = n],
             n <= 1 => epochs[t] <= 1 \/ \A r \in Run : r[1] = t => run[r].phase = "none"
      PROVE  RunningActive'
  BY <1>3, <1>t DEF RunningActive
<1>4. CASE OrchestratorStep
  <2>1. ASSUME NEW t \in Tasks, NEW b \in Bodies, CreateTask(t, b) PROVE RunningActive'
    <3>1. status[t] = "absent" /\ claims[t] = 0
      BY <2>1 DEF CreateTask, HandedInv, HandoutInv, Counted
    <3>2. \A r \in Run : r[1] = t => run[r].phase = "none"
      BY <1>t, <3>1, BoundsNat DEF HandedInv, Handed
    <3> QED BY <1>3, <2>1, <3>2 DEF CreateTask
  <2>2. ASSUME NEW t \in Tasks, NEW s \in {"done", "failed", "pending"}, Resolve(t, s)
        PROVE  RunningActive'
    <3>1. epochs' = [epochs EXCEPT ![t] = IF s = "pending" /\ status[t] # "pending" THEN @ + 1 ELSE @]
          /\ UNCHANGED <<run, active>>
      BY <2>2 DEF Resolve
    <3>2. epochs[t] \in Nat
      BY <1>t, BoundsNat
    <3>3. CASE epochs' = [epochs EXCEPT ![t] = epochs[t] + 1]
      <4>1. PICK n : n = epochs[t] + 1
        OBVIOUS
      <4>2. epochs' = [epochs EXCEPT ![t] = n]
        BY <3>3, <4>1
      <4>3. n <= 1 => epochs[t] <= 1
        BY <3>2, <4>1
      <4> QED BY <1>3, <2>2, <3>1, <4>2, <4>3
    <3>4. CASE epochs' = epochs
      BY <1>0, <3>1, <3>4
    <3> QED BY <1>t, <3>1, <3>3, <3>4
  <2> QED BY <1>0, <1>2, <1>4, <2>1, <2>2 DEF OrchestratorStep, ReapStale, ReapSelect, ReapUpdate,
                                             ReapRows, Backfill, LateReport, UpdateTask
<1>5. ASSUME NEW w \in Workers, WorkerStep(w) PROVE RunningActive'
  <2>1. CASE ClaimAnswered(w) \/ GhostClaim(w)
    <3>1. \A t \in NextFor(w) : t \in Tasks /\ status[t] = "pending"
      BY NextForMayRun
    <3> QED BY <1>0, <1>1, <2>1, <3>1 DEF ClaimAnswered, GhostClaim, NothingClaimed
  <2>2. CASE Crash(w)
    <3>1. \A r \in Run : run'[r].phase \in Live => run'[r] = run[r] /\ run[r].worker # w
      BY <1>t, <2>2 DEF Crash
    <3>2. (\A v \in Workers : v # w => active'[v] = active[v]) /\ epochs' = epochs
      BY <1>t, <2>2 DEF Crash
    <3> QED BY <1>t, <3>1, <3>2 DEF RunningActive
  <2> QED BY <1>0, <1>5, <2>1, <2>2 DEF WorkerStep, Poll, PollTimeout, ClaimSelect
<1>6. ASSUME NEW r \in Run, RunStep(r) PROVE RunningActive'
  <2>1. /\ run[r].phase \in Live /\ epochs' = epochs /\ run'[r].worker = run[r].worker
        /\ \A x \in Run : x # r => run'[x] = run[x]
    BY <1>6, <1>t DEF RunStep, HandlerEnds, ReportAnswered, ReportUnanswered, Advance, Entering, UpdateTask
  <2>2. CASE active' = active
    BY <2>1, <2>2 DEF RunningActive
  <2>3. CASE active' # active
    <3>1. /\ active' = [active EXCEPT ![run[r].worker] = {x \in @ : x[1] # r[1]}]
          /\ run'[r].phase = "ended"
      BY <1>6, <1>t, <2>3 DEF RunStep, HandlerEnds, ReportAnswered, ReportUnanswered, Advance, Entering
    <3>2. ASSUME NEW x \in Run, run'[x].phase \in Live, epochs'[x[1]] <= 1
          PROVE  x \in active'[run'[x].worker]
      <4>1. x # r /\ run'[x] = run[x] /\ run[x].worker \in Workers /\ x \in active[run[x].worker]
        BY <1>t, <2>1, <3>1, <3>2 DEF RunningActive
      <4>2. x[1] # r[1]
        BY <2>1, <3>2, <4>1, OneRunEach
      <4> QED BY <1>t, <3>1, <4>1, <4>2
    <3> QED BY <3>2 DEF RunningActive
  <2> QED BY <2>2, <2>3
<1>7. ASSUME NEW t \in Tasks, GraceElapses(t) \/ BecomesStale(t) PROVE RunningActive'
  BY <1>0, <1>7 DEF GraceElapses, BecomesStale
<1>8. CASE UNCHANGED vars
  BY <1>0, <1>8 DEF vars
<1> QED BY <1>4, <1>5, <1>6, <1>7, <1>8 DEF Next

LEMMA InitCap == Init => CapInv
<1> SUFFICES ASSUME Init PROVE CapInv
  OBVIOUS
<1> USE DEF Init
<1>1. HandedInv
  BY InitLedger DEF LedgerInv
<1>2. BodiesKnown /\ OneLivePick /\ RunningActive
  BY DEF BodiesKnown, OneLivePick, RunningActive, NoRun, Entering
<1>3. ActiveWithinCap
  <2>1. IsFiniteSet({}) /\ Cardinality({}) = 0
    BY FS_EmptySet
  <2> QED BY <2>1, QueueAssumption DEF ActiveWithinCap
<1> QED BY <1>1, <1>2, <1>3 DEF CapInv

LEMMA CapFollows == ASSUME CapInv PROVE CapUnlessReopened
<1> SUFFICES ASSUME MaxConcurrent > 0, NEW w \in Workers, \A r \in Running(w) : epochs[r[1]] = 1
             PROVE  Cardinality(Running(w)) <= MaxConcurrent
  BY DEF CapUnlessReopened
<1>1. Running(w) \subseteq active[w]
  BY DEF CapInv, RunningActive, Running
<1>2. IsFiniteSet(active[w]) /\ MaxConcurrent \in Nat /\ IsFiniteSet(Running(w))
      /\ Cardinality(Running(w)) <= Cardinality(active[w])
  BY <1>1, QueueAssumption, FS_Subset DEF CapInv, ActiveWithinCap
<1>3. Cardinality(active[w]) \in Nat /\ Cardinality(Running(w)) \in Nat
  BY <1>2, FS_CardinalityType
<1>4. Cardinality(active[w]) <= MaxConcurrent
  BY <1>2, <1>3 DEF CapInv, ActiveWithinCap
<1> QED BY <1>2, <1>3, <1>4

(***************************************************************************)
(* A worker runs at most MaxConcurrent tasks as long as none of them was   *)
(* made pending again: the poll loop's look at active_tasks, the claim     *)
(* that is answered later, the runs that end meanwhile and a restart never *)
(* add up to more (_poll_once, _run_task's finally clause).                *)
(***************************************************************************)
THEOREM CapHeld == Spec => []CapUnlessReopened
<1>1. CapInv /\ [Next]_vars => CapInv'
  BY NextHanded, BodiesStep, PicksStep, ActiveStep, RunningStep DEF CapInv
<1>2. CapInv => CapUnlessReopened
  BY CapFollows
<1> QED BY <1>1, <1>2, InitCap, PTL DEF Spec

-------------------------------------------------------------------------------
(* Slots *)

LEMMA SlotTypes ==
  ASSUME HandedInv
  PROVE  /\ active \in [Workers -> SUBSET Run] /\ run \in [Run -> RunRecord]
         /\ claims \in [Tasks -> 0..MaxEpochs]
         /\ picked \subseteq [worker : Workers, task : Tasks, live : BOOLEAN]
         /\ \A r \in Run : run[r].phase # "none" => run[r].worker \in Workers
BY DEF HandedInv, HandoutInv, TypeOK, WorkersTyped, CountsTyped, Handed

\* A slot is taken by a run that has just begun; the other runs stay as they are.
LEMMA ClaimRowSlots ==
  ASSUME HandedInv, SlotsAreFreed, NEW w \in Workers, NEW t \in Tasks,
         NEW p \in {"starting", "orphan"}, status[t] = "pending", ClaimRow(w, t, p),
         \/ active' = active
         \/ p = "starting" /\ active' = [active EXCEPT ![w] = @ \cup {<<t, claims[t] + 1>>}]
  PROVE  SlotsAreFreed'
<1> DEFINE q == <<t, claims[t] + 1>>
<1>1. q \in Run
  BY ClaimRowTyped DEF HandedInv
<1>2. run[q].phase = "none"
  BY <1>1, SlotTypes, BoundsNat DEF HandedInv, Handed
<1>3. \A r \in Run : run'[r] = IF r = q THEN Entering(w, p, "none") ELSE run[r]
  BY <1>1, SlotTypes DEF ClaimRow
<1>4. \A v \in Workers : q \notin active[v]
  BY <1>2 DEF SlotsAreFreed, Running
<1>5. ASSUME NEW v \in Workers, NEW x \in active[v] PROVE x \in Running(v)'
  BY <1>3, <1>4, <1>5 DEF SlotsAreFreed, Running
<1>6. p = "starting" => q \in Running(w)'
  BY <1>1, <1>3 DEF Running, Entering
<1>7. \A v \in Workers : active'[v] \subseteq active[v] \cup (IF p = "starting" /\ v = w THEN {q} ELSE {})
  BY SlotTypes
<1> QED BY <1>5, <1>6, <1>7 DEF SlotsAreFreed

\* A run that goes on keeps its slot; one that ends gives it back.
LEMMA AdvanceSlots ==
  ASSUME HandedInv, SlotsAreFreed, NEW r \in Run, run[r].phase \in Reporting \cup {"working"},
         NEW p \in Reporting \cup {"working", "ended"}, Advance(r, p)
  PROVE  SlotsAreFreed'
<1>1. \A x \in Run : /\ run'[x].worker = run[x].worker
                     /\ x # r => run'[x].phase = run[x].phase
                     /\ x = r => run'[x].phase = p
  BY SlotTypes DEF Advance, Entering
<1>2. \A v \in Workers : active'[v] \subseteq active[v]
  BY SlotTypes DEF Advance
<1>3. p = "ended" => \A v \in Workers : r \notin active'[v]
  <2> SUFFICES ASSUME p = "ended", NEW v \in Workers, r \in active'[v] PROVE FALSE
    OBVIOUS
  <2>1. run[r].worker = v
    BY <1>2 DEF SlotsAreFreed, Running
  <2> QED BY <2>1, SlotTypes DEF Advance
<1> QED BY <1>1, <1>2, <1>3 DEF SlotsAreFreed, Running

LEMMA SlotsStep == HandedInv /\ SlotsAreFreed /\ [Next]_vars => SlotsAreFreed'
<1> SUFFICES ASSUME HandedInv, SlotsAreFreed, [Next]_vars PROVE SlotsAreFreed'
  OBVIOUS
<1> USE DEF rowVars, clockVars, countVars, sqliteVars, workerVars, spoolVars, netVars
<1>0. ASSUME UNCHANGED <<run, active>> PROVE SlotsAreFreed'
  BY <1>0 DEF SlotsAreFreed, Running
<1>1. ASSUME NEW w \in Workers, NEW t \in Tasks, TakeUp(w, t), status[t] = "pending"
      PROVE  SlotsAreFreed'
  BY <1>1, ClaimRowSlots DEF TakeUp
<1>2. ASSUME NEW w \in Workers, NEW t \in Tasks, ClaimRow(w, t, "orphan"), active' = active,
             status[t] = "pending"
      PROVE  SlotsAreFreed'
  BY <1>2, ClaimRowSlots
<1>3. CASE OrchestratorStep
  <2>1. ASSUME NEW p \in picked, ClaimUpdate(p) PROVE SlotsAreFreed'
    BY <1>0, <1>1, <1>2, <2>1, SlotTypes DEF ClaimUpdate, NothingClaimed
  <2>2. CASE ~\E p \in picked : ClaimUpdate(p)
    BY <1>0, <1>3, <2>2 DEF OrchestratorStep, CreateTask, Resolve, ReapStale, ReapSelect, ReapUpdate,
                            ReapRows, Backfill, LateReport, UpdateTask
  <2> QED BY <2>1, <2>2
<1>4. ASSUME NEW w \in Workers, WorkerStep(w) PROVE SlotsAreFreed'
  <2>1. CASE ClaimAnswered(w)
    BY <1>0, <1>1, <2>1, NextForMayRun DEF ClaimAnswered, NothingClaimed
  <2>2. CASE GhostClaim(w)
    BY <1>0, <1>2, <2>2, NextForMayRun DEF GhostClaim
  <2>3. CASE Poll(w) \/ PollTimeout(w) \/ \E live \in BOOLEAN : ClaimSelect(w, live)
    BY <1>0, <2>3 DEF Poll, PollTimeout, ClaimSelect
  <2>4. CASE Crash(w)
    <3>1. \A r \in Run : /\ run'[r].worker = run[r].worker
                         /\ run[r].worker # w => run'[r].phase = run[r].phase
      BY <2>4, SlotTypes DEF Crash
    <3>2. /\ active'[w] = {}
          /\ \A v \in Workers \ {w} : active'[v] = active[v]
      BY <2>4, SlotTypes DEF Crash
    <3> QED BY <3>1, <3>2 DEF SlotsAreFreed, Running
  <2> QED BY <1>4, <2>1, <2>2, <2>3, <2>4 DEF WorkerStep
<1>5. ASSUME NEW r \in Run, RunStep(r) PROVE SlotsAreFreed'
  <2>1. ASSUME NEW o \in Outcome, HandlerEnds(r, o) PROVE SlotsAreFreed'
    <3>1. active' = active
      BY <2>1 DEF HandlerEnds
    <3>2. \A x \in Run : /\ run'[x].worker = run[x].worker
                         /\ run'[x].phase = run[x].phase
                            \/ run'[x].phase \in Reporting
      BY <2>1, SlotTypes DEF HandlerEnds, Entering
    <3> QED BY <3>1, <3>2 DEF SlotsAreFreed, Running
  <2>2. CASE ReportAnswered(r)
    <3>1. run[r].phase \in Reporting /\ PhaseAfter[run[r].phase] \in Reporting \cup {"working", "ended"}
      BY <2>2 DEF ReportAnswered, PhaseAfter
    <3> QED BY <2>2, <3>1, AdvanceSlots DEF ReportAnswered
  <2>3. CASE ReportUnanswered(r)
    <3>1. CASE run[r].sends < MaxSends
      <4>1. active' = active /\ run' = [run EXCEPT ![r].sends = @ + 1]
        BY <2>3, <3>1 DEF ReportUnanswered
      <4>2. \A x \in Run : run'[x].worker = run[x].worker /\ run'[x].phase = run[x].phase
        BY <4>1, SlotTypes
      <4> QED BY <4>1, <4>2 DEF SlotsAreFreed, Running
    <3>2. CASE ~(run[r].sends < MaxSends)
      BY <2>3, <3>2, AdvanceSlots DEF ReportUnanswered
    <3> QED BY <3>1, <3>2
  <2> QED BY <1>5, <2>1, <2>2, <2>3 DEF RunStep
<1>6. ASSUME NEW t \in Tasks, GraceElapses(t) \/ BecomesStale(t) PROVE SlotsAreFreed'
  BY <1>0, <1>6 DEF GraceElapses, BecomesStale
<1>7. CASE UNCHANGED vars
  BY <1>0, <1>7 DEF vars
<1> QED BY <1>3, <1>4, <1>5, <1>6, <1>7 DEF Next

(***************************************************************************)
(* No slot is leaked: whatever is lost, retried or restarted, an entry of  *)
(* active_tasks stands for a run at work (_run_task's finally clause); the *)
(* machine that is full really is.                                         *)
(***************************************************************************)
THEOREM SlotsFreed == Spec => []SlotsAreFreed
<1>1. Init => HandedInv /\ SlotsAreFreed
  BY InitLedger DEF LedgerInv, SlotsAreFreed, Init
<1>2. (HandedInv /\ SlotsAreFreed) /\ [Next]_vars => (HandedInv /\ SlotsAreFreed)'
  BY NextHanded, SlotsStep
<1> QED BY <1>1, <1>2, PTL DEF Spec

===============================================================================
