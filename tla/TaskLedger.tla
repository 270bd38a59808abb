------------------------------ MODULE TaskLedger ------------------------------
(***************************************************************************)
(* What the shared task queue promises, whatever backend keeps the rows    *)
(* and whatever the workers and the network do: a task row is created      *)
(* pending, is handed to at most one worker each time it becomes pending,  *)
(* and only to a machine that may run it.  Only the owner makes a task     *)
(* pending again.  After a hand-out the row's status is whatever was       *)
(* reported last: the queue does not guard reports.                        *)
(***************************************************************************)
EXTENDS Naturals

CONSTANTS
  Tasks,      \* task ids, numbered in the order of their creation
  Workers,    \* worker machines
  None,       \* no machine: an unset _target_machine or _preferred_machine
  Caps,       \* Caps[w]: the task types machine w can handle
  Bodies,     \* the task bodies a client may submit
  MaxEpochs   \* bound: how often one task may become pending

VARIABLES
  status,     \* status[t]: the row's status; "absent" before it is created
  body,       \* body[t]: type, priority and placement of the task
  assigned,   \* assigned[t]: assigned_to, the last worker that claimed it
  epochs,     \* epochs[t]: how often t has become pending
  claims      \* claims[t]: how often t has been handed to a worker

ledgerVars == <<status, body, assigned, epochs, claims>>

Held == {"claimed", "in_progress"}
Terminal == {"done", "failed", "needs_human"}
Status == {"absent", "pending"} \cup Held \cup Terminal

\* The placement no waiting can overrule: the capability and the hard pin.
MayRun(w, b) == b.type \in Caps[w] /\ b.pin \in {None, w}

Init ==
  /\ status = [t \in Tasks |-> "absent"]
  /\ body = [t \in Tasks |-> None]
  /\ assigned = [t \in Tasks |-> None]
  /\ epochs = [t \in Tasks |-> 0]
  /\ claims = [t \in Tasks |-> 0]

Create(t, b) ==
  /\ status[t] = "absent"
  /\ status' = [status EXCEPT ![t] = "pending"]
  /\ body' = [body EXCEPT ![t] = b]
  /\ epochs' = [epochs EXCEPT ![t] = 1]
  /\ UNCHANGED <<assigned, claims>>

HandOut(t, w) ==
  /\ status[t] = "pending"
  /\ MayRun(w, body[t])
  /\ status' = [status EXCEPT ![t] = "claimed"]
  /\ assigned' = [assigned EXCEPT ![t] = w]
  /\ claims' = [claims EXCEPT ![t] = @ + 1]
  /\ UNCHANGED <<body, epochs>>

\* A worker that was once handed the task reports, perhaps very late.
Report(t, s) ==
  /\ claims[t] > 0
  /\ status' = [status EXCEPT ![t] = s]
  /\ UNCHANGED <<body, assigned, epochs, claims>>

Reap(S) ==
  /\ \A t \in S : status[t] \in Held
  /\ status' = [t \in Tasks |-> IF t \in S THEN "needs_human" ELSE status[t]]
  /\ UNCHANGED <<body, assigned, epochs, claims>>

\* The owner sets a status; making a task pending again opens a new epoch.
Resolve(t, s) ==
  /\ status[t] # "absent"
  /\ status' = [status EXCEPT ![t] = s]
  /\ epochs' = [epochs EXCEPT ![t] =
                  IF s = "pending" /\ status[t] # "pending" THEN @ + 1 ELSE @]
  /\ epochs'[t] <= MaxEpochs
  /\ UNCHANGED <<body, assigned, claims>>

Next ==
  \/ \E t \in Tasks, b \in Bodies : Create(t, b)
  \/ \E t \in Tasks, w \in Workers : HandOut(t, w)
  \/ \E t \in Tasks, s \in Terminal \cup {"in_progress"} : Report(t, s)
  \/ \E S \in SUBSET Tasks : Reap(S)
  \/ \E t \in Tasks, s \in {"done", "failed", "pending"} : Resolve(t, s)

Spec == Init /\ [][Next]_ledgerVars

(***************************************************************************)
(* No task is ever claimed twice: the queue never hands a task out more    *)
(* often than it became pending (docs/ARCHITECTURE.md section 6; the       *)
(* status guard of claim_next_task).                                       *)
(***************************************************************************)
OneHandoutPerEpoch ==
  \A t \in Tasks :
    /\ claims[t] <= epochs[t]
    /\ status[t] = "pending" => claims[t] < epochs[t]
===============================================================================
