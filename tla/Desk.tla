-------------------------------- MODULE Desk --------------------------------
(***************************************************************************)
(* The desk as a whole: the store of DeskStore, the desk workers that      *)
(* claim and run commands (scripts/desk_worker.py), and the owner's        *)
(* terminals that show and consume responses (shared/scrum_responses.py).  *)
(*                                                                         *)
(* A caller gives an unanswered call up (a timeout or a 5xx) at any time;  *)
(* the call may then still execute, or never.                              *)
(***************************************************************************)
EXTENDS DeskStore

CONSTANTS
  Workers,      \* desk worker processes on the machine
  Owners,       \* terminals of the owner (dis-agent)
  NamedKinds,   \* kinds of the rows the owner names in a consume-by-id
  Checks,       \* the command texts whose verb is validate
  Accepted,     \* whether decision D-006 reads as accepted (d006_accepted)
  MaxFaults     \* bound: calls given up and workers that die, in all

ASSUME DeskAssumption ==
  /\ Callers = Workers \cup Owners
  /\ Workers \cap Owners = {}
  /\ None \notin Workers
  /\ Accepted \in BOOLEAN
  /\ MaxFaults \in Nat

VARIABLES
  pc,        \* pc[w]: where worker w is
  todo,      \* todo[w]: rows of a list it has yet to go through
  seen,      \* seen[w]: rows on_start has already marked; empty when it is over
  cmd,       \* cmd[w]: the command it handles; 0 for none
  lock,      \* the holder of desk_worker.lock
  ran,       \* how often a command's verb was started
  outcome,   \* how that ended: "ok", "error", "unmet" for a validate that found
             \* the story wanting, or "none" when it did not
  showing,   \* showing[o]: responses terminal o has shown and not yet consumed
  shown,     \* responses shown on some terminal
  lost,      \* commands whose claim or result a worker gave up waiting for
  faults     \* calls given up and crashes so far (for the bound)

workVars == <<pc, todo, seen, cmd, lock>>
runVars == <<ran, outcome>>
ownerVars == <<showing, shown>>
faultVars == <<lost, faults>>
vars == <<storeVars, workVars, runVars, ownerVars, faultVars>>

\* The verbs of the allowlist differ only in how they end (run_command).
IsCheck(i) == row[i].intent.text \in Checks
Ending == {"ok", "unmet", "error"}

Row == 1..Cardinality(Requests)
Least(S) == {i \in S : \A j \in S : i <= j}
CommandsIn(s) == {i \in Ids : IsCommand(i) /\ row[i].status = s}
Pending == {i \in Ids : row[i].status = "recorded"}
CallsOf(p) == {c \in calls : c.by = p /\ c.live}
Fault == faults < MaxFaults /\ faults' = faults + 1

\* Program p sends a call; only calls changes in the store.
Send(p, i, op) ==
  /\ calls' = calls \cup {NewCall(p, i, op)}
  /\ UNCHANGED <<rowVars, pauseVars, now, req>>

\* p has the answer to its call.
Hear(p, c) ==
  /\ c \in CallsOf(p) /\ c.step \in FinalStep
  /\ calls' = calls \ {c}
  /\ UNCHANGED <<rowVars, pauseVars, now, req>>

\* p stops waiting; the rest of the call may still execute, or never will.
GiveUp(p) ==
  /\ \/ calls' = calls \ CallsOf(p)
     \/ calls' = (calls \ CallsOf(p)) \cup
                   {[c EXCEPT !.live = FALSE] : c \in {x \in CallsOf(p) : x.step \notin FinalStep}}
  /\ UNCHANGED <<rowVars, pauseVars, now, req>>

At(w, here, there) == pc[w] = here /\ pc' = [pc EXCEPT ![w] = there]

-------------------------------------------------------------------------------
(* on_start *)

\* Mutant of Start: the rows a crash left behind are not looked for.
StartUnswept(w) ==
  /\ At(w, "down", "idle")
  /\ lock = None
  /\ UNCHANGED <<storeVars, todo, seen, cmd, lock, runVars, ownerVars, faultVars>>

\* A worker starts; with the lock held it refuses to (sys.exit).
Start(w) ==
  /\ At(w, "down", "listing")
  /\ lock = None /\ lock' = w
  /\ UNCHANGED <<storeVars, todo, seen, cmd, runVars, ownerVars, faultVars>>

\* The running rows not marked yet; none is left: on_start is through.
ListRunning(w) ==
  LET rows == CommandsIn("running") \ seen[w] IN
  /\ At(w, "listing", IF rows = {} THEN "idle" ELSE "sweeping")
  /\ todo' = [todo EXCEPT ![w] = rows]
  /\ lock' = IF rows = {} THEN None ELSE lock
  /\ seen' = IF rows = {} THEN [seen EXCEPT ![w] = {}] ELSE seen
  /\ UNCHANGED <<storeVars, cmd, runVars, ownerVars, faultVars>>

MarkFailed(w) ==
  /\ At(w, "sweeping", "marking")
  /\ \E i \in Least(todo[w]) : Send(w, i, "failed")
  /\ UNCHANGED <<todo, seen, cmd, lock, runVars, ownerVars, faultVars>>

\* Marked: on to the next one.  A 409 (ApiError) ends on_start, to be retried.
Marked(w, c) ==
  LET rest == todo[w] \ {c.id} IN
  /\ Hear(w, c)
  /\ At(w, "marking",
        IF c.step # "ok" THEN "down" ELSE IF rest = {} THEN "listing" ELSE "sweeping")
  /\ todo' = [todo EXCEPT ![w] = IF c.step = "ok" THEN rest ELSE {}]
  /\ seen' = [seen EXCEPT ![w] = IF c.step = "ok" THEN @ \cup {c.id} ELSE {}]
  /\ lock' = IF c.step = "ok" THEN lock ELSE None
  /\ UNCHANGED <<cmd, runVars, ownerVars, faultVars>>

-------------------------------------------------------------------------------
(* tick *)

\* Mutant of Tick: it waits for a row that is still running.
TickAlone(w) ==
  /\ Accepted /\ lock = None /\ CommandsIn("running") = {}
  /\ At(w, "idle", "scanning")
  /\ todo' = [todo EXCEPT ![w] = CommandsIn("queued")]
  /\ UNCHANGED <<storeVars, seen, cmd, lock, runVars, ownerVars, faultVars>>

\* The queued commands, listed only when nobody holds the lock.
Tick(w) ==
  /\ Accepted /\ lock = None
  /\ At(w, "idle", "scanning")
  /\ todo' = [todo EXCEPT ![w] = CommandsIn("queued")]
  /\ UNCHANGED <<storeVars, seen, cmd, lock, runVars, ownerVars, faultVars>>

Claim(w) ==
  /\ \E i \in Least(todo[w]) : Send(w, i, "consume")
  /\ At(w, "scanning", "claiming")
  /\ UNCHANGED <<todo, seen, cmd, lock, runVars, ownerVars, faultVars>>

ScanEnds(w) ==
  /\ todo[w] = {}
  /\ At(w, "scanning", "idle")
  /\ UNCHANGED <<storeVars, todo, seen, cmd, lock, runVars, ownerVars, faultVars>>

\* Mutant of Claimed: a 409 is taken for a claim of its own.
ClaimedAnyway(w, c) ==
  /\ Hear(w, c)
  /\ At(w, "claiming", IF c.step # "paused" THEN "claimed" ELSE "idle")
  /\ todo' = [todo EXCEPT ![w] = {}]
  /\ cmd' = [cmd EXCEPT ![w] = IF c.step # "paused" THEN c.id ELSE 0]
  /\ UNCHANGED <<seen, lock, runVars, ownerVars, faultVars>>

\* Claimed: run it.  Taken by another (409): scan on.  Paused (423): stop.
Claimed(w, c) ==
  /\ Hear(w, c)
  /\ At(w, "claiming",
        CASE c.step = "ok" -> "claimed" [] c.step = "refused" -> "scanning" [] OTHER -> "idle")
  /\ todo' = [todo EXCEPT ![w] = IF c.step = "refused" THEN @ \ {c.id} ELSE {}]
  /\ cmd' = [cmd EXCEPT ![w] = IF c.step = "ok" THEN c.id ELSE 0]
  /\ UNCHANGED <<seen, lock, runVars, ownerVars, faultVars>>

\* Mutant of Begin: the command runs without the worker lock.
BeginUnlocked(w) ==
  /\ At(w, "claimed", "running")
  /\ ran' = [ran EXCEPT ![cmd[w]] = @ + 1]
  /\ UNCHANGED <<storeVars, todo, seen, cmd, lock, outcome, ownerVars, faultVars>>

\* run_command takes the worker lock ...
Begin(w) ==
  /\ At(w, "claimed", "running")
  /\ lock = None /\ lock' = w
  /\ ran' = [ran EXCEPT ![cmd[w]] = @ + 1]
  /\ UNCHANGED <<storeVars, todo, seen, cmd, outcome, ownerVars, faultVars>>

\* ... or reports "busy" when another command holds it.
Busy(w) ==
  /\ lock # None
  /\ At(w, "claimed", "reporting")
  /\ Send(w, cmd[w], "failed")
  /\ UNCHANGED <<todo, seen, cmd, lock, runVars, ownerVars, faultVars>>

\* Mutant of End: the exit status of no verb is looked at.
EndDone(w, how) ==
  /\ At(w, "running", "reporting")
  /\ how = "unmet" => IsCheck(cmd[w])
  /\ outcome' = [outcome EXCEPT ![cmd[w]] = how]
  /\ lock' = None
  /\ Send(w, cmd[w], "done")
  /\ UNCHANGED <<todo, seen, cmd, ran, ownerVars, faultVars>>

\* The verb ends, or is refused under the lock (CommandError): report it.  Only
\* validate returns, with ok: False, when its script exits with an error.
End(w, how) ==
  /\ At(w, "running", "reporting")
  /\ how = "unmet" => IsCheck(cmd[w])
  /\ outcome' = [outcome EXCEPT ![cmd[w]] = how]
  /\ lock' = None
  /\ Send(w, cmd[w], IF how = "error" THEN "failed" ELSE "done")
  /\ UNCHANGED <<todo, seen, cmd, ran, ownerVars, faultVars>>

\* Reported, or refused: either way the tick is over.
Reported(w, c) ==
  /\ Hear(w, c)
  /\ At(w, "reporting", "idle")
  /\ cmd' = [cmd EXCEPT ![w] = 0]
  /\ UNCHANGED <<todo, seen, lock, runVars, ownerVars, faultVars>>

-------------------------------------------------------------------------------
(* Calls given up, and crashes *)

\* OrchestratorUnreachable: main backs off; on_start is retried, a tick is over.
Unreachable(w) ==
  /\ pc[w] \in {"listing", "marking", "claiming", "reporting"}
  /\ Fault
  /\ GiveUp(w)
  /\ pc' = [pc EXCEPT ![w] = IF @ \in {"listing", "marking"} THEN "down" ELSE "idle"]
  /\ lock' = IF lock = w THEN None ELSE lock
  /\ todo' = [todo EXCEPT ![w] = {}]
  /\ cmd' = [cmd EXCEPT ![w] = 0]
  /\ lost' = lost \cup (IF pc[w] = "marking" THEN {} ELSE {c.id : c \in CallsOf(w)})
  /\ seen' = [seen EXCEPT ![w] = {}]
  /\ UNCHANGED <<runVars, ownerVars>>

\* The worker dies; launchd starts it again.  The kernel drops its lock.
Crash(w) ==
  /\ pc[w] # "down"
  /\ Fault
  /\ GiveUp(w)
  /\ pc' = [pc EXCEPT ![w] = "down"]
  /\ lock' = IF lock = w THEN None ELSE lock
  /\ todo' = [todo EXCEPT ![w] = {}]
  /\ cmd' = [cmd EXCEPT ![w] = 0]
  /\ lost' = lost \cup (IF pc[w] = "claiming" THEN {c.id : c \in CallsOf(w)} ELSE {})
  /\ seen' = [seen EXCEPT ![w] = {}]
  /\ UNCHANGED <<runVars, ownerVars>>

-------------------------------------------------------------------------------
(* The owner's terminals *)

\* Mutant of Show: consume what is listed and print it afterwards.
ShowAfter(o) ==
  /\ showing[o] = {} /\ CallsOf(o) = {} /\ Pending # {}
  /\ \E full \in SUBSET Pending : showing' = [showing EXCEPT ![o] = full]
  /\ shown' = shown
  /\ UNCHANGED <<storeVars, workVars, runVars, faultVars>>

\* show_and_consume prints every pending response; those printed in full are to
\* be consumed, and none when nobody reads the output (may_consume) ...
Show(o) ==
  /\ showing[o] = {} /\ CallsOf(o) = {} /\ Pending # {}
  /\ \E full \in SUBSET Pending : showing' = [showing EXCEPT ![o] = full]
  /\ shown' = shown \cup Pending
  /\ UNCHANGED <<storeVars, workVars, runVars, faultVars>>

\* ... and then consumes exactly these, one after the other.
ConsumeShown(o) ==
  /\ CallsOf(o) = {}
  /\ \E i \in Least(showing[o]) : /\ Send(o, i, "consume")
                                  /\ showing' = [showing EXCEPT ![o] = @ \ {i}]
  /\ UNCHANGED <<shown, workVars, runVars, faultVars>>

\* consume_one prints the row if it is pending and consumes it in any case.
ConsumeOne(o, i) ==
  /\ showing[o] = {} /\ CallsOf(o) = {}
  /\ row[i].intent.kind \in NamedKinds
  /\ shown' = IF i \in Pending THEN shown \cup {i} ELSE shown
  /\ Send(o, i, "consume")
  /\ UNCHANGED <<showing, workVars, runVars, faultVars>>

\* The answer changes nothing but a message; neither does the lack of one.
OwnerHears(o, c) ==
  /\ Hear(o, c)
  /\ UNCHANGED <<workVars, runVars, ownerVars, faultVars>>

\* A call fails, and the next row's turn comes; or the terminal is closed.
OwnerUnanswered(o) ==
  /\ CallsOf(o) # {} \/ showing[o] # {}
  /\ Fault
  /\ GiveUp(o)
  /\ showing' \in {showing, [showing EXCEPT ![o] = {}]}
  /\ UNCHANGED <<shown, workVars, runVars, lost>>

-------------------------------------------------------------------------------
Init ==
  /\ InitStore
  /\ pc = [w \in Workers |-> "down"]
  /\ todo = [w \in Workers |-> {}]
  /\ seen = [w \in Workers |-> {}]
  /\ cmd = [w \in Workers |-> 0]
  /\ lock = None
  /\ ran = [i \in Row |-> 0]
  /\ outcome = [i \in Row |-> "none"]
  /\ showing = [o \in Owners |-> {}]
  /\ shown = {} /\ lost = {} /\ faults = 0

WorkerStep(w) ==
  \/ Start(w) \/ ListRunning(w) \/ MarkFailed(w)
  \/ Tick(w) \/ Claim(w) \/ ScanEnds(w) \/ Begin(w) \/ Busy(w)
  \/ \E how \in Ending : End(w, how)
  \/ \E c \in CallsOf(w) : Marked(w, c) \/ Claimed(w, c) \/ Reported(w, c)

OwnerStep(o) ==
  \/ Show(o) \/ ConsumeShown(o) \/ OwnerUnanswered(o)
  \/ \E i \in Ids : ConsumeOne(o, i)
  \/ \E c \in CallsOf(o) : OwnerHears(o, c)

StoreStep == NextStore /\ UNCHANGED <<workVars, runVars, ownerVars, faultVars>>

Next ==
  \/ StoreStep
  \/ \E w \in Workers : WorkerStep(w) \/ Unreachable(w) \/ Crash(w)
  \/ \E o \in Owners : OwnerStep(o)

Spec == Init /\ [][Next]_vars

\* A worker keeps going and launchd restarts it; a call somebody waits for is
\* answered unless it is given up, which happens MaxFaults times at most.
FairSpec ==
  /\ Spec
  /\ \A w \in Workers :
       /\ WF_vars(WorkerStep(w))
       /\ WF_vars(StoreStep /\ \E c \in CallsOf(w) : CallStep(c))

-------------------------------------------------------------------------------
(* Properties *)

WorkerPc == {"down", "listing", "sweeping", "marking", "idle", "scanning", "claiming",
             "claimed", "running", "reporting"}

TypeOK ==
  /\ StoreTyped
  /\ pc \in [Workers -> WorkerPc]
  /\ todo \in [Workers -> SUBSET Row] /\ seen \in [Workers -> SUBSET Row]
  /\ cmd \in [Workers -> {0} \cup Row]
  /\ lock \in Workers \cup {None}
  /\ ran \in [Row -> Nat]
  /\ outcome \in [Row -> {"none"} \cup Ending]
  /\ showing \in [Owners -> SUBSET Row]
  /\ shown \subseteq Row /\ lost \subseteq Row
  /\ faults \in 0..MaxFaults

(***************************************************************************)
(* A command is run at most once, whatever is lost, restarted or retried:  *)
(* its verb was started at most once, and never for a row that is still    *)
(* queued (claim, on_start).                                               *)
(***************************************************************************)
RunOnce ==
  \A i \in Row :
    /\ ran[i] <= 1
    /\ ran[i] > 0 => row[i].status \in {"running", "done", "failed"}

(***************************************************************************)
(* "runs them one at a time" (desk_worker.py): no two commands run at the  *)
(* same time, also when a second worker was started (worker_lock).         *)
(***************************************************************************)
OneAtATime ==
  \A v, w \in Workers : pc[v] = "running" /\ pc[w] = "running" => v = w

(***************************************************************************)
(* A row that says done is a command whose verb came to its end without an *)
(* error, and only of a validate may it mean that the story did not pass:  *)
(* an error is never reported as a success, by whichever late call.        *)
(***************************************************************************)
DoneMeansDone ==
  \A i \in Ids : row[i].status = "done" =>
    outcome[i] = "ok" \/ (outcome[i] = "unmet" /\ IsCheck(i))

(***************************************************************************)
(* Delivery is at least once: a response stops being pending only after it *)
(* was shown to the owner (show_and_consume, consume_one).                 *)
(***************************************************************************)
ConsumedWasShown ==
  \A i \in Ids : row[i].status = "consumed" => i \in shown

(***************************************************************************)
(* "An id that is not pending ... answers 409 already consumed, or 404"    *)
(* (consume_one): the owner's consume never takes a command, which only a  *)
(* desk worker would then run.                                             *)
(***************************************************************************)
OwnerTakesNoCommand ==
  \A i \in Ids : IsCommand(i) => row[i].by \notin Owners

(***************************************************************************)
(* A command that was claimed ends done or failed, also when its worker    *)
(* dies (on_start), unless a worker gave up waiting for the answer to its  *)
(* claim or to its result.                                                 *)
(***************************************************************************)
CommandEnds ==
  \A i \in Row :
    (i \in CommandsIn("running")) ~> (i \notin CommandsIn("running") \/ i \in lost)

(***************************************************************************)
(* A queued command is claimed, or the desk is paused: rows stuck in       *)
(* running, lost claim races and crashes do not stop the queue.            *)
(***************************************************************************)
QueuedIsClaimed ==
  \A i \in Row :
    (i \in CommandsIn("queued")) ~> (i \notin CommandsIn("queued") \/ paused)
===============================================================================
