------------------------------ MODULE WahaSession ------------------------------
(***************************************************************************)
(* The bridge's watchdog over its WhatsApp session (_ensure_waha_config in *)
(* services/whatsapp-bridge): a pass reads the session, starts it when it  *)
(* is down, learns the owner's number and sets the webhook.  A pass is run *)
(* at start, by the poll loop, and by a webhook while the number is not    *)
(* known, so two may interleave.  Waha is external.                        *)
(***************************************************************************)
EXTENDS Naturals, FiniteSets

CONSTANTS
  Passes,     \* passes that may be under way at once
  Polls,      \* WAHA_START_POLLS
  MaxFaults   \* bound: restarts, failed starts, lost settings, failed requests

WahaAssumption == Polls \in Nat \ {0} /\ MaxFaults \in Nat

VARIABLES
  status,   \* the session's status in Waha
  hook,     \* the session's settings name the bridge's webhook
  number,   \* the bridge knows the owner's number
  pass,     \* pass[i]: [pc, seen, hook, polls]; seen and hook as last read
  faults

vars == <<status, hook, number, pass, faults>>

Down == {"STOPPED", "FAILED"}
Idle == [pc |-> "idle", seen |-> "STOPPED", hook |-> FALSE, polls |-> 0]

Init ==
  /\ status \in Down \cup {"WORKING"} /\ hook \in BOOLEAN /\ number = FALSE
  /\ pass = [i \in Passes |-> Idle] /\ faults = 0

Fault == faults < MaxFaults /\ faults' = faults + 1

------------------------------------------------------------------------------
(* Waha.  A session that works knows its owner's number.                   *)

WahaStarts ==
  /\ status = "STARTING"
  /\ \/ status' = "WORKING" /\ UNCHANGED faults
     \/ status' = "FAILED" /\ Fault
  /\ UNCHANGED <<hook, number, pass>>

\* A restart of Waha does not start its sessions; its files may be gone.
WahaFails ==
  /\ Fault /\ status' \in Down /\ hook' \in {hook, FALSE}
  /\ UNCHANGED <<number, pass>>

\* The bridge restarts, and its passes with it.
BridgeRestarts ==
  /\ Fault /\ number' = FALSE /\ pass' = [i \in Passes |-> Idle]
  /\ UNCHANGED <<status, hook>>

------------------------------------------------------------------------------
(* A pass.  Each request may fail.                                         *)

Goto(i, pc) == pass' = [pass EXCEPT ![i].pc = pc]

Read(i, pc, polls) == pass' = [pass EXCEPT ![i] = [pc |-> pc, seen |-> status, hook |-> hook, polls |-> polls]]

\* The poll loop's pass comes again and again; a message begins another one
\* while the number is unknown.  A session that cannot be read ends it.
Begin(i) ==
  /\ pass[i].pc = "idle"
  /\ (\A j \in Passes : pass[j].pc = "idle") \/ ~number
  /\ Read(i, CASE status = "FAILED" -> "stop" [] status = "STOPPED" -> "start" [] OTHER -> "learn", 0)
  /\ UNCHANGED <<status, hook, number, faults>>

\* Mutant: a failed session is started as it is.
StopNothing(i) ==
  /\ pass[i].pc = "stop" /\ Goto(i, "start")
  /\ UNCHANGED <<status, hook, number, faults>>

\* A failed session answers /start with "already running": stop it first.
Stop(i) ==
  /\ pass[i].pc = "stop" /\ Goto(i, "start") /\ status' = "STOPPED"
  /\ UNCHANGED <<hook, number, faults>>

Start(i) ==
  /\ pass[i].pc = "start" /\ Goto(i, "poll")
  /\ status' = IF status = "STOPPED" THEN "STARTING" ELSE status
  /\ UNCHANGED <<hook, number, faults>>

\* The session is read until it has left STARTING, or often enough.
Poll(i) ==
  /\ pass[i].pc = "poll"
  /\ Read(i, IF status = "STARTING" /\ pass[i].polls + 1 < Polls THEN "poll" ELSE "learn", pass[i].polls + 1)
  /\ UNCHANGED <<status, hook, number, faults>>

\* A number is learned from a session that works, and never unlearned; the
\* webhook is set when the session, as read, lacked it.
Learn(i) ==
  /\ pass[i].pc = "learn"
  /\ number' = (number \/ pass[i].seen = "WORKING")
  /\ Goto(i, IF pass[i].hook THEN "idle" ELSE "put")
  /\ UNCHANGED <<status, hook, faults>>

Put(i) ==
  /\ pass[i].pc = "put" /\ hook' = TRUE /\ Goto(i, "idle")
  /\ UNCHANGED <<status, number, faults>>

\* A failed restart goes on with what was read; a failed PUT is the end.
RequestFails(i) ==
  /\ Fault
  /\ \/ pass[i].pc \in {"stop", "start", "poll"} /\ Goto(i, "learn")
     \/ pass[i].pc = "put" /\ Goto(i, "idle")
  /\ UNCHANGED <<status, hook, number>>

Step(i) == Begin(i) \/ Stop(i) \/ Start(i) \/ Poll(i) \/ Learn(i) \/ Put(i)

Next ==
  \/ WahaStarts \/ WahaFails \/ BridgeRestarts
  \/ \E i \in Passes : Step(i) \/ RequestFails(i)

Spec == Init /\ [][Next]_vars

\* The poll loop and the coroutines go on; Waha ends a start one way or the other.
FairSpec == Spec /\ WF_vars(WahaStarts) /\ \A i \in Passes : WF_vars(Step(i))

------------------------------------------------------------------------------
(* Properties.                                                             *)

\* After the last failure the session works, calls the bridge, and the bridge
\* knows whose chat it serves, and all that stays.
ComesBack == <>[](status = "WORKING" /\ hook /\ number)
==============================================================================
