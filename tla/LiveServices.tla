----------------------------- MODULE LiveServices -----------------------------
(***************************************************************************)
(* Three parts around the queue that must come to an end: the bridge's     *)
(* session with Waha, the dispatch of a plan, and the tasks that wait for  *)
(* tasks.  They share no state; a behaviour is one of the part that its    *)
(* first state names, and the others stay as they begin.                   *)
(***************************************************************************)
EXTENDS Naturals, Sequences

CONSTANTS
  Parts,                                       \* the parts whose behaviours are looked at
  Passes, Polls, MaxWahaFaults,                \* WahaSession
  Plans, Gos, Agents, MaxDispatchFaults,       \* ScrumDispatch
  Cap, Home, Target, Names, Requests,          \* CompositeTasks
  MaxRequests, MaxRows, PlanShapes, MaxSteps, MaxRetries,
  Quiet,                                       \* the plan of a dispatch that is not looked at
  None

VARIABLES
  part,
  status, hook, number, pass, wahaFaults,
  plan, rows, go, dispatchFaults,
  queue, run, project, asked

WS == INSTANCE WahaSession WITH MaxFaults <- MaxWahaFaults, faults <- wahaFaults
SD == INSTANCE ScrumDispatch WITH MaxFaults <- MaxDispatchFaults, faults <- dispatchFaults
CT == INSTANCE CompositeTasks WITH rows <- queue

ASSUME LiveAssumption ==
  WS!WahaAssumption /\ SD!DispatchAssumption /\ CT!CompositeAssumption

------------------------------------------------------------------------------

wsVars == <<status, hook, number, pass, wahaFaults>>
sdVars == <<plan, rows, go, dispatchFaults>>
ctVars == <<queue, run, project, asked>>
vars   == <<part, wsVars, sdVars, ctVars>>

\* A part that stays as it begins has one way to begin.
Init ==
  /\ part \in Parts /\ WS!Init /\ SD!Init /\ CT!Init
  /\ part # "waha" => status = "WORKING" /\ hook
  /\ part # "dispatch" => plan = Quiet
  /\ part # "composite" => project = CT!Unknown

Waha      == part = "waha"      /\ WS!Next /\ UNCHANGED <<part, sdVars, ctVars>>
Dispatch  == part = "dispatch"  /\ SD!Next /\ UNCHANGED <<part, wsVars, ctVars>>
Composite == part = "composite" /\ CT!Next /\ UNCHANGED <<part, wsVars, sdVars>>

Next == Waha \/ Dispatch \/ Composite

Spec == Init /\ [][Next]_vars

\* The fairness of each part, of its own steps alone: those of the
\* dispatch and the composite tasks are not enabled in the states they begin in.
Fairness ==
  /\ WF_wsVars(part = "waha" /\ WS!WahaStarts) /\ \A i \in Passes : WF_wsVars(part = "waha" /\ WS!Step(i))
  /\ SD!Fairness
  /\ CT!Fairness

FairSpec == Spec /\ Fairness

------------------------------------------------------------------------------
(* The properties, as the runs name them.                                  *)

\* WahaSession: after the last failure the session works and stays so.
WahaComesBack == part = "waha" => WS!ComesBack
\* ScrumDispatch: nothing is queued for a task before the tasks it depends on are done, and
\* the code that was returned for them is integrated.
DependenciesFirst == SD!DependenciesFirst
\* ScrumDispatch: two editors work at a time only when an earlier run left one behind, one
\* was created twice, or one fell over to an agent that edits.
EditorsRaceOnlyAstray == SD!EditorsRaceOnlyAstray
\* ScrumDispatch: a dispatch comes to its end.
DispatchEnds == SD!DispatchEnds
\* CompositeTasks: a plan puts no more tasks in the queue than its circuit breaker allows.
StepsBounded == CT!StepsBounded
\* CompositeTasks: a composite task that was claimed ends.
CompositesEnd == CT!CompositesEnd
==============================================================================
