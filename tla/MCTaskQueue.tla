----------------------------- MODULE MCTaskQueue -----------------------------
(***************************************************************************)
(* Instances of TaskQueue for TLC: two machines, the primary one (mini) and *)
(* an overflow machine (pad); a task pinned by type and preferring mini by *)
(* default, and one pinned to pad.                                         *)
(***************************************************************************)
EXTENDS TaskQueue

CONSTANTS mini, pad

MCWorkers == {mini, pad}
MCCaps == [w \in MCWorkers |->
             IF w = mini THEN {"agent_run", "ios_build"} ELSE {"agent_run"}]
\* An agent task with no placement of its own, which gets the default preference.
AgentBody == [type |-> "agent_run", prio |-> 5, pin |-> None, pref |-> None]
\* The same, pinned to the overflow machine and more urgent.
PinnedBody == [type |-> "agent_run", prio |-> 8, pin |-> pad, pref |-> None]
\* A build only one machine has the capability for.
BuildBody == [type |-> "ios_build", prio |-> 5, pin |-> None, pref |-> None]
MCPrefer == {"agent_run"}
MCBodies == {AgentBody, PinnedBody}
JustAgent == {AgentBody}
\* The overflow machine keeps polling; the primary one may stop for ever.
OnlyPad == {pad}
===============================================================================
