------------------------------- MODULE Services -------------------------------
(***************************************************************************)
(* Four parts around the queue, whose properties are safety properties:    *)
(* agent failover, the life of a story, the fleet's conversations and the  *)
(* LLM experiments.  They share no state; a behaviour is one of the part   *)
(* that its first state names, and the others stay as they begin.          *)
(***************************************************************************)
EXTENDS StoryLifecycle

CONSTANTS
  Parts,     \* the parts whose behaviours are looked at
  Runs, Requests, OpusCap, MaxLimits, Room, Lengths,           \* AgentFailover
  Asks, Results, Ends, Procs, Turns,                           \* FleetConversations
  Order, Repeats, Outcomes                                     \* LlmExperiment

VARIABLES
  part,
  task, attempt, cooling, chat, held, row, limits, overlapped,
  file, status, call, inside, seen, overwritten,
  env, phase, at, summary, honest, blind

AF == INSTANCE AgentFailover WITH run <- attempt
FC == INSTANCE FleetConversations
LE == INSTANCE LlmExperiment

ASSUME ServicesAssumption ==
  AF!FailoverAssumption /\ StoryAssumption /\ FC!FleetAssumption /\ LE!ExperimentAssumption

------------------------------------------------------------------------------

afVars == <<task, attempt, cooling, chat, held, row, limits, overlapped>>
fcVars == <<file, status, call, inside, seen, overwritten>>
leVars == <<env, phase, at, summary, honest, blind>>
allVars == <<part, afVars, vars, fcVars, leVars>>

AnyInit ==
  /\ part \in Parts /\ AF!Init /\ Init /\ FC!Init /\ LE!Init
  /\ part # "experiment" => env = {}

Failover   == part = "failover"   /\ AF!Next /\ UNCHANGED <<part, vars, fcVars, leVars>>
Story      == part = "story"      /\ Next /\ UNCHANGED <<part, afVars, fcVars, leVars>>
Fleet      == part = "fleet"      /\ FC!Next /\ UNCHANGED <<part, afVars, vars, leVars>>
Experiment == part = "experiment" /\ LE!Next /\ UNCHANGED <<part, afVars, vars, fcVars>>

AnyNext == Failover \/ Story \/ Fleet \/ Experiment

AnySpec == AnyInit /\ [][AnyNext]_allVars

------------------------------------------------------------------------------
(* The properties of the three other parts, as the runs name them.         *)

\* AgentFailover: sensitive or privacy-class work never reaches a non-private provider,
\* unless it was given to the social wrapper.
PrivateStaysPrivate == AF!PrivateStaysPrivate
\* AgentFailover: each agent is asked once at most, and in the order failover allows.
AskedInTurn == AF!AskedInTurn
\* AgentFailover: while each turn of a chat is sent after the last one ended, the agent that
\* answers was shown every earlier turn that a transcript of the chat has room for.
CatchesUp == AF!CatchesUp
\* AgentFailover: a prompt that carries a credential never goes to a non-private provider.
SecretsStayPrivate == AF!SecretsStayPrivate
\* FleetConversations: while no process has saved over another, a task's answer is in its
\* conversation once, and stays, unless an `ask` held a copy when it was recorded.
AnswersStand == FC!AnswersStand
\* LlmExperiment: SAFE is the verdict only when each run passed on the agent's own work,
\* or met something that the manifest of the interpreter does not cover.
SafeIsEarned == LE!SafeIsEarned
==============================================================================
