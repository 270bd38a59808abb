---------------------------- MODULE AgentFailover ----------------------------
(***************************************************************************)
(* Who answers a prompt: the role policy the orchestrator applies when a   *)
(* task is queued (agents/roles.py, _apply_role in orchestrator/main.py),  *)
(* the router (agents/router.py with config/routing.yaml), and the run on  *)
(* a worker that fails over from agent to agent (agents/runner.py,         *)
(* agents/failover.py).  Runs of one machine share its cooldown file; they *)
(* interleave where the code awaits an agent.  An agent is external: what  *)
(* the adapters make of its exit, its output and its wording is a reason.  *)
(*                                                                         *)
(* A wrapper agent, content or social, makes a request of its own with     *)
(* what it was given, its prompt and its model: what the caller said of    *)
(* sensitivity, of agents to leave out or of Opus is not passed on.  The   *)
(* chain around a wrapper has one entry, so a cooldown of the wrapper      *)
(* itself changes nothing.                                                 *)
(***************************************************************************)
EXTENDS Naturals, FiniteSets, Sequences, Functions

CONSTANTS
  Runs,       \* 1..n: tasks, each run at most once
  Requests,   \* Requests[r]: what the r-th caller may ask for
  OpusCap,    \* monthly_cost_cap_usd, an Opus attempt costing one unit
  MaxLimits,  \* bound: answers of an agent that report a limit or an outage
  Room,       \* MAX_HISTORY_CHARS, in units of text
  Lengths,    \* the lengths of a turn of a conversation, in the same units
  None

VARIABLES
  task,      \* task[r]: the payload that was queued, or None
  run,       \* run[r]: the progress of run_agent
  cooling,   \* the agents whose cooldown in the file has not expired
  chat,      \* the one conversation: turns so far and the session id
  held,      \* held[s]: the turns that claude's session s has seen
  row,       \* row[r]: the model and the Opus cost recorded for the task
  limits,    \* limits and outages reported so far
  overlapped \* history: a turn of the conversation was sent before the last one ended

vars == <<task, run, cooling, chat, held, row, limits, overlapped>>

------------------------------------------------------------------------------
(* Policy: config/routing.yaml and config/roles.yaml.                      *)

Agents == {"claude", "codex", "agy", "deepseek"}
NonPrivate == {"deepseek"}
Resumable == {"claude"}
Wrappers == {"content", "social"}
PrivacyFallback == <<"claude", "sonnet">>

Primary ==
  [privacy |-> <<"claude", "sonnet">>, coding |-> <<"claude", "sonnet">>,
   planning |-> <<"claude", "sonnet">>, review |-> <<"claude", "sonnet">>,
   verify |-> <<"codex", "">>, research |-> <<"agy", "">>,
   reasoning |-> <<"deepseek", "reasoner">>, bulk |-> <<"deepseek", "chat">>,
   mechanical |-> <<"claude", "haiku">>, default |-> <<"claude", "sonnet">>]

\* Codex and agy run with their own default model.
Fallbacks ==
  LET codex == <<"codex", "">>  agy == <<"agy", "">>  sonnet == <<"claude", "sonnet">>
      chat_ == <<"deepseek", "chat">>
  IN [privacy |-> <<codex, agy>>, coding |-> <<agy, codex>>,
      planning |-> <<codex, agy>>, review |-> <<codex, agy>>,
      verify |-> <<sonnet, agy>>,
      research |-> <<<<"deepseek", "reasoner">>, sonnet, codex>>,
      reasoning |-> <<sonnet, codex, agy>>,
      bulk |-> <<<<"claude", "haiku">>, codex, agy>>,
      mechanical |-> <<chat_, codex, agy>>, default |-> <<codex, agy, chat_>>]

Role ==
  [product_owner |-> <<"claude", "opus">>, scrum_master |-> <<"claude", "sonnet">>,
   dev_backend |-> <<"deepseek", "chat">>, analyst |-> <<"agy", "">>,
   reviewer |-> <<"codex", "">>]

\* A request: role, agent, model, kind (a class) or None, and what is known
\* of the prompt: marked sensitive, of a project on the deepseek list, with a
\* credential in it.  plain has none of it.
plain == [role |-> None, agent |-> None, model |-> None, kind |-> None,
          sensitive |-> FALSE, listed |-> TRUE, secret |-> FALSE,
          exclude |-> {}, failover |-> TRUE, conv |-> FALSE]

Models == {"opus", "sonnet", "haiku", "chat", "reasoner", ""}

\* A conversation is opened with a resumable agent, and its turns name nothing else.
FailoverAssumption ==
  /\ OpusCap \in Nat \ {0} /\ MaxLimits \in Nat
  /\ IsFiniteSet(Runs) /\ Runs \subseteq Nat
  /\ Room \in Nat /\ Lengths \subseteq Nat
  /\ None \notin Agents \cup Wrappers \cup DOMAIN Primary
  /\ None \notin Runs \cup {r + Cardinality(Runs) : r \in Runs}
  /\ \A r \in Runs : \A q \in Requests[r] :
       /\ q \in [role : DOMAIN Role \cup {None}, agent : Agents \cup Wrappers \cup {None},
                 model : Models \cup {None}, kind : DOMAIN Primary \cup {None},
                 sensitive : BOOLEAN, listed : BOOLEAN, secret : BOOLEAN,
                 exclude : SUBSET Agents, failover : BOOLEAN, conv : BOOLEAN]
       /\ q.conv => q \in {[plain EXCEPT !.agent = a, !.conv = TRUE] : a \in Resumable}

------------------------------------------------------------------------------
(* The orchestrator queues a task.                                         *)

Or(x, y) == IF x = None THEN y ELSE x

\* A model that is named: an empty name counts as none.
Named(model) == IF model = "" THEN None ELSE model

\* _month_opus_cost: of the rows whose recorded model is Opus.
MonthOpusCost ==
  FoldFunctionOnSet(LAMBDA x, n : x.cost + n, 0, row,
                    {r \in Runs : row[r] # None /\ row[r].model = "opus"})

\* resolve: the role's agent and model, with both guards.
Resolve(q) ==
  LET r == Role[q.role]
  IN IF r[1] = "deepseek" /\ (q.sensitive \/ q.secret \/ ~q.listed)
     THEN [by |-> PrivacyFallback, grant |-> FALSE]
     ELSE IF r[2] # "opus" THEN [by |-> r, grant |-> FALSE]
     ELSE IF MonthOpusCost >= OpusCap THEN [by |-> <<"claude", "sonnet">>, grant |-> FALSE]
     ELSE [by |-> r, grant |-> TRUE]

\* _apply_role: an agent the caller named wins over the role's.
ApplyRole(q) ==
  IF q.role = None THEN [q |-> q, grant |-> FALSE]
  ELSE LET s == Resolve(q)
           p == IF q.agent # None THEN q
                ELSE [q EXCEPT !.agent = s.by[1], !.model = Or(Named(@), s.by[2])]
       IN [q |-> p, grant |-> s.grant /\ p.model = "opus"]

\* A turn of the conversation that has not ended.
TurnIsOut == \E s \in Runs : task[s] # None /\ task[s].q.conv /\ run[s].end \in {"new", "running"}

\* The conversation is kept with the place in its text where each turn begins
\* and ends.
Length(hist) == IF hist = <<>> THEN 0 ELSE hist[Len(hist)].upto

NextTurn(hist, role, by, r, n) ==
  [role |-> role, by |-> by, of |-> r, from |-> Length(hist), upto |-> Length(hist) + n]

\* A turn of the conversation carries its history and its session; the first
\* one opens the session.
Queue(r, q) ==
  /\ task[r] = None /\ \A s \in Runs : s < r => task[s] # None
  /\ task' = [task EXCEPT ![r] =
       [q |-> ApplyRole(q).q, grant |-> ApplyRole(q).grant,
        hist |-> IF q.conv THEN chat.hist ELSE <<>>,
        sid |-> IF ~q.conv THEN None ELSE IF chat.sid = None THEN r ELSE chat.sid,
        resume |-> q.conv /\ chat.sid # None]]
  /\ IF ~q.conv THEN UNCHANGED chat
     ELSE \E n \in Lengths :
            chat' = [hist |-> Append(chat.hist, NextTurn(chat.hist, "user", "user", r, n)),
                     sid |-> task'[r].sid]
  /\ overlapped' = (overlapped \/ (q.conv /\ TurnIsOut))
  /\ UNCHANGED <<run, cooling, held, row, limits>>

------------------------------------------------------------------------------
(* The router.                                                             *)

\* Mutant: a class the caller names counts for more than the mark.
ClassAsNamed(q) == IF q.kind # None THEN q.kind ELSE IF q.sensitive THEN "privacy" ELSE "default"

ClassOf(q) == IF q.sensitive THEN "privacy" ELSE IF q.kind = None THEN "default" ELSE q.kind

Guarded(q) == ClassOf(q) = "privacy"

Route(q) ==
  LET class == Primary[ClassOf(q)]
      agent == Or(q.agent, class[1])
      model == Or(q.model, IF agent = class[1] THEN class[2] ELSE "")
  IN IF Guarded(q) /\ agent \in NonPrivate THEN PrivacyFallback ELSE <<agent, model>>

\* A chain of candidates, <<agent, model>>, is a function of their places: to
\* leave some out is to restrict it, and to take the next is to take the least.
FirstOfEach(chain) ==
  Restrict(chain, {i \in DOMAIN chain : \A j \in DOMAIN chain : chain[j][1] = chain[i][1] => i <= j})

\* The routed choice, the class's own, its fallbacks: each agent once.
RouteChain(q) ==
  LET all == <<Route(q), Primary[ClassOf(q)]>> \o Fallbacks[ClassOf(q)]
  IN FirstOfEach(RestrictValues(all, LAMBDA c : ~(Guarded(q) /\ c[1] \in NonPrivate)))

\* What run_agent is asked in the end: by the caller, or by the wrapper it named.
Bare(q) ==
  CASE q.agent = "social"  -> [plain EXCEPT !.kind = "bulk", !.model = Named(q.model)]
    [] q.agent = "content" -> [plain EXCEPT !.agent = "claude", !.exclude = {"deepseek"},
                                            !.model = Or(Named(q.model), "sonnet")]
    [] q.agent \notin Wrappers -> q

\* run_agent: a named agent without a kind keeps its model and is followed by
\* the default class's fallbacks.  The first one is kept, whoever is excluded.
Chain(q) ==
  LET routed == q.kind # None \/ q.sensitive \/ q.agent = None
      chain  == IF routed THEN RouteChain(q)
                ELSE [RouteChain([plain EXCEPT !.agent = q.agent])
                        EXCEPT ![1] = <<q.agent, Or(q.model, "")>>]
  IN Restrict(chain, {i \in DOMAIN chain : i = 1 \/ (q.failover /\ chain[i][1] \notin q.exclude)})

------------------------------------------------------------------------------
(* The conversation: what an agent is shown.                               *)

\* A transcript keeps the newest text: the turns that are whole in it.
Whole(hist) == {i \in DOMAIN hist : Length(hist) <= hist[i].from + Room}

TurnsAt(hist, places) == {[role |-> hist[i].role, of |-> hist[i].of] : i \in places}

TurnsOf(hist) == TurnsAt(hist, Whole(hist))

Replies(hist, a) == {i \in DOMAIN hist : hist[i].role = "assistant" /\ hist[i].by = a}

HasAnswered(hist, a) == Replies(hist, a) # {}

\* Mutant: the other agents' answers are left out.
MissedQuestions(hist, a) ==
  TurnsAt(hist, {j \in Whole(hist) : hist[j].role = "user" /\ \A k \in Replies(hist, a) : k < j})

MissedTurns(hist, a) ==
  TurnsAt(hist, {j \in Whole(hist) : \A k \in Replies(hist, a) : k < j})

UserTurn(r) == [role |-> "user", of |-> r]
Fresh(r) == r + Cardinality(Runs)          \* the id of a session opened by a run

\* The session a call uses, and the turns its prompt and session hold.
Shown(r, a, primary) ==
  LET t == task[r]
      resumes == a = primary /\ a \in Resumable /\ t.sid # None
  IN IF resumes /\ t.resume /\ HasAnswered(t.hist, a)
     THEN [sid |-> t.sid, ctx |-> held[t.sid] \cup MissedTurns(t.hist, a) \cup {UserTurn(r)}]
     ELSE IF resumes /\ t.hist # <<>>
     THEN [sid |-> Fresh(r), ctx |-> TurnsOf(t.hist) \cup {UserTurn(r)}]
     ELSE [sid |-> IF resumes THEN t.sid ELSE None, ctx |-> TurnsOf(t.hist) \cup {UserTurn(r)}]

------------------------------------------------------------------------------
(* A run.  calls and known are what the properties need.                   *)

New == [queue |-> <<>>, attempts |-> {}, primary |-> None, now |-> None, shown |-> None,
        end |-> "new", calls |-> <<>>, agents |-> {}, known |-> {}, cost |-> 0]

Least(places) == CHOOSE i \in places : \A j \in places : i <= j

\* Pops the next candidate and calls it.
Call(r, s) ==
  LET i == Least(DOMAIN s.queue)
      c == s.queue[i]
  IN [s EXCEPT !.queue = Restrict(@, DOMAIN @ \ {i}), !.now = c, !.calls = Append(@, c),
               !.shown = Shown(r, c[1], s.primary)]

Start(r) ==
  /\ task[r] # None /\ run[r].end = "new"
  /\ LET chain  == Chain(Bare(task[r].q))
         usable == RestrictValues(chain, LAMBDA c : c[1] \notin cooling)
         agents == {chain[i][1] : i \in DOMAIN chain}
         stuck  == agents \subseteq cooling
     IN run' = [run EXCEPT ![r] =
          Call(r, [queue |-> IF stuck THEN chain ELSE usable,
                   attempts |-> IF stuck THEN {} ELSE agents \cap cooling,
                   primary |-> chain[1][1], now |-> None, shown |-> None, end |-> "running",
                   calls |-> <<>>, agents |-> agents, known |-> cooling, cost |-> 0])]
  /\ UNCHANGED <<task, cooling, chat, held, row, limits, overlapped>>

\* claude_agent refuses Opus without a grant, before anything runs; a wrapper
\* does not hand the grant on.
OpusRefused(r, c) ==
  c = <<"claude", "opus">> /\ (~task[r].grant \/ task[r].q.agent \in Wrappers)

\* What an Opus attempt used up, when it got that far.
Costs(r, c, how) ==
  IF c # <<"claude", "opus">> \/ OpusRefused(r, c) \/ how = "unavailable" THEN {0}
  ELSE IF how = "ok" THEN {1} ELSE {0, 1}

\* The result goes to the task's row: a failed claude run names no model, and
\* the cost of earlier attempts is added to the last one's result.
Finish(r, s, how, model) ==
  /\ run' = [run EXCEPT ![r] = [s EXCEPT !.end = how]]
  /\ row' = [row EXCEPT ![r] = [model |-> model, cost |-> s.cost]]

Answered(r) ==
  LET s == run[r]  c == s.now
  IN /\ ~OpusRefused(r, c)
     /\ \E n \in Costs(r, c, "ok") :
          Finish(r, [s EXCEPT !.cost = @ + n], "ok", c[2])
     /\ cooling' = cooling \ {c[1]}                             \* clear
     /\ held' = IF s.shown.sid = None THEN held
                ELSE [held EXCEPT ![s.shown.sid] =
                        s.shown.ctx \cup {[role |-> "assistant", of |-> r]}]
     /\ IF ~task[r].q.conv THEN UNCHANGED chat
        ELSE \E n \in Lengths :
               chat' = [hist |-> Append(chat.hist, NextTurn(chat.hist, "assistant", c[1], r, n)),
                        sid |-> Or(s.shown.sid, chat.sid)]
     /\ UNCHANGED <<task, limits>>

\* A timeout, a real error, or Opus refused: never handed to another agent.
Stopped(r) ==
  LET s == run[r]
  IN /\ \E n \in Costs(r, s.now, "error") :
          Finish(r, [s EXCEPT !.cost = @ + n], "stopped", None)
     /\ UNCHANGED <<task, cooling, chat, held, limits>>

\* Claude is put before the others, when it is among them and was not tried.
Promoted(s, others) ==
  IF "claude" \notin s.attempts /\ \E i \in DOMAIN s.queue : s.queue[i][1] = "claude"
  THEN [s EXCEPT !.queue = [i \in {0} \cup DOMAIN others |->
                              IF i = 0 THEN <<"claude", "sonnet">> ELSE others[i]]]
  ELSE s

\* Mutant: Claude is put first and stays where it was too.
PromoteTwice(s) == Promoted(s, s.queue)

\* A reply without work done: the next agent must be able to do it.
Promote(s) == Promoted(s, RestrictValues(s.queue, LAMBDA c : c[1] # "claude"))

\* A limit, an outage or a text-only reply: noted, and the next one is called.
FailsOver(r, how) ==
  LET s == run[r]
      t == [s EXCEPT !.attempts = @ \cup {s.now[1]}]
      u == IF how = "text_only" THEN Promote(t) ELSE t
  IN /\ ~OpusRefused(r, s.now)
     /\ how = "text_only" => s.now[1] = "deepseek"
     /\ how # "text_only" => limits < MaxLimits
     /\ limits' = IF how = "text_only" THEN limits ELSE limits + 1
     /\ \E n \in Costs(r, s.now, how) :
          IF ~Bare(task[r].q).failover THEN Finish(r, [s EXCEPT !.cost = @ + n], "stopped", None)
          ELSE IF DOMAIN u.queue = {} THEN Finish(r, [u EXCEPT !.cost = @ + n], "exhausted", None)
          ELSE run' = [run EXCEPT ![r] = Call(r, [u EXCEPT !.cost = @ + n])] /\ UNCHANGED row
     /\ cooling' = IF how = "limit" /\ Bare(task[r].q).failover THEN cooling \cup {s.now[1]}
                   ELSE cooling
     /\ UNCHANGED <<task, chat, held>>

Return(r) ==
  /\ run[r].end = "running" /\ UNCHANGED overlapped
  /\ Answered(r) \/ Stopped(r) \/ \E how \in {"limit", "unavailable", "text_only"} : FailsOver(r, how)

\* The time a limit was to be lifted passes.
CooldownEnds(a) ==
  /\ a \in cooling
  /\ cooling' = cooling \ {a}
  /\ UNCHANGED <<task, run, chat, held, row, limits, overlapped>>

Init ==
  /\ task = [r \in Runs |-> None] /\ run = [r \in Runs |-> New] /\ row = task
  /\ cooling = {} /\ chat = [hist |-> <<>>, sid |-> None]
  /\ held = [s \in Runs \cup {Fresh(r) : r \in Runs} |-> {}]
  /\ limits = 0 /\ overlapped = FALSE

Next ==
  \/ \E r \in Runs : \E q \in Requests[r] : Queue(r, q)
  \/ \E r \in Runs : Start(r) \/ Return(r)
  \/ \E a \in Agents : CooldownEnds(a)

Spec == Init /\ [][Next]_vars

------------------------------------------------------------------------------
(* Properties.                                                             *)

Called(r) == {run[r].calls[i][1] : i \in DOMAIN run[r].calls}

\* Work that is marked sensitive, or of the privacy class, never reaches a
\* non-private provider: not through a role, a pinned agent, the content
\* wrapper, a fallback or a promotion.  The social wrapper is the one way out:
\* it asks for a draft, and the mark is lost.
PrivateStaysPrivate ==
  \A r \in Runs :
    /\ task[r] # None /\ task[r].q.agent # "social"
    /\ task[r].q.sensitive \/ task[r].q.kind = "privacy"
    => Called(r) \cap NonPrivate = {}

\* A run asks each agent at most once, no other one after an attempt that may
\* have changed something (only the last call can have answered or failed for
\* real), and one known to be limited when it starts only if all of them are:
\* an estimate never blocks the work.
AskedInTurn ==
  \A r \in Runs : run[r].end # "new" =>
    /\ \A i, j \in DOMAIN run[r].calls : run[r].calls[i][1] = run[r].calls[j][1] => i = j
    /\ \A i \in 1..(Len(run[r].calls) - 1) : run[r].calls[i][1] \in run[r].attempts
    /\ Called(r) # {}
    /\ Called(r) \cap run[r].known # {} => run[r].agents \subseteq run[r].known

\* "what its own session lacks": while each turn is sent after the last one
\* ended, an agent that answers one has been shown, by its own session or by
\* what it was handed, every earlier turn that is whole in the newest Room of
\* the conversation, whoever answered it.
CatchesUp ==
  ~overlapped => \A r \in Runs : run[r].end = "ok" /\ task[r].q.conv =>
    TurnsOf(task[r].hist) \subseteq run[r].shown.ctx

\* "Prompts that look like they carry a credential never go to a non-private
\* provider", when a role sends them.
SecretsStayPrivate ==
  \A r \in Runs : task[r] # None /\ task[r].q.role # None /\ task[r].q.secret =>
    Called(r) \cap NonPrivate = {}
==============================================================================
