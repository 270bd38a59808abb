---------------------------- MODULE FailoverProofs ----------------------------
(***************************************************************************)
(* Theorems about AgentFailover, for every set of requests, answers of the *)
(* agents and order of the runs: what is private stays with private        *)
(* providers, a run asks each agent once and in turn, and an agent that    *)
(* answers a turn of a conversation knows the turns before it that a       *)
(* transcript has room for.                                                *)
(***************************************************************************)
EXTENDS Services, FiniteSetTheorems, NaturalsInduction, WellFoundedInduction, TLAPS

------------------------------------------------------------------------------
(* Chains.                                                                 *)

Candidates == AF!Agents \X AF!Models

Asking ==
  [role : DOMAIN AF!Role \cup {None}, agent : AF!Agents \cup AF!Wrappers \cup {None},
   model : AF!Models \cup {None}, kind : DOMAIN AF!Primary \cup {None},
   sensitive : BOOLEAN, listed : BOOLEAN, secret : BOOLEAN,
   exclude : SUBSET AF!Agents, failover : BOOLEAN, conv : BOOLEAN]

\* Work that must not reach a provider that is not private.
Personal(q) == q.sensitive \/ q.kind = "privacy"

\* Requests that name no wrapper.
BareAsking == {q \in Asking : q.agent \notin AF!Wrappers}

\* Candidates by their place, no agent twice.
IsChain(chain) ==
  /\ DOMAIN chain \subseteq Nat
  /\ \A i \in DOMAIN chain : chain[i] \in Candidates
  /\ \A i, j \in DOMAIN chain : chain[i][1] = chain[j][1] => i = j

AgentsOf(chain) == {chain[i][1] : i \in DOMAIN chain}

LEMMA NoneApart ==
  /\ None \notin AF!Agents /\ None \notin AF!Wrappers /\ None \notin DOMAIN AF!Primary
  /\ None \notin Runs /\ \A r \in Runs : AF!Fresh(r) # None
  /\ \A r \in Runs : \A q \in Requests[r] :
       q \in Asking /\ (q.conv => q = [AF!plain EXCEPT !.agent = "claude", !.conv = TRUE])
BY ServicesAssumption DEF ServicesAssumption, AF!FailoverAssumption, AF!Fresh, Asking, AF!Resumable

\* A set of places that is not empty has a least one.
LEMMA LeastPlace ==
  ASSUME NEW S \in SUBSET Nat, S # {}
  PROVE  AF!Least(S) \in S /\ \A j \in S : AF!Least(S) <= j
<1>1. IsWellFoundedOn(OpToRel(<, Nat), Nat)  BY NatLessThanWellFounded
<1>2. PICK i \in S : \A j \in S : <<j, i>> \notin OpToRel(<, Nat)  BY <1>1, WFMin
<1>3. \A j \in S : ~(j < i)  BY <1>2, Zenon DEF OpToRel
<1>4. \A j \in S : i <= j  BY <1>3
<1> QED  BY <1>4 DEF AF!Least

LEMMA RestrictIs ==
  ASSUME NEW f, NEW S
  PROVE  DOMAIN AF!Restrict(f, S) = S /\ \A i \in S : AF!Restrict(f, S)[i] = f[i]
BY DEF AF!Restrict

LEMMA PolicyTyped ==
  ASSUME NEW class \in DOMAIN AF!Primary
  PROVE  /\ AF!Primary[class] \in Candidates
         /\ AF!Fallbacks[class] \in Seq(Candidates)
         /\ class = "privacy" => AF!Primary[class][1] # "deepseek"
<1>1. class \in {"privacy", "coding", "planning", "review", "verify", "research", "reasoning",
                 "bulk", "mechanical", "default"}
  BY DEF AF!Primary
<1>2. /\ <<"codex", "">> \in Candidates /\ <<"agy", "">> \in Candidates
      /\ <<"claude", "sonnet">> \in Candidates /\ <<"claude", "haiku">> \in Candidates
      /\ <<"deepseek", "chat">> \in Candidates /\ <<"deepseek", "reasoner">> \in Candidates
  BY DEF Candidates, AF!Agents, AF!Models
<1>3. /\ \A a, b \in Candidates : <<a, b>> \in Seq(Candidates)
      /\ \A a, b, c \in Candidates : <<a, b, c>> \in Seq(Candidates)
  OBVIOUS
<1>4. CASE class = "privacy"
  <2>1. AF!Primary[class] = <<"claude", "sonnet">>  BY <1>4 DEF AF!Primary
  <2>2. AF!Fallbacks[class] = <<<<"codex", "">>, <<"agy", "">>>>  BY <1>4 DEF AF!Fallbacks
  <2>3. AF!Primary[class][1] = "claude"  BY <2>1
  <2>4. AF!Fallbacks[class] \in Seq(Candidates)  BY <2>2, <1>2, <1>3
  <2> QED  BY <2>1, <2>3, <2>4, <1>2
<1>5. CASE class = "coding"
  <2>1. AF!Primary[class] = <<"claude", "sonnet">>  BY <1>5 DEF AF!Primary
  <2>2. AF!Fallbacks[class] = <<<<"agy", "">>, <<"codex", "">>>>  BY <1>5 DEF AF!Fallbacks
  <2> QED  BY <1>5, <2>1, <2>2, <1>2, <1>3
<1>6. CASE class = "planning"
  <2>1. AF!Primary[class] = <<"claude", "sonnet">>  BY <1>6 DEF AF!Primary
  <2>2. AF!Fallbacks[class] = <<<<"codex", "">>, <<"agy", "">>>>  BY <1>6 DEF AF!Fallbacks
  <2> QED  BY <1>6, <2>1, <2>2, <1>2, <1>3
<1>7. CASE class = "review"
  <2>1. AF!Primary[class] = <<"claude", "sonnet">>  BY <1>7 DEF AF!Primary
  <2>2. AF!Fallbacks[class] = <<<<"codex", "">>, <<"agy", "">>>>  BY <1>7 DEF AF!Fallbacks
  <2> QED  BY <1>7, <2>1, <2>2, <1>2, <1>3
<1>8. CASE class = "verify"
  <2>1. AF!Primary[class] = <<"codex", "">>  BY <1>8 DEF AF!Primary
  <2>2. AF!Fallbacks[class] = <<<<"claude", "sonnet">>, <<"agy", "">>>>  BY <1>8 DEF AF!Fallbacks
  <2> QED  BY <1>8, <2>1, <2>2, <1>2, <1>3
<1>9. CASE class = "research"
  <2>1. AF!Primary[class] = <<"agy", "">>  BY <1>9 DEF AF!Primary
  <2>2. AF!Fallbacks[class] = <<<<"deepseek", "reasoner">>, <<"claude", "sonnet">>, <<"codex", "">>>>  BY <1>9 DEF AF!Fallbacks
  <2> QED  BY <1>9, <2>1, <2>2, <1>2, <1>3
<1>10. CASE class = "reasoning"
  <2>1. AF!Primary[class] = <<"deepseek", "reasoner">>  BY <1>10 DEF AF!Primary
  <2>2. AF!Fallbacks[class] = <<<<"claude", "sonnet">>, <<"codex", "">>, <<"agy", "">>>>  BY <1>10 DEF AF!Fallbacks
  <2> QED  BY <1>10, <2>1, <2>2, <1>2, <1>3
<1>11. CASE class = "bulk"
  <2>1. AF!Primary[class] = <<"deepseek", "chat">>  BY <1>11 DEF AF!Primary
  <2>2. AF!Fallbacks[class] = <<<<"claude", "haiku">>, <<"codex", "">>, <<"agy", "">>>>  BY <1>11 DEF AF!Fallbacks
  <2> QED  BY <1>11, <2>1, <2>2, <1>2, <1>3
<1>12. CASE class = "mechanical"
  <2>1. AF!Primary[class] = <<"claude", "haiku">>  BY <1>12 DEF AF!Primary
  <2>2. AF!Fallbacks[class] = <<<<"deepseek", "chat">>, <<"codex", "">>, <<"agy", "">>>>  BY <1>12 DEF AF!Fallbacks
  <2> QED  BY <1>12, <2>1, <2>2, <1>2, <1>3
<1>13. CASE class = "default"
  <2>1. AF!Primary[class] = <<"claude", "sonnet">>  BY <1>13 DEF AF!Primary
  <2>2. AF!Fallbacks[class] = <<<<"codex", "">>, <<"agy", "">>, <<"deepseek", "chat">>>>  BY <1>13 DEF AF!Fallbacks
  <2> QED  BY <1>13, <2>1, <2>2, <1>2, <1>3
<1> QED  BY <1>1, <1>4, <1>5, <1>6, <1>7, <1>8, <1>9, <1>10, <1>11, <1>12, <1>13

LEMMA RouteTyped ==
  ASSUME NEW q \in BareAsking
  PROVE  /\ AF!ClassOf(q) \in DOMAIN AF!Primary
         /\ AF!Guarded(q) <=> Personal(q)
         /\ AF!Route(q) \in Candidates
         /\ Personal(q) => AF!Route(q)[1] # "deepseek"
<1>0. q.kind \in DOMAIN AF!Primary \cup {None} /\ q.sensitive \in BOOLEAN  BY DEF Asking, BareAsking
<1>5. "privacy" \in DOMAIN AF!Primary /\ "default" \in DOMAIN AF!Primary  BY DEF AF!Primary
<1>6. None # "privacy"  BY <1>5, NoneApart
<1>1. AF!ClassOf(q) \in DOMAIN AF!Primary /\ (AF!Guarded(q) <=> Personal(q))
  BY <1>0, <1>5, <1>6 DEF AF!ClassOf, AF!Guarded, Personal
<1>2. AF!Primary[AF!ClassOf(q)] \in Candidates  BY <1>1, PolicyTyped
<1>3. PICK a \in AF!Agents, m \in AF!Models :
        AF!Route(q) = IF AF!Guarded(q) /\ a \in AF!NonPrivate THEN <<"claude", "sonnet">> ELSE <<a, m>>
  <2>1. PICK a : a = AF!Or(q.agent, AF!Primary[AF!ClassOf(q)][1])  OBVIOUS
  <2>2. a \in AF!Agents  BY <1>2, <2>1 DEF AF!Or, Asking, BareAsking, Candidates
  <2>3. PICK m : m = AF!Or(q.model, IF a = AF!Primary[AF!ClassOf(q)][1]
                                    THEN AF!Primary[AF!ClassOf(q)][2] ELSE "")
    OBVIOUS
  <2>4. m \in AF!Models  BY <1>2, <2>3 DEF AF!Or, Asking, BareAsking, Candidates, AF!Models
  <2> QED  BY <2>1, <2>2, <2>3, <2>4 DEF AF!Route, AF!PrivacyFallback
<1>4. <<"claude", "sonnet">> \in Candidates  BY DEF Candidates, AF!Agents, AF!Models
<1> QED  BY <1>1, <1>3, <1>4 DEF Candidates, AF!NonPrivate

LEMMA RouteChainTyped ==
  ASSUME NEW q \in BareAsking
  PROVE  /\ IsChain(AF!RouteChain(q)) /\ 1 \in DOMAIN AF!RouteChain(q)
         /\ Personal(q) => "deepseek" \notin AgentsOf(AF!RouteChain(q))
         /\ AF!RouteChain(q)[1] = AF!Route(q)
<1>1. PICK all : all = <<AF!Route(q), AF!Primary[AF!ClassOf(q)]>> \o AF!Fallbacks[AF!ClassOf(q)]
  OBVIOUS
<1>2. all \in Seq(Candidates) /\ all[1] = AF!Route(q) /\ 1 \in DOMAIN all
  <2>1. PICK a \in Candidates, b \in Candidates, s \in Seq(Candidates) : /\ a = AF!Route(q) /\ b = AF!Primary[AF!ClassOf(q)]
          /\ s = AF!Fallbacks[AF!ClassOf(q)]
    BY RouteTyped, PolicyTyped
  <2>2. all = <<a, b>> \o s  BY <1>1, <2>1
  <2> QED  BY <2>1, <2>2
<1>3. DOMAIN all \subseteq Nat \ {0} /\ \A i \in DOMAIN all : all[i] \in Candidates
  BY <1>2
<1>4. PICK kept : kept = AF!RestrictValues(all, LAMBDA c : ~(AF!Guarded(q) /\ c[1] \in AF!NonPrivate))
  OBVIOUS
<1>5. /\ DOMAIN kept = {i \in DOMAIN all : ~(AF!Guarded(q) /\ all[i][1] \in AF!NonPrivate)}
      /\ \A i \in DOMAIN kept : kept[i] = all[i]
  BY <1>4, RestrictIs DEF AF!RestrictValues
<1>6. AF!RouteChain(q) = AF!FirstOfEach(kept)
  BY <1>1, <1>4 DEF AF!RouteChain
<1>7. PICK chain : chain = AF!FirstOfEach(kept)  OBVIOUS
<1>8. /\ DOMAIN chain = {i \in DOMAIN kept : \A j \in DOMAIN kept : kept[j][1] = kept[i][1] => i <= j}
      /\ \A i \in DOMAIN chain : chain[i] = kept[i]
  BY <1>7, RestrictIs DEF AF!FirstOfEach
<1>9. 1 \in DOMAIN kept  BY <1>2, <1>5, RouteTyped DEF AF!NonPrivate
<1>10. 1 \in DOMAIN chain /\ chain[1] = AF!Route(q)
  BY <1>2, <1>3, <1>5, <1>8, <1>9
<1>11. IsChain(chain)
  <2>1. \A i \in DOMAIN chain : i \in DOMAIN all /\ i \in DOMAIN kept /\ chain[i] = all[i] /\ kept[i] = all[i]
    BY <1>5, <1>8
  <2>2. ASSUME NEW i \in DOMAIN chain, NEW j \in DOMAIN chain, chain[i][1] = chain[j][1] PROVE i = j
    <3>1. i <= j /\ j <= i  BY <2>1, <2>2, <1>8
    <3>2. i \in Nat /\ j \in Nat  BY <2>1, <1>3
    <3> QED  BY <3>1, <3>2
  <2> QED  BY <2>1, <2>2, <1>3 DEF IsChain
<1>12. Personal(q) => "deepseek" \notin AgentsOf(chain)
  BY <1>5, <1>8, RouteTyped DEF AgentsOf, AF!NonPrivate
<1> QED  BY <1>6, <1>7, <1>10, <1>11, <1>12

LEMMA ChainTyped ==
  ASSUME NEW q \in BareAsking
  PROVE  /\ IsChain(AF!Chain(q)) /\ 1 \in DOMAIN AF!Chain(q)
         /\ Personal(q) => "deepseek" \notin AgentsOf(AF!Chain(q))
         /\ q.kind = None /\ ~q.sensitive /\ q.agent = "claude" => AF!Chain(q)[1][1] = "claude"
         /\ q.kind = None /\ ~q.sensitive /\ q.agent = "claude" /\ "deepseek" \in q.exclude =>
              "deepseek" \notin AgentsOf(AF!Chain(q))
<1> DEFINE routed == q.kind # None \/ q.sensitive \/ q.agent = None
           p == [AF!plain EXCEPT !.agent = q.agent]
<1>1. PICK chain : chain = IF routed THEN AF!RouteChain(q)
                           ELSE [AF!RouteChain(p) EXCEPT ![1] = <<q.agent, AF!Or(q.model, "")>>]
  OBVIOUS
<1>2. PICK S : S = {i \in DOMAIN chain : i = 1 \/ (q.failover /\ chain[i][1] \notin q.exclude)}
  OBVIOUS
<1>3. AF!Chain(q) = AF!Restrict(chain, S)  BY <1>1, <1>2 DEF AF!Chain
<1>4. /\ IsChain(chain) /\ 1 \in DOMAIN chain
      /\ Personal(q) => "deepseek" \notin AgentsOf(chain)
      /\ ~routed => chain[1][1] = q.agent
  <2>1. CASE routed  BY <2>1, <1>1, RouteChainTyped
  <2>2. CASE ~routed
    <3>0. None # "privacy"  BY NoneApart DEF AF!Primary
    <3>1. p \in BareAsking /\ q.agent \in AF!Agents /\ p.agent = q.agent /\ ~Personal(p) /\ ~Personal(q)
      BY <2>2, <3>0 DEF Asking, BareAsking, AF!plain, Personal
    <3>2. PICK f : f = AF!RouteChain(p)  OBVIOUS
    <3>3. IsChain(f) /\ 1 \in DOMAIN f /\ f[1] = AF!Route(p)  BY <3>1, <3>2, RouteChainTyped
    <3>4. AF!Route(p)[1] = q.agent
      BY <3>1, RouteTyped, NoneApart DEF AF!Route, AF!Or
    <3>5. PICK c \in Candidates : c = <<q.agent, AF!Or(q.model, "")>> /\ c[1] = q.agent
      <4>1. PICK a \in AF!Agents, m \in AF!Models : a = q.agent /\ m = AF!Or(q.model, "")
        BY <3>1 DEF AF!Or, Asking, BareAsking, AF!Models
      <4>2. <<a, m>> \in Candidates /\ <<a, m>>[1] = a  BY DEF Candidates
      <4> QED  BY <4>1, <4>2
    <3>6. DOMAIN chain = DOMAIN f /\ chain[1] = c /\ \A i \in DOMAIN f : i # 1 => chain[i] = f[i]
      BY <1>1, <2>2, <3>2, <3>3, <3>5
    <3>7. \A i \in DOMAIN f : chain[i][1] = f[i][1]
      BY <3>3, <3>4, <3>5, <3>6
    <3> QED  BY <3>1, <3>3, <3>5, <3>6, <3>7 DEF IsChain
  <2> QED  BY <2>1, <2>2
<1>5. S \subseteq DOMAIN chain /\ 1 \in S  BY <1>2, <1>4
<1>6. DOMAIN AF!Chain(q) = S /\ \A i \in S : AF!Chain(q)[i] = chain[i]
  BY <1>3, RestrictIs
<1>7. q.kind = None /\ ~q.sensitive /\ q.agent = "claude" => ~routed
  BY NoneApart DEF AF!Agents
<1>8. ASSUME q.kind = None, ~q.sensitive, q.agent = "claude", "deepseek" \in q.exclude
      PROVE  "deepseek" \notin AgentsOf(AF!Chain(q))
  <2>1. chain[1][1] = "claude"  BY <1>4, <1>7, <1>8
  <2>2. \A i \in S : i = 1 \/ chain[i][1] \notin q.exclude  BY <1>2
  <2> QED  BY <1>6, <1>8, <2>1, <2>2 DEF AgentsOf
<1>9. q.kind = None /\ ~q.sensitive /\ q.agent = "claude" => AF!Chain(q)[1][1] = "claude"
  BY <1>4, <1>5, <1>6, <1>7
<1>10. IsChain(AF!Chain(q)) /\ 1 \in DOMAIN AF!Chain(q)  BY <1>4, <1>5, <1>6 DEF IsChain
<1>11. Personal(q) => "deepseek" \notin AgentsOf(AF!Chain(q))  BY <1>4, <1>5, <1>6 DEF AgentsOf
<1> QED  BY <1>8, <1>9, <1>10, <1>11

\* Private work that is not lost sight of by the social wrapper.
Kept(q) == Personal(q) /\ q.agent # "social"

\* The chain of a task, whichever agent or wrapper the caller named.
LEMMA TaskChain ==
  ASSUME NEW q \in Asking
  PROVE  LET chain == AF!Chain(AF!Bare(q))
         IN /\ IsChain(chain) /\ 1 \in DOMAIN chain
            /\ Kept(q) => "deepseek" \notin AgentsOf(chain)
            /\ q = [AF!plain EXCEPT !.agent = "claude", !.conv = TRUE] => chain[1][1] = "claude"
<1>1. PICK b : b = AF!Bare(q)  OBVIOUS
<1>0. None # "privacy" /\ "claude" \notin AF!Wrappers /\ None \notin AF!Wrappers
  BY NoneApart DEF AF!Primary, AF!Wrappers
<1>2. CASE q.agent = "social"
  <2>1. PICK m \in AF!Models \cup {None} : m = AF!Named(q.model)
    BY DEF AF!Named, Asking, AF!Models
  <2>2. b = [AF!plain EXCEPT !.kind = "bulk", !.model = m]
    BY <1>1, <1>2, <2>1 DEF AF!Bare, AF!Wrappers
  <2>3. b \in BareAsking
    BY <1>0, <2>2 DEF BareAsking, Asking, AF!plain, AF!Primary
  <2> QED  BY <1>0, <1>1, <1>2, <2>3, ChainTyped DEF Kept, AF!plain, AF!Wrappers
<1>3. CASE q.agent = "content"
  <2>1. PICK m \in AF!Models \cup {None} : m = AF!Or(AF!Named(q.model), "sonnet")
    BY DEF AF!Named, AF!Or, Asking, AF!Models
  <2>2. b = [AF!plain EXCEPT !.agent = "claude", !.exclude = {"deepseek"}, !.model = m]
    BY <1>1, <1>3, <2>1 DEF AF!Bare, AF!Wrappers
  <2>3. b \in BareAsking
    BY <1>0, <2>2 DEF BareAsking, Asking, AF!plain, AF!Agents
  <2>4. b.kind = None /\ ~b.sensitive /\ b.agent = "claude" /\ "deepseek" \in b.exclude
    BY <2>2 DEF AF!plain
  <2> QED  BY <1>1, <2>3, <2>4, ChainTyped
<1>4. CASE q.agent \notin AF!Wrappers
  <2>1. b = q /\ b \in BareAsking  BY <1>1, <1>4 DEF AF!Bare, AF!Wrappers, BareAsking
  <2>2. q = [AF!plain EXCEPT !.agent = "claude", !.conv = TRUE] =>
          q.kind = None /\ ~q.sensitive /\ q.agent = "claude"
    BY DEF AF!plain
  <2> QED  BY <1>1, <2>1, <2>2, ChainTyped DEF Kept
<1> QED  BY <1>2, <1>3, <1>4 DEF AF!Wrappers
------------------------------------------------------------------------------
(* A run.                                                                  *)

IsRun(s) ==
  s = [queue |-> s.queue, attempts |-> s.attempts, primary |-> s.primary, now |-> s.now,
       shown |-> s.shown, end |-> s.end, calls |-> s.calls, agents |-> s.agents,
       known |-> s.known, cost |-> s.cost]

\* Who was called, and who may yet be: each agent once, all of the chain, and
\* those known to be limited only when all of them are.
Asked(s) ==
  /\ IsChain(s.queue) /\ s.calls \in Seq(Candidates)
  /\ \A i, j \in DOMAIN s.calls : s.calls[i][1] = s.calls[j][1] => i = j
  /\ AgentsOf(s.queue) \cap AgentsOf(s.calls) = {}
  /\ AgentsOf(s.queue) \cup AgentsOf(s.calls) \subseteq s.agents
  /\ s.agents \subseteq s.known \/ (AgentsOf(s.queue) \cup AgentsOf(s.calls)) \cap s.known = {}

\* The next call may be made: each of the earlier ones came to nothing.
Ready(s) == IsRun(s) /\ Asked(s) /\ \A i \in DOMAIN s.calls : s.calls[i][1] \in s.attempts

RunSound(s) ==
  /\ IsRun(s) /\ s.end \in {"new", "running", "ok", "stopped", "exhausted"}
  /\ s.end = "new" => s = AF!New
  /\ s.end # "new" =>
       /\ Asked(s) /\ s.calls # <<>> /\ s.now = s.calls[Len(s.calls)]
       /\ \A i \in 1..(Len(s.calls) - 1) : s.calls[i][1] \in s.attempts

TaskTyped ==
  /\ DOMAIN task = Runs
  /\ \A r \in Runs : task[r] # None =>
       /\ task[r] = [q |-> task[r].q, grant |-> task[r].grant, hist |-> task[r].hist,
                     sid |-> task[r].sid, resume |-> task[r].resume]
       /\ task[r].q \in Asking
       /\ task[r].q.conv => task[r].q = [AF!plain EXCEPT !.agent = "claude", !.conv = TRUE]

RunsInv ==
  /\ TaskTyped /\ DOMAIN attempt = Runs
  /\ \A r \in Runs :
       /\ RunSound(attempt[r])
       /\ attempt[r].end # "new" =>
            task[r] # None /\ (Kept(task[r].q) => "deepseek" \notin attempt[r].agents)

LEMMA CallSound ==
  ASSUME NEW r, NEW s, Ready(s), s.end = "running", DOMAIN s.queue # {}
  PROVE  /\ RunSound(AF!Call(r, s)) /\ AF!Call(r, s).end = "running"
         /\ AF!Call(r, s).agents = s.agents
<1>1. PICK i : i = AF!Least(DOMAIN s.queue)  OBVIOUS
<1>2. i \in DOMAIN s.queue /\ i \in Nat
  BY <1>1, LeastPlace DEF Ready, Asked, IsChain
<1>3. PICK c : c = s.queue[i]  OBVIOUS
<1>4. c \in Candidates  BY <1>2, <1>3 DEF Ready, Asked, IsChain
<1>5. PICK queue_ : queue_ = AF!Restrict(s.queue, DOMAIN s.queue \ {i})  OBVIOUS
<1>6. DOMAIN queue_ = DOMAIN s.queue \ {i} /\ \A j \in DOMAIN queue_ : queue_[j] = s.queue[j]
  BY <1>5, RestrictIs
<1>7. PICK calls_ : calls_ = Append(s.calls, c)  OBVIOUS
<1>8. PICK n \in Nat : n = Len(s.calls) /\ DOMAIN s.calls = 1..n  BY DEF Ready, Asked
<1>9. /\ calls_ \in Seq(Candidates) /\ Len(calls_) = n + 1 /\ DOMAIN calls_ = 1..(n + 1)
      /\ calls_[n + 1] = c /\ \A j \in 1..n : calls_[j] = s.calls[j]
  BY <1>4, <1>7, <1>8 DEF Ready, Asked
<1>10. PICK x : x = AF!Call(r, s)  OBVIOUS
<1>11. /\ IsRun(x) /\ x.queue = queue_ /\ x.now = c /\ x.calls = calls_ /\ x.attempts = s.attempts
       /\ x.end = s.end /\ x.agents = s.agents /\ x.known = s.known
  BY <1>1, <1>3, <1>5, <1>7, <1>10 DEF AF!Call, Ready, IsRun
<1>12. AgentsOf(calls_) = AgentsOf(s.calls) \cup {c[1]}
  <2>1. 1..(n + 1) = 1..n \cup {n + 1}  OBVIOUS
  <2> QED  BY <2>1, <1>8, <1>9 DEF AgentsOf
<1>13. AgentsOf(queue_) \subseteq AgentsOf(s.queue) /\ c[1] \in AgentsOf(s.queue)
  BY <1>2, <1>3, <1>6 DEF AgentsOf
<1>14. c[1] \notin AgentsOf(queue_)
  BY <1>2, <1>3, <1>6 DEF AgentsOf, Ready, Asked, IsChain
<1>15. c[1] \notin AgentsOf(s.calls)  BY <1>13 DEF Ready, Asked
<1>16. \A j, k \in DOMAIN calls_ : calls_[j][1] = calls_[k][1] => j = k
  <2> SUFFICES ASSUME NEW j \in 1..(n + 1), NEW k \in 1..(n + 1), calls_[j][1] = calls_[k][1] PROVE j = k
    BY <1>9
  <2>1. CASE j \in 1..n /\ k \in 1..n  BY <2>1, <1>8, <1>9 DEF Ready, Asked
  <2>2. CASE j = n + 1 /\ k \in 1..n  BY <2>2, <1>8, <1>9, <1>15 DEF AgentsOf
  <2>3. CASE j \in 1..n /\ k = n + 1  BY <2>3, <1>8, <1>9, <1>15 DEF AgentsOf
  <2>4. CASE j = n + 1 /\ k = n + 1  BY <2>4
  <2>5. 1..(n + 1) = 1..n \cup {n + 1}  OBVIOUS
  <2> QED  BY <2>1, <2>2, <2>3, <2>4, <2>5
<1>17. IsChain(queue_)  BY <1>6 DEF IsChain, Ready, Asked
<1>18. Asked(x)
  <2>1. AgentsOf(queue_) \cap AgentsOf(calls_) = {}
    BY <1>12, <1>13, <1>14 DEF Ready, Asked
  <2>2. AgentsOf(queue_) \cup AgentsOf(calls_) \subseteq AgentsOf(s.queue) \cup AgentsOf(s.calls)
    BY <1>12, <1>13
  <2> QED  BY <2>1, <2>2, <1>9, <1>11, <1>16, <1>17 DEF Ready, Asked
<1>19. \A j \in 1..(Len(calls_) - 1) : calls_[j][1] \in s.attempts
  BY <1>8, <1>9 DEF Ready
<1>20. calls_ # <<>> /\ calls_[Len(calls_)] = c  BY <1>9
<1> QED  BY <1>10, <1>11, <1>18, <1>19, <1>20 DEF RunSound

\* The call in hand came to nothing.
LEMMA NotedReady ==
  ASSUME NEW s, RunSound(s), s.end = "running", NEW n,
         NEW t, t = [s EXCEPT !.attempts = @ \cup {s.now[1]}]
  PROVE  /\ Ready(t) /\ Ready([t EXCEPT !.cost = n]) /\ t.end = "running" /\ t.agents = s.agents
         /\ t.queue = s.queue /\ t.calls = s.calls /\ t.now = s.now
<1>1. /\ IsRun(t) /\ t.queue = s.queue /\ t.calls = s.calls /\ t.attempts = s.attempts \cup {s.now[1]}
      /\ t.now = s.now /\ t.end = s.end /\ t.agents = s.agents /\ t.known = s.known
  BY DEF RunSound, IsRun
<1>2. Asked(t)  BY <1>1 DEF RunSound, Asked
<1>3. PICK k \in Nat : k = Len(s.calls) /\ DOMAIN s.calls = 1..k  BY DEF RunSound, Asked
<1>4. \A i \in 1..k : i = k \/ i \in 1..(k - 1)  OBVIOUS
<1>5. \A i \in DOMAIN t.calls : t.calls[i][1] \in t.attempts
  BY <1>1, <1>3, <1>4 DEF RunSound
<1>6. PICK x : x = [t EXCEPT !.cost = n]  OBVIOUS
<1>7. /\ IsRun(x) /\ x.queue = t.queue /\ x.calls = t.calls /\ x.attempts = t.attempts
      /\ x.agents = t.agents /\ x.known = t.known
  BY <1>1, <1>6 DEF IsRun
<1>8. Ready(x)  BY <1>2, <1>5, <1>7 DEF Ready, Asked
<1> QED  BY <1>1, <1>2, <1>5, <1>6, <1>8 DEF Ready


LEMMA CostReady ==
  ASSUME NEW s, Ready(s), NEW n
  PROVE  LET t == [s EXCEPT !.cost = n]
         IN Ready(t) /\ t.end = s.end /\ t.agents = s.agents /\ t.queue = s.queue
<1>1. PICK t : t = [s EXCEPT !.cost = n]  OBVIOUS
<1>2. /\ IsRun(t) /\ t.queue = s.queue /\ t.calls = s.calls /\ t.attempts = s.attempts
      /\ t.agents = s.agents /\ t.known = s.known /\ t.end = s.end
  BY <1>1 DEF IsRun, Ready
<1>3. Ready(t)  BY <1>2 DEF Ready, Asked
<1> QED  BY <1>1, <1>2, <1>3

\* A promotion keeps the agents that may yet be called.
LEMMA PromoteReady ==
  ASSUME NEW s, Ready(s)
  PROVE  /\ Ready(AF!Promote(s)) /\ AF!Promote(s).end = s.end
         /\ AF!Promote(s).agents = s.agents /\ AF!Promote(s).calls = s.calls
         /\ AF!Promote(s).now = s.now
<1>1. PICK others : others = AF!RestrictValues(s.queue, LAMBDA c : c[1] # "claude")  OBVIOUS
<1>2. /\ DOMAIN others = {i \in DOMAIN s.queue : s.queue[i][1] # "claude"}
      /\ \A i \in DOMAIN others : others[i] = s.queue[i]
  BY <1>1, RestrictIs DEF AF!RestrictValues
<1>3. CASE "claude" \in s.attempts \/ ~\E i \in DOMAIN s.queue : s.queue[i][1] = "claude"
  BY <1>3 DEF AF!Promote, AF!Promoted
<1>4. CASE "claude" \notin s.attempts /\ \E i \in DOMAIN s.queue : s.queue[i][1] = "claude"
  <2>1. PICK queue_ : queue_ = [i \in {0} \cup DOMAIN others |->
                                  IF i = 0 THEN <<"claude", "sonnet">> ELSE others[i]]
    OBVIOUS
  <2>2. PICK t : t = AF!Promote(s)  OBVIOUS
  <2>3. t = [s EXCEPT !.queue = queue_]
    BY <1>1, <1>4, <2>1, <2>2 DEF AF!Promote, AF!Promoted
  <2>4. /\ IsRun(t) /\ t.queue = queue_ /\ t.calls = s.calls /\ t.attempts = s.attempts
        /\ t.agents = s.agents /\ t.known = s.known /\ t.end = s.end /\ t.now = s.now
    BY <2>3 DEF IsRun, Ready
  <2>5. PICK c \in Candidates : c = <<"claude", "sonnet">> /\ c[1] = "claude"
    <3>1. <<"claude", "sonnet">> \in Candidates  BY DEF Candidates, AF!Agents, AF!Models
    <3> QED  BY <3>1
  <2>6. /\ DOMAIN queue_ = {0} \cup DOMAIN others /\ queue_[0] = c
        /\ \A i \in DOMAIN others : i # 0 => queue_[i] = others[i]
    BY <2>1, <2>5
  <2>7. IsChain(queue_)
    <3>1. \A i \in DOMAIN others : others[i] \in Candidates /\ i \in Nat /\ others[i][1] # "claude"
      BY <1>2 DEF Ready, Asked, IsChain
    <3>2. \A i, j \in DOMAIN others : others[i][1] = others[j][1] => i = j
      BY <1>2 DEF Ready, Asked, IsChain
    <3> QED  BY <2>5, <2>6, <3>1, <3>2 DEF IsChain
  <2>8. AgentsOf(queue_) \subseteq AgentsOf(s.queue)
    BY <1>2, <1>4, <2>5, <2>6 DEF AgentsOf
  <2> QED  BY <2>2, <2>4, <2>7, <2>8 DEF Ready, Asked
<1> QED  BY <1>3, <1>4

LEMMA RunsInit == AF!Init => RunsInv
<1> SUFFICES ASSUME AF!Init PROVE RunsInv  OBVIOUS
<1>1. DOMAIN task = Runs /\ DOMAIN attempt = Runs /\ \A r \in Runs : task[r] = None /\ attempt[r] = AF!New
  BY DEF AF!Init
<1>2. RunSound(AF!New) /\ AF!New.end = "new"  BY DEF RunSound, IsRun, AF!New
<1> QED  BY <1>1, <1>2 DEF RunsInv, TaskTyped

\* A role names the agent and the model, and leaves the rest of a request alone.
LEMMA RoleKept ==
  ASSUME NEW r \in Runs, NEW q \in Requests[r], NEW a, a = AF!ApplyRole(q)
  PROVE  /\ a.q \in Asking /\ a.q.conv = q.conv
         /\ a.q.conv => a.q = [AF!plain EXCEPT !.agent = "claude", !.conv = TRUE]
<1>1. q \in Asking /\ (q.conv => q = [AF!plain EXCEPT !.agent = "claude", !.conv = TRUE])
  BY NoneApart
<1>2. CASE q.role = None  BY <1>1, <1>2 DEF AF!ApplyRole
<1>3. CASE q.role # None
  <2>1. ~q.conv  BY <1>1, <1>3 DEF AF!plain
  <2>2. PICK s : s = AF!Resolve(q)  OBVIOUS
  <2>3. s.by \in Candidates
    <3>1. q.role \in {"product_owner", "scrum_master", "dev_backend", "analyst", "reviewer"}
      BY <1>1, <1>3 DEF Asking, AF!Role
    <3>2. AF!Role[q.role] \in Candidates
      <4>1. /\ <<"claude", "opus">> \in Candidates /\ <<"claude", "sonnet">> \in Candidates
            /\ <<"deepseek", "chat">> \in Candidates /\ <<"agy", "">> \in Candidates
            /\ <<"codex", "">> \in Candidates
        BY DEF Candidates, AF!Agents, AF!Models
      <4>2. /\ AF!Role["product_owner"] = <<"claude", "opus">>
            /\ AF!Role["scrum_master"] = <<"claude", "sonnet">>
            /\ AF!Role["dev_backend"] = <<"deepseek", "chat">>
            /\ AF!Role["analyst"] = <<"agy", "">> /\ AF!Role["reviewer"] = <<"codex", "">>
        BY DEF AF!Role
      <4> QED  BY <3>1, <4>1, <4>2
    <3>3. <<"claude", "sonnet">> \in Candidates  BY DEF Candidates, AF!Agents, AF!Models
    <3> QED  BY <2>2, <3>2, <3>3 DEF AF!Resolve, AF!PrivacyFallback
  <2>4. PICK p : p = IF q.agent # None THEN q
                     ELSE [q EXCEPT !.agent = s.by[1], !.model = AF!Or(AF!Named(q.model), s.by[2])]
    OBVIOUS
  <2>5. a = [q |-> p, grant |-> s.grant /\ p.model = "opus"]
    BY <1>3, <2>2, <2>4 DEF AF!ApplyRole
  <2>6. s.by[1] \in AF!Agents /\ s.by[2] \in AF!Models  BY <2>3 DEF Candidates
  <2>7. p \in Asking /\ p.conv = q.conv
    <3>1. CASE q.agent # None  BY <1>1, <2>4, <3>1
    <3>2. CASE q.agent = None
      <4>1. PICK m \in AF!Models \cup {None} : m = AF!Or(AF!Named(q.model), s.by[2])
        BY <1>1, <2>6 DEF Asking, AF!Or, AF!Named
      <4>2. p = [q EXCEPT !.agent = s.by[1], !.model = m]  BY <2>4, <3>2, <4>1
      <4> QED  BY <1>1, <2>6, <4>2 DEF Asking
    <3> QED  BY <3>1, <3>2
  <2> QED  BY <2>1, <2>5, <2>7
<1> QED  BY <1>2, <1>3

LEMMA RunsQueue ==
  ASSUME RunsInv, NEW r \in Runs, NEW q \in Requests[r], AF!Queue(r, q)
  PROVE  RunsInv'
<1>2. PICK a : a = AF!ApplyRole(q)  OBVIOUS
<1>3. a.q \in Asking /\ (a.q.conv => a.q = [AF!plain EXCEPT !.agent = "claude", !.conv = TRUE])
  BY <1>2, RoleKept
<1>4. PICK t : /\ t = [q |-> a.q, grant |-> a.grant, hist |-> t.hist, sid |-> t.sid, resume |-> t.resume]
               /\ task' = [task EXCEPT ![r] = t]
  BY <1>2 DEF AF!Queue
<1>5. task[r] = None /\ attempt' = attempt  BY DEF AF!Queue
<1>6. TaskTyped'
  BY <1>3, <1>4 DEF RunsInv, TaskTyped
<1>7. \A x \in Runs : x # r => task'[x] = task[x]  BY <1>4 DEF RunsInv, TaskTyped
<1>8. attempt[r].end = "new"  BY <1>5 DEF RunsInv
<1>9. \A x \in Runs : attempt'[x].end # "new" =>
        task'[x] # None /\ (Kept(task'[x].q) => "deepseek" \notin attempt'[x].agents)
  BY <1>5, <1>7, <1>8 DEF RunsInv
<1> QED  BY <1>5, <1>6, <1>9 DEF RunsInv


\* One run takes a step, and what was queued stays.
LEMMA OneRun ==
  ASSUME RunsInv, NEW r \in Runs, NEW s, RunSound(s), task[r] # None, task' = task,
         attempt' = [attempt EXCEPT ![r] = s],
         s.end # "new" /\ Kept(task[r].q) => "deepseek" \notin s.agents
  PROVE  RunsInv'
<1>1. attempt'[r] = s /\ \A x \in Runs : x # r => attempt'[x] = attempt[x]
  BY DEF RunsInv
<1>2. TaskTyped' /\ DOMAIN attempt' = Runs  BY DEF RunsInv, TaskTyped
<1>3. \A x \in Runs : /\ RunSound(attempt'[x])
                      /\ attempt'[x].end # "new" =>
                           task'[x] # None /\ (Kept(task'[x].q) => "deepseek" \notin attempt'[x].agents)
  BY <1>1 DEF RunsInv
<1> QED  BY <1>2, <1>3 DEF RunsInv

\* Which candidates a run starts with.
Usable(chain) == AF!RestrictValues(chain, LAMBDA c : c[1] \notin cooling)
First(r, chain) ==
  LET stuck == AgentsOf(chain) \subseteq cooling
  IN [queue |-> IF stuck THEN chain ELSE Usable(chain),
      attempts |-> IF stuck THEN {} ELSE AgentsOf(chain) \cap cooling,
      primary |-> chain[1][1], now |-> None, shown |-> None, end |-> "running",
      calls |-> <<>>, agents |-> AgentsOf(chain), known |-> cooling, cost |-> 0]

LEMMA FirstReady ==
  ASSUME NEW r, NEW chain, IsChain(chain), DOMAIN chain # {}
  PROVE  /\ Ready(First(r, chain)) /\ First(r, chain).end = "running"
         /\ DOMAIN First(r, chain).queue # {} /\ First(r, chain).agents = AgentsOf(chain)
<1>1. PICK u : u = Usable(chain)  OBVIOUS
<1>2. /\ DOMAIN u = {i \in DOMAIN chain : chain[i][1] \notin cooling}
      /\ \A i \in DOMAIN u : u[i] = chain[i]
  BY <1>1, RestrictIs DEF Usable, AF!RestrictValues
<1>3. IsChain(u) /\ AgentsOf(u) \subseteq AgentsOf(chain) /\ AgentsOf(u) \cap cooling = {}
  BY <1>2 DEF IsChain, AgentsOf
<1>4. PICK s : s = First(r, chain)  OBVIOUS
<1>5. AgentsOf(<<>>) = {} /\ <<>> \in Seq(Candidates) /\ DOMAIN <<>> = {}  BY DEF AgentsOf
<1>6. CASE AgentsOf(chain) \subseteq cooling
  <2>1. /\ IsRun(s) /\ s.queue = chain /\ s.calls = <<>> /\ s.agents = AgentsOf(chain)
        /\ s.known = cooling /\ s.end = "running"
    BY <1>4, <1>6 DEF First, IsRun
  <2> QED  BY <1>4, <1>5, <1>6, <2>1 DEF Ready, Asked
<1>7. CASE ~(AgentsOf(chain) \subseteq cooling)
  <2>1. /\ IsRun(s) /\ s.queue = u /\ s.calls = <<>> /\ s.agents = AgentsOf(chain)
        /\ s.known = cooling /\ s.end = "running"
    BY <1>1, <1>4, <1>7 DEF First, IsRun
  <2>2. DOMAIN u # {}  BY <1>2, <1>7 DEF AgentsOf
  <2> QED  BY <1>3, <1>4, <1>5, <2>1, <2>2 DEF Ready, Asked
<1> QED  BY <1>6, <1>7

LEMMA RunsStart ==
  ASSUME RunsInv, NEW r \in Runs, AF!Start(r)
  PROVE  RunsInv'
<1>1. task[r] # None /\ task[r].q \in Asking /\ task' = task
  BY DEF AF!Start, RunsInv, TaskTyped
<1>2. PICK chain : chain = AF!Chain(AF!Bare(task[r].q))  OBVIOUS
<1>3. /\ IsChain(chain) /\ DOMAIN chain # {}
      /\ Kept(task[r].q) => "deepseek" \notin AgentsOf(chain)
  BY <1>1, <1>2, TaskChain
<1>4. attempt' = [attempt EXCEPT ![r] = AF!Call(r, First(r, chain))]
  BY <1>2 DEF AF!Start, First, Usable, AgentsOf
<1>5. RunSound(AF!Call(r, First(r, chain))) /\ AF!Call(r, First(r, chain)).agents = AgentsOf(chain)
  BY <1>3, FirstReady, CallSound
<1> QED  BY <1>1, <1>3, <1>4, <1>5, OneRun

\* A run that ends keeps what it asked.
LEMMA EndSound ==
  ASSUME NEW s, RunSound(s), s.end = "running", NEW n, NEW how \in {"ok", "stopped", "exhausted"}
  PROVE  LET t == [[s EXCEPT !.cost = n] EXCEPT !.end = how]
         IN RunSound(t) /\ t.agents = s.agents
<1>1. PICK t : t = [[s EXCEPT !.cost = n] EXCEPT !.end = how]  OBVIOUS
<1>2. /\ IsRun(t) /\ t.queue = s.queue /\ t.calls = s.calls /\ t.attempts = s.attempts /\ t.end = how
      /\ t.agents = s.agents /\ t.known = s.known /\ t.now = s.now
  BY <1>1 DEF IsRun, RunSound
<1>3. RunSound(t)  BY <1>2 DEF RunSound, Asked
<1> QED  BY <1>1, <1>2, <1>3


LEMMA RunsReturn ==
  ASSUME RunsInv, NEW r \in Runs, AF!Return(r)
  PROVE  RunsInv'
<1>1. PICK s : s = attempt[r]  OBVIOUS
<1>2. /\ RunSound(s) /\ s.end = "running" /\ task[r] # None
      /\ Kept(task[r].q) => "deepseek" \notin s.agents
  BY <1>1 DEF AF!Return, RunsInv
<1>3. task' = task
  BY DEF AF!Return, AF!Answered, AF!Stopped, AF!FailsOver
<1>4. ASSUME NEW x, RunSound(x), x.agents = s.agents, attempt' = [attempt EXCEPT ![r] = x]
      PROVE  RunsInv'
  BY <1>2, <1>3, <1>4, OneRun
<1>5. CASE AF!Answered(r)
  <2>1. PICK n : attempt' = [attempt EXCEPT ![r] = [[s EXCEPT !.cost = @ + n] EXCEPT !.end = "ok"]]
    BY <1>1, <1>5 DEF AF!Answered, AF!Finish
  <2>2. PICK m : m = s.cost + n  OBVIOUS
  <2>3. PICK x : x = [[s EXCEPT !.cost = m] EXCEPT !.end = "ok"]  OBVIOUS
  <2>4. RunSound(x) /\ x.agents = s.agents  BY <1>2, <2>3, EndSound
  <2> QED  BY <1>4, <2>1, <2>2, <2>3, <2>4
<1>6. CASE AF!Stopped(r)
  <2>1. PICK n : attempt' = [attempt EXCEPT ![r] = [[s EXCEPT !.cost = @ + n] EXCEPT !.end = "stopped"]]
    BY <1>1, <1>6 DEF AF!Stopped, AF!Finish
  <2>2. PICK m : m = s.cost + n  OBVIOUS
  <2>3. PICK x : x = [[s EXCEPT !.cost = m] EXCEPT !.end = "stopped"]  OBVIOUS
  <2>4. RunSound(x) /\ x.agents = s.agents  BY <1>2, <2>3, EndSound
  <2> QED  BY <1>4, <2>1, <2>2, <2>3, <2>4
<1>7. ASSUME NEW how, AF!FailsOver(r, how) PROVE RunsInv'
  <2>1. PICK t : t = [s EXCEPT !.attempts = @ \cup {s.now[1]}]  OBVIOUS
  <2>2. PICK u : u = IF how = "text_only" THEN AF!Promote(t) ELSE t  OBVIOUS
  <2>3. /\ Ready(t) /\ t.end = "running" /\ t.agents = s.agents /\ t.calls = s.calls /\ t.now = s.now
    BY <1>2, <2>1, NotedReady
  <2>4. /\ Ready(u) /\ u.end = "running" /\ u.agents = s.agents /\ u.calls = s.calls /\ u.now = s.now
    <3>1. CASE how = "text_only"  BY <3>1, <2>2, <2>3, PromoteReady
    <3>2. CASE how # "text_only"  BY <3>2, <2>2, <2>3
    <3> QED  BY <3>1, <3>2
  <2>5. RunSound(u)
    <3>1. \A i \in 1..(Len(u.calls) - 1) : i \in DOMAIN u.calls
      BY <2>4 DEF Ready, Asked
    <3> QED  BY <1>2, <2>4, <3>1 DEF Ready, RunSound
  <2>6. PICK n :
         IF ~AF!Bare(task[r].q).failover
         THEN attempt' = [attempt EXCEPT ![r] = [[s EXCEPT !.cost = @ + n] EXCEPT !.end = "stopped"]]
         ELSE IF DOMAIN u.queue = {}
         THEN attempt' = [attempt EXCEPT ![r] = [[u EXCEPT !.cost = @ + n] EXCEPT !.end = "exhausted"]]
         ELSE attempt' = [attempt EXCEPT ![r] = AF!Call(r, [u EXCEPT !.cost = @ + n])]
    BY <1>1, <1>7, <2>1, <2>2 DEF AF!FailsOver, AF!Finish
  <2>7. CASE ~AF!Bare(task[r].q).failover
    <3>1. PICK m : m = s.cost + n  OBVIOUS
    <3>2. PICK x : x = [[s EXCEPT !.cost = m] EXCEPT !.end = "stopped"]  OBVIOUS
    <3>3. RunSound(x) /\ x.agents = s.agents  BY <1>2, <3>2, EndSound
    <3> QED  BY <1>4, <2>6, <2>7, <3>1, <3>2, <3>3
  <2>8. CASE AF!Bare(task[r].q).failover /\ DOMAIN u.queue = {}
    <3>1. PICK m : m = u.cost + n  OBVIOUS
    <3>2. PICK x : x = [[u EXCEPT !.cost = m] EXCEPT !.end = "exhausted"]  OBVIOUS
    <3>3. RunSound(x) /\ x.agents = u.agents  BY <2>4, <2>5, <3>2, EndSound
    <3> QED  BY <1>4, <2>4, <2>6, <2>8, <3>1, <3>2, <3>3
  <2>9. CASE AF!Bare(task[r].q).failover /\ DOMAIN u.queue # {}
    <3>1. PICK m : m = u.cost + n  OBVIOUS
    <3>2. PICK v : v = [u EXCEPT !.cost = m]  OBVIOUS
    <3>3. Ready(v) /\ v.end = "running" /\ v.agents = s.agents /\ DOMAIN v.queue # {}
      BY <2>4, <2>9, <3>2, CostReady
    <3>4. PICK x : x = AF!Call(r, v)  OBVIOUS
    <3>5. RunSound(x) /\ x.agents = s.agents  BY <3>3, <3>4, CallSound
    <3> QED  BY <1>4, <2>6, <2>9, <3>1, <3>2, <3>4, <3>5
  <2> QED  BY <2>7, <2>8, <2>9
<1> QED  BY <1>5, <1>6, <1>7 DEF AF!Return

LEMMA RunsUnchanged == RunsInv /\ UNCHANGED <<task, attempt>> => RunsInv'
BY DEF RunsInv, TaskTyped

LEMMA RunsStep == RunsInv /\ [AF!Next]_afVars => RunsInv'
<1> SUFFICES ASSUME RunsInv, [AF!Next]_afVars PROVE RunsInv'  OBVIOUS
<1>1. CASE \E a \in AF!Agents : AF!CooldownEnds(a)
  BY <1>1, RunsUnchanged DEF AF!CooldownEnds
<1>2. CASE UNCHANGED afVars  BY <1>2, RunsUnchanged DEF afVars
<1> QED  BY <1>1, <1>2, RunsQueue, RunsStart, RunsReturn DEF AF!Next

------------------------------------------------------------------------------
(* What a run may do.                                                      *)

\* Only the candidates of the task's chain are called, and a chain of private
\* work has none of the providers that are not private (agents/router.py); nor has
\* the one the content wrapper asks for.
LEMMA RunsPrivate == RunsInv => AF!PrivateStaysPrivate
<1> SUFFICES ASSUME RunsInv, NEW r \in Runs, task[r] # None, task[r].q.agent # "social",
                    task[r].q.sensitive \/ task[r].q.kind = "privacy"
             PROVE  AF!Called(r) \cap AF!NonPrivate = {}
  BY DEF AF!PrivateStaysPrivate
<1>1. PICK s : s = attempt[r]  OBVIOUS
<1>2. AF!Called(r) = AgentsOf(s.calls)  BY <1>1 DEF AF!Called, AgentsOf
<1>3. CASE s.end = "new"
  <2>1. s.calls = <<>>  BY <1>1, <1>3 DEF RunsInv, RunSound, AF!New
  <2>2. AgentsOf(<<>>) = {}  BY DEF AgentsOf
  <2> QED  BY <1>2, <2>1, <2>2
<1>4. CASE s.end # "new"
  BY <1>1, <1>2, <1>4 DEF RunsInv, RunSound, Asked, Kept, Personal, AF!NonPrivate
<1> QED  BY <1>3, <1>4

\* Candidates leave the chain when they are called, and only an attempt that came
\* to nothing is followed by another (agents/failover.py, agents/runner.py).
LEMMA RunsInTurn == RunsInv => AF!AskedInTurn
<1> SUFFICES ASSUME RunsInv, NEW r \in Runs, attempt[r].end # "new"
             PROVE  /\ \A i, j \in DOMAIN attempt[r].calls :
                         attempt[r].calls[i][1] = attempt[r].calls[j][1] => i = j
                    /\ \A i \in 1..(Len(attempt[r].calls) - 1) : attempt[r].calls[i][1] \in attempt[r].attempts
                    /\ AF!Called(r) # {}
                    /\ AF!Called(r) \cap attempt[r].known # {} => attempt[r].agents \subseteq attempt[r].known
  BY DEF AF!AskedInTurn
<1>1. PICK s : s = attempt[r]  OBVIOUS
<1>2. AF!Called(r) = AgentsOf(s.calls)  BY <1>1 DEF AF!Called, AgentsOf
<1>3. RunSound(s) /\ Asked(s) /\ s.calls # <<>>  BY <1>1 DEF RunsInv, RunSound
<1>4. 1 \in DOMAIN s.calls  BY <1>3 DEF Asked
<1>5. AgentsOf(s.calls) # {}  BY <1>4 DEF AgentsOf
<1> QED  BY <1>1, <1>2, <1>3, <1>5 DEF RunSound, Asked

LEMMA RunsInvariant == AF!Spec => []RunsInv
<1>1. AF!Init => RunsInv  BY RunsInit
<1>2. RunsInv /\ [AF!Next]_AF!vars => RunsInv'  BY RunsStep DEF AF!vars, afVars
<1> QED  BY <1>1, <1>2, PTL DEF AF!Spec

\* Whatever the caller asked for, what is marked sensitive or of the privacy class
\* never reaches a provider that is not private (_apply_role, router.py, runner.py),
\* unless it was given to the social wrapper (social_agent.py).
THEOREM PrivateWorkStays == AF!Spec => []PrivateStaysPrivate
<1>1. RunsInv => PrivateStaysPrivate  BY RunsPrivate DEF PrivateStaysPrivate
<1> QED  BY <1>1, RunsInvariant, PTL

\* A run asks each agent at most once, goes on only after an attempt that came to
\* nothing, and asks one known to be limited only when all of them are (run_agent).
THEOREM AsksInTurn == AF!Spec => []AskedInTurn
<1>1. RunsInv => AskedInTurn  BY RunsInTurn DEF AskedInTurn
<1> QED  BY <1>1, RunsInvariant, PTL


------------------------------------------------------------------------------
(* The conversation, while a turn is sent only after the last one ended.   *)

Sids == Runs \cup {AF!Fresh(r) : r \in Runs}
Said == [role : {"user", "assistant"}, by : AF!Agents \cup {"user"}, of : Runs,
         from : Nat, upto : Nat]

Turn(hist, i) == [role |-> hist[i].role, of |-> hist[i].of]
Question(hist, r, n) == AF!NextTurn(hist, "user", "user", r, n)

\* Each turn begins before the conversation ends.
Measured(hist) == \A i \in DOMAIN hist : hist[i].from <= AF!Length(hist)

Converses(r) == task[r] # None /\ task[r].q.conv
Open(r) == Converses(r) /\ attempt[r].end \in {"new", "running"}

\* Claude's session holds what, up to Claude's last reply, a transcript had room for.
Session(hist, sid, h) ==
  AF!Replies(hist, "claude") # {} =>
    /\ sid \in Sids
    /\ \E m \in AF!Replies(hist, "claude") :
         /\ \A k \in AF!Replies(hist, "claude") : k <= m
         /\ \A j \in 1..m : hist[m].from <= hist[j].from + Room => Turn(hist, j) \in h[sid]

SessionInv ==
  /\ chat = [hist |-> chat.hist, sid |-> chat.sid]
  /\ chat.hist \in Seq(Said) /\ chat.sid \in Sids \cup {None} /\ DOMAIN held = Sids
  /\ Measured(chat.hist)
  /\ Session(chat.hist, chat.sid, held)

\* A turn carries the conversation as it was, and it is the last one while it is open.
TurnInv ==
  \A r \in Runs :
    /\ Converses(r) => task[r].sid \in Sids /\ task[r].hist \in Seq(Said) /\ Measured(task[r].hist)
    /\ task[r] # None /\ ~task[r].q.conv => task[r].sid = None
    /\ Open(r) => /\ chat.sid = task[r].sid
                  /\ \E n \in Nat : chat.hist = Append(task[r].hist, Question(task[r].hist, r, n))
                  /\ \A s \in Runs : Open(s) => s = r

\* What the agent in hand was shown of the conversation.
Informed(r, s) ==
  /\ Converses(r) => /\ s.primary = "claude"
                     /\ AF!TurnsOf(task[r].hist) \cup {AF!UserTurn(r)} \subseteq s.shown.ctx
                     /\ IF s.now[1] = "claude" THEN s.shown.sid \in Sids ELSE s.shown.sid = None
  /\ ~Converses(r) => s.shown.sid = None

ShownInv == \A r \in Runs : attempt[r].end # "new" => Informed(r, attempt[r])

ChatInv == SessionInv /\ TurnInv /\ ShownInv


LEMMA ChatInit == AF!Init => ChatInv
<1> SUFFICES ASSUME AF!Init PROVE ChatInv  OBVIOUS
<1>1. /\ chat = [hist |-> <<>>, sid |-> None] /\ DOMAIN held = Sids
      /\ \A r \in Runs : task[r] = None /\ attempt[r].end = "new"
  BY DEF AF!Init, AF!New, Sids
<1>2. chat.hist = <<>> /\ chat.sid = None /\ <<>> \in Seq(Said) /\ AF!Replies(<<>>, "claude") = {}
  BY <1>1 DEF AF!Replies
<1>3. SessionInv  BY <1>1, <1>2 DEF SessionInv, Session, Measured
<1> QED  BY <1>1, <1>3 DEF ChatInv, TurnInv, ShownInv, Converses, Open

\* What is added at the end leaves what is there as it is.
LEMMA Added ==
  ASSUME NEW h \in Seq(Said), NEW e \in Said, NEW g, g = Append(h, e)
  PROVE  /\ g \in Seq(Said)
         /\ \A i \in DOMAIN h : i \in DOMAIN g /\ g[i] = h[i]
         /\ \A k \in DOMAIN g : k \in DOMAIN h \/ g[k] = e
<1>1. PICK n \in Nat : n = Len(h) /\ DOMAIN h = 1..n  OBVIOUS
<1>2. /\ g \in Seq(Said) /\ DOMAIN g = 1..(n + 1) /\ g[n + 1] = e
      /\ \A i \in 1..n : g[i] = h[i]
  BY <1>1
<1>3. 1..(n + 1) = 1..n \cup {n + 1}  OBVIOUS
<1> QED  BY <1>1, <1>2, <1>3

LEMMA Upto ==
  ASSUME NEW h \in Seq(Said), NEW k \in DOMAIN h
  PROVE  k \in Nat /\ \A j \in 1..k : j \in DOMAIN h
<1>1. PICK n \in Nat : n = Len(h) /\ DOMAIN h = 1..n  OBVIOUS
<1> QED  BY <1>1

\* g is h with e at its end.
Extends(g, h, e) == g = Append(h, e)

\* A turn is added at the end, and the conversation grows by its length.
LEMMA SaidNext ==
  ASSUME NEW h \in Seq(Said), Measured(h), NEW role \in {"user", "assistant"},
         NEW by \in AF!Agents \cup {"user"}, NEW r \in Runs, NEW n \in Nat,
         NEW e, e = AF!NextTurn(h, role, by, r, n), NEW g, Extends(g, h, e)
  PROVE  /\ e \in Said /\ e.role = role /\ e.by = by /\ e.of = r /\ e.from = AF!Length(h)
         /\ AF!Length(h) \in Nat /\ AF!Length(g) \in Nat /\ AF!Length(h) <= AF!Length(g)
         /\ Measured(g)
<1>1. AF!Length(h) \in Nat
  <2>1. CASE h = <<>>  BY <2>1 DEF AF!Length
  <2>2. CASE h # <<>>
    <3>1. Len(h) \in DOMAIN h  BY <2>2
    <3>2. h[Len(h)] \in Said  BY <3>1
    <3> QED  BY <2>2, <3>2 DEF AF!Length, Said
  <2> QED  BY <2>1, <2>2
<1>2. PICK a \in Nat, b \in Nat : a = AF!Length(h) /\ b = a + n  BY <1>1
<1>3. e = [role |-> role, by |-> by, of |-> r, from |-> a, upto |-> b]  BY <1>2 DEF AF!NextTurn
<1>4. e \in Said  BY <1>3 DEF Said
<1>5. PICK d \in Said : d = e /\ d.from = a /\ d.upto = b  BY <1>3, <1>4
<1>6. PICK k \in Nat : k = Len(h) /\ DOMAIN h = 1..k  OBVIOUS
<1>7. /\ DOMAIN g = 1..(k + 1) /\ g[k + 1] = d /\ Len(g) = k + 1
      /\ \A i \in 1..k : g[i] = h[i]
  BY <1>5, <1>6 DEF Extends
<1>8. AF!Length(g) = b
  <2>1. g # <<>>  BY <1>7
  <2>2. AF!Length(g) = g[Len(g)].upto  BY <2>1 DEF AF!Length
  <2> QED  BY <1>5, <1>7, <2>2
<1>9. Measured(g)
  <2> SUFFICES ASSUME NEW i \in 1..(k + 1) PROVE g[i].from <= b  BY <1>7, <1>8 DEF Measured
  <2>1. CASE i = k + 1  BY <1>2, <1>5, <1>7, <2>1
  <2>2. CASE i \in 1..k
    <3>1. h[i] \in Said  BY <1>6, <2>2
    <3>2. h[i].from \in Nat /\ h[i].from <= a  BY <1>2, <1>6, <2>2, <3>1 DEF Measured, Said
    <3> QED  BY <1>2, <1>7, <2>2, <3>2
  <2>3. i = k + 1 \/ i \in 1..k  BY <1>6
  <2> QED  BY <2>1, <2>2, <2>3
<1> QED  BY <1>2, <1>3, <1>4, <1>8, <1>9

LEMMA QuestionNext ==
  ASSUME NEW h \in Seq(Said), Measured(h), NEW r \in Runs, NEW n \in Nat,
         NEW e, e = Question(h, r, n), NEW g, Extends(g, h, e)
  PROVE  /\ e \in Said /\ e.role = "user" /\ e.of = r
         /\ AF!Length(h) \in Nat /\ AF!Length(g) \in Nat /\ AF!Length(h) <= AF!Length(g)
         /\ Measured(g)
<1>1. PICK role \in {"user", "assistant"}, by \in AF!Agents \cup {"user"} :
        role = "user" /\ by = "user"
  OBVIOUS
<1>2. e = AF!NextTurn(h, role, by, r, n)  BY <1>1 DEF Question
<1> QED  BY <1>1, <1>2, SaidNext

LEMMA ReplyNext ==
  ASSUME NEW h \in Seq(Said), Measured(h), NEW a \in AF!Agents, NEW r \in Runs, NEW n \in Nat,
         NEW e, e = AF!NextTurn(h, "assistant", a, r, n), NEW g, Extends(g, h, e)
  PROVE  /\ e \in Said /\ e.role = "assistant" /\ e.by = a /\ e.of = r /\ e.from = AF!Length(h)
         /\ Measured(g)
<1>1. PICK role \in {"user", "assistant"}, by \in AF!Agents \cup {"user"} :
        role = "assistant" /\ by = a
  OBVIOUS
<1>2. e = AF!NextTurn(h, role, by, r, n)  BY <1>1
<1> QED  BY <1>1, <1>2, SaidNext

\* A session that holds what it should does so when another than Claude adds a turn.
LEMMA SessionKept ==
  ASSUME NEW h \in Seq(Said), NEW e \in Said, e.role = "user" \/ e.by # "claude",
         NEW g, g = Append(h, e), NEW i, NEW x, Session(h, i, x)
  PROVE  Session(g, i, x)
<1>1. /\ \A k \in DOMAIN h : k \in DOMAIN g /\ g[k] = h[k]
      /\ \A k \in DOMAIN g : k \in DOMAIN h \/ g[k] = e
  BY Added
<1>2. AF!Replies(g, "claude") = AF!Replies(h, "claude")  BY <1>1 DEF AF!Replies
<1>3. \A m \in AF!Replies(h, "claude") : g[m] = h[m] /\ \A j \in 1..m : g[j] = h[j]
  <2>1. \A m \in DOMAIN h : \A j \in 1..m : j \in DOMAIN h  BY Upto
  <2> QED  BY <1>1, <2>1 DEF AF!Replies
<1> QED  BY <1>2, <1>3 DEF Session, Turn

LEMMA ChatQueue ==
  ASSUME RunsInv, ChatInv, ~overlapped', NEW r \in Runs, NEW q \in Requests[r], AF!Queue(r, q)
  PROVE  ChatInv'
<1>1. PICK a : a = AF!ApplyRole(q)  OBVIOUS
<1>2. a.q.conv = q.conv /\ q.conv \in BOOLEAN  BY <1>1, RoleKept, NoneApart DEF Asking
<1>3. PICK t : /\ t = [q |-> a.q, grant |-> a.grant, hist |-> IF q.conv THEN chat.hist ELSE <<>>,
                       sid |-> IF ~q.conv THEN None ELSE IF chat.sid = None THEN r ELSE chat.sid,
                       resume |-> q.conv /\ chat.sid # None]
               /\ task' = [task EXCEPT ![r] = t]
  BY <1>1 DEF AF!Queue
<1>4. task[r] = None /\ attempt' = attempt /\ held' = held  BY DEF AF!Queue
<1>5. task'[r] = t /\ \A x \in Runs : x # r => task'[x] = task[x]
  BY <1>3 DEF RunsInv, TaskTyped
<1>6. attempt[r].end = "new"  BY <1>4 DEF RunsInv
<1>8. ShownInv'
  <2>1. \A x \in Runs : attempt'[x].end # "new" => x # r /\ task'[x] = task[x] /\ attempt'[x] = attempt[x]
    BY <1>4, <1>5, <1>6
  <2>2. ASSUME NEW x \in Runs, attempt'[x].end # "new" PROVE Informed(x, attempt[x])'
    <3>1. task'[x] = task[x] /\ attempt'[x] = attempt[x] /\ Informed(x, attempt[x])
      BY <2>1, <2>2 DEF ChatInv, ShownInv
    <3> QED  BY <3>1 DEF Informed, Converses
  <2> QED  BY <2>2 DEF ShownInv
<1>9. CASE ~q.conv
  <2>1. chat' = chat  BY <1>9 DEF AF!Queue
  <2>2. SessionInv'  BY <1>4, <2>1 DEF ChatInv, SessionInv
  <2>3. t.sid = None /\ ~t.q.conv  BY <1>2, <1>3, <1>9
  <2>4. \A x \in Runs : Converses(x)' <=> Converses(x)
    BY <1>4, <1>5, <2>3 DEF Converses
  <2>5. \A x \in Runs : Open(x)' <=> Open(x)  BY <1>4, <2>4 DEF Open
  <2>6. \A x \in Runs : Converses(x) => x # r  BY <1>4 DEF Converses
  <2>7. \A x \in Runs : Open(x) => x # r  BY <2>6 DEF Open
  <2>8. TurnInv'
    BY <1>5, <2>1, <2>3, <2>4, <2>5, <2>6, <2>7 DEF ChatInv, TurnInv
  <2> QED  BY <1>8, <2>2, <2>8 DEF ChatInv
<1>10. CASE q.conv
  <2>0. PICK h : h = chat.hist  OBVIOUS
  <2>1. PICK n \in Nat : chat' = [hist |-> Append(h, Question(h, r, n)), sid |-> t.sid]
    <3>1. Lengths \subseteq Nat  BY ServicesAssumption DEF ServicesAssumption, AF!FailoverAssumption
    <3> QED  BY <1>5, <1>10, <2>0, <3>1 DEF AF!Queue, Question
  <2>2. t.hist = h /\ t.sid = IF chat.sid = None THEN r ELSE chat.sid
    BY <1>3, <1>10, <2>0
  <2>3. t.sid \in Sids /\ t.q.conv  BY <1>2, <1>3, <1>10, <2>2 DEF ChatInv, SessionInv, Sids
  <2>5. h \in Seq(Said) /\ Measured(h) /\ Session(h, chat.sid, held)
    BY <2>0 DEF ChatInv, SessionInv
  <2>6. PICK e : e = Question(h, r, n)  OBVIOUS
  <2>7. PICK g : g = Append(h, e)  OBVIOUS
  <2>4. e \in Said /\ e.role = "user" /\ Measured(g)
    <3>1. Extends(g, h, e)  BY <2>7 DEF Extends
    <3> QED  BY <2>5, <2>6, <3>1, QuestionNext
  <2>8. SessionInv'
    <3>1. Session(h, t.sid, held)
      <4>1. AF!Replies(h, "claude") # {} => t.sid = chat.sid
        BY <2>2, <2>5, NoneApart DEF Session, Sids
      <4> QED  BY <2>5, <4>1 DEF Session
    <3>2. g \in Seq(Said)  BY <2>4, <2>5, <2>7, Added
    <3>3. Session(g, t.sid, held)  BY <2>4, <2>5, <2>7, <3>1, SessionKept
    <3>4. chat'.hist = g /\ chat'.sid = t.sid /\ chat' = [hist |-> g, sid |-> t.sid]
      BY <2>1, <2>6, <2>7
    <3> QED  BY <1>4, <2>3, <2>4, <3>2, <3>3, <3>4 DEF ChatInv, SessionInv
  <2>9. \A x \in Runs : ~Open(x)
    BY <1>10 DEF AF!Queue, AF!TurnIsOut, Open, Converses
  <2>10. \A x \in Runs : x # r => (Converses(x)' <=> Converses(x)) /\ ~Open(x)'
    BY <1>4, <1>5, <2>9 DEF Converses, Open
  <2>11. chat'.sid = t.sid /\ chat'.hist = Append(t.hist, Question(t.hist, r, n))  BY <2>1, <2>2
  <2>12. TurnInv'
    <3>1. /\ task'[r].sid \in Sids /\ task'[r].hist \in Seq(Said) /\ task'[r].q.conv
          /\ Measured(task'[r].hist)
          /\ chat'.sid = task'[r].sid
          /\ chat'.hist = Append(task'[r].hist, Question(task'[r].hist, r, n))
      BY <1>5, <2>2, <2>3, <2>5, <2>11
    <3>2. \A x \in Runs : x # r =>
            /\ Converses(x)' => task'[x].sid \in Sids /\ task'[x].hist \in Seq(Said) /\ Measured(task'[x].hist)
            /\ task'[x] # None /\ ~task'[x].q.conv => task'[x].sid = None
            /\ ~Open(x)'
      BY <1>5, <2>10 DEF ChatInv, TurnInv
    <3> QED  BY <3>1, <3>2 DEF TurnInv
  <2> QED  BY <1>8, <2>8, <2>12 DEF ChatInv
<1> QED  BY <1>2, <1>9, <1>10


\* An agent that is called in a conversation is shown all of it: Claude by its session
\* and the turns it missed, any other by the history.
LEMMA ShownAll ==
  ASSUME ChatInv, TaskTyped, NEW r \in Runs, task[r] # None, task[r].q.conv => Open(r),
         NEW a, NEW primary, task[r].q.conv => primary = "claude"
  PROVE  LET x == AF!Shown(r, a, primary)
         IN /\ task[r].q.conv => /\ AF!TurnsOf(task[r].hist) \cup {AF!UserTurn(r)} \subseteq x.ctx
                                 /\ IF a = "claude" THEN x.sid \in Sids ELSE x.sid = None
            /\ ~task[r].q.conv => x.sid = None
<1>1. PICK x : x = AF!Shown(r, a, primary)  OBVIOUS
<1>2. PICK t : t = task[r]  OBVIOUS
<1>3. CASE ~t.q.conv
  <2>1. t.sid = None  BY <1>2, <1>3 DEF ChatInv, TurnInv
  <2> QED  BY <1>1, <1>2, <1>3, <2>1 DEF AF!Shown
<1>4. CASE t.q.conv
  <2>1. t.sid \in Sids /\ t.sid # None /\ primary = "claude" /\ AF!Fresh(r) \in Sids
    BY <1>2, <1>4, NoneApart DEF ChatInv, TurnInv, Converses, Sids
  <2>2. a = primary /\ a \in AF!Resumable /\ t.sid # None <=> a = "claude"
    BY <2>1 DEF AF!Resumable
  <2>3. CASE a = "claude" /\ t.resume /\ AF!HasAnswered(t.hist, a)
    <3>1. x = [sid |-> t.sid, ctx |-> held[t.sid] \cup AF!MissedTurns(t.hist, a) \cup {AF!UserTurn(r)}]
      BY <1>1, <1>2, <2>2, <2>3 DEF AF!Shown
    <3>2. PICK h \in Seq(Said), n \in Nat :
            /\ h = t.hist /\ Measured(h) /\ chat.sid = t.sid
            /\ chat.hist = Append(h, Question(h, r, n))
      BY <1>2, <1>4 DEF ChatInv, TurnInv, Converses
    <3>3. PICK e \in Said : e = Question(h, r, n) /\ AF!Length(h) \in Nat
      <4>1. PICK e : e = Question(h, r, n)  OBVIOUS
      <4>2. PICK g : Extends(g, h, e)  BY DEF Extends
      <4>3. e \in Said /\ AF!Length(h) \in Nat  BY <3>2, <4>1, <4>2, QuestionNext
      <4> QED  BY <4>1, <4>3
    <3>4. PICK g : g = chat.hist /\ g = Append(h, e)  BY <3>2, <3>3
    <3>5. /\ \A j \in DOMAIN h : j \in DOMAIN g /\ g[j] = h[j]
          /\ \A j \in DOMAIN g : j \in DOMAIN h \/ g[j] = e
      BY <3>4, Added
    <3>6. AF!Replies(g, "claude") = AF!Replies(h, "claude")
      BY <3>3, <3>5 DEF AF!Replies, Question, AF!NextTurn
    <3>7. PICK m \in AF!Replies(h, "claude") :
            /\ \A k \in AF!Replies(h, "claude") : k <= m
            /\ \A j \in 1..m : g[m].from <= g[j].from + Room => Turn(g, j) \in held[t.sid]
      BY <2>3, <3>2, <3>4, <3>6 DEF ChatInv, SessionInv, Session, AF!HasAnswered
    <3>8. m \in DOMAIN h /\ m \in Nat /\ \A j \in 1..m : j \in DOMAIN h
      BY <3>7, Upto DEF AF!Replies
    <3>9. ASSUME NEW i \in AF!Whole(h)
          PROVE  Turn(h, i) \in held[t.sid] \cup AF!MissedTurns(h, a)
      <4>1. CASE \A k \in AF!Replies(h, a) : k < i
        BY <4>1 DEF AF!MissedTurns, AF!TurnsAt, Turn
      <4>2. CASE ~\A k \in AF!Replies(h, a) : k < i
        <5>1. PICK k \in AF!Replies(h, "claude") : ~(k < i)  BY <2>3, <4>2
        <5>2. k \in Nat /\ i \in Nat /\ 1 <= i /\ i \in DOMAIN h /\ k <= m
          BY <3>7, <5>1 DEF AF!Replies, AF!Whole
        <5>3. i \in 1..m  BY <3>8, <5>1, <5>2
        <5>4. h[m] \in Said /\ h[i] \in Said  BY <3>8, <5>2
        <5>5. h[m].from \in Nat /\ h[i].from \in Nat  BY <5>4 DEF Said
        <5>6. h[m].from <= AF!Length(h) /\ AF!Length(h) <= h[i].from + Room
          BY <3>2, <3>8 DEF Measured, AF!Whole
        <5>7. Room \in Nat  BY ServicesAssumption DEF ServicesAssumption, AF!FailoverAssumption
        <5>8. h[m].from <= h[i].from + Room  BY <3>3, <5>5, <5>6, <5>7
        <5>9. g[m] = h[m] /\ g[i] = h[i]  BY <3>5, <3>8, <5>2
        <5>10. Turn(g, i) \in held[t.sid]  BY <3>7, <5>3, <5>8, <5>9
        <5> QED  BY <5>9, <5>10 DEF Turn
      <4> QED  BY <4>1, <4>2
    <3>10. AF!TurnsOf(t.hist) \subseteq held[t.sid] \cup AF!MissedTurns(t.hist, a)
      BY <3>2, <3>9 DEF AF!TurnsOf, AF!TurnsAt, Turn
    <3> QED  BY <1>1, <1>2, <1>4, <2>1, <2>3, <3>1, <3>10
  <2>4. CASE a = "claude" /\ ~(t.resume /\ AF!HasAnswered(t.hist, a)) /\ t.hist # <<>>
    <3>1. x = [sid |-> AF!Fresh(r), ctx |-> AF!TurnsOf(t.hist) \cup {AF!UserTurn(r)}]
      BY <1>1, <1>2, <2>2, <2>4 DEF AF!Shown
    <3> QED  BY <1>1, <1>2, <1>4, <2>1, <2>4, <3>1
  <2>5. CASE a = "claude" /\ ~(t.resume /\ AF!HasAnswered(t.hist, a)) /\ t.hist = <<>>
    <3>1. x = [sid |-> t.sid, ctx |-> AF!TurnsOf(t.hist) \cup {AF!UserTurn(r)}]
      BY <1>1, <1>2, <2>2, <2>5 DEF AF!Shown
    <3> QED  BY <1>1, <1>2, <1>4, <2>1, <2>5, <3>1
  <2>6. CASE a # "claude"
    <3>1. x = [sid |-> None, ctx |-> AF!TurnsOf(t.hist) \cup {AF!UserTurn(r)}]
      BY <1>1, <1>2, <2>2, <2>6 DEF AF!Shown
    <3> QED  BY <1>1, <1>2, <1>4, <2>6, <3>1
  <2> QED  BY <2>3, <2>4, <2>5, <2>6
<1> QED  BY <1>2, <1>3, <1>4 DEF TaskTyped, Asking


LEMMA CallInforms ==
  ASSUME RunsInv, ChatInv, NEW r \in Runs, task[r] # None, attempt[r].end \in {"new", "running"},
         NEW s, IsRun(s), task[r].q.conv => s.primary = "claude"
  PROVE  Informed(r, AF!Call(r, s))
<1>1. PICK c : c = s.queue[AF!Least(DOMAIN s.queue)]  OBVIOUS
<1>2. PICK x : x = AF!Call(r, s)  OBVIOUS
<1>3. x.now = c /\ x.primary = s.primary /\ x.shown = AF!Shown(r, c[1], s.primary)
  BY <1>1, <1>2 DEF AF!Call, IsRun
<1>4. PICK y : y = AF!Shown(r, c[1], s.primary)  OBVIOUS
<1>5. Converses(r) <=> task[r].q.conv  BY DEF Converses
<1>6. TaskTyped /\ (task[r].q.conv => Open(r))  BY <1>5 DEF RunsInv, Open
<1>7. /\ task[r].q.conv => /\ AF!TurnsOf(task[r].hist) \cup {AF!UserTurn(r)} \subseteq y.ctx
                           /\ IF c[1] = "claude" THEN y.sid \in Sids ELSE y.sid = None
      /\ ~task[r].q.conv => y.sid = None
  BY <1>4, <1>6, ShownAll
<1> QED  BY <1>2, <1>3, <1>4, <1>5, <1>7 DEF Informed

\* A run that goes on, or ends without an answer, leaves the conversation as it is.
LEMMA ChatQuiet ==
  ASSUME RunsInv, ChatInv, NEW r \in Runs, task[r] # None, attempt[r].end \in {"new", "running"},
         NEW x, Informed(r, x), attempt' = [attempt EXCEPT ![r] = x],
         task' = task, chat' = chat, held' = held
  PROVE  ChatInv'
<1>1. attempt'[r] = x /\ \A y \in Runs : y # r => attempt'[y] = attempt[y]
  BY DEF RunsInv
<1>2. \A y \in Runs : (Converses(y)' <=> Converses(y)) /\ (Open(y)' => Open(y))
  BY <1>1 DEF Converses, Open
<1>3. SessionInv'  BY DEF ChatInv, SessionInv
<1>4. TurnInv'  BY <1>2 DEF ChatInv, TurnInv
<1>5. ASSUME NEW y \in Runs, attempt'[y].end # "new" PROVE Informed(y, attempt[y])'
  <2>1. CASE y = r  BY <1>1, <1>2, <2>1 DEF Informed
  <2>2. CASE y # r
    <3>1. Informed(y, attempt[y]) /\ attempt'[y] = attempt[y]
      BY <1>1, <1>5, <2>2 DEF ChatInv, ShownInv
    <3> QED  BY <1>2, <3>1 DEF Informed
  <2> QED  BY <2>1, <2>2
<1>6. ShownInv'  BY <1>5 DEF ShownInv
<1> QED  BY <1>3, <1>4, <1>6 DEF ChatInv

LEMMA ChatStart ==
  ASSUME RunsInv, ChatInv, NEW r \in Runs, AF!Start(r)
  PROVE  ChatInv'
<1>1. /\ task[r] # None /\ attempt[r].end = "new" /\ task' = task /\ chat' = chat /\ held' = held
      /\ task[r].q \in Asking
      /\ task[r].q.conv => task[r].q = [AF!plain EXCEPT !.agent = "claude", !.conv = TRUE]
  BY DEF AF!Start, RunsInv, TaskTyped
<1>2. PICK chain : chain = AF!Chain(AF!Bare(task[r].q))  OBVIOUS
<1>3. IsChain(chain) /\ DOMAIN chain # {} /\ (task[r].q.conv => chain[1][1] = "claude")
  BY <1>1, <1>2, TaskChain
<1>4. PICK s : s = First(r, chain)  OBVIOUS
<1>5. IsRun(s) /\ s.primary = chain[1][1]
  <2>1. Ready(s)  BY <1>3, <1>4, FirstReady
  <2>2. s.primary = chain[1][1]  BY <1>4 DEF First
  <2> QED  BY <2>1, <2>2 DEF Ready
<1>6. attempt' = [attempt EXCEPT ![r] = AF!Call(r, s)]
  BY <1>2, <1>4 DEF AF!Start, First, Usable, AgentsOf
<1>7. Informed(r, AF!Call(r, s))  BY <1>1, <1>3, <1>5, CallInforms
<1> QED  BY <1>1, <1>6, <1>7, ChatQuiet

\* What is shown stays as it was when a run ends.
LEMMA EndInforms ==
  ASSUME NEW r, NEW s, IsRun(s), Informed(r, s), NEW n, NEW how,
         NEW x, x = [[s EXCEPT !.cost = n] EXCEPT !.end = how]
  PROVE  Informed(r, x)
<1>1. x.primary = s.primary /\ x.shown = s.shown /\ x.now = s.now
  BY DEF IsRun
<1> QED  BY <1>1 DEF Informed

LEMMA ChatAnswered ==
  ASSUME RunsInv, ChatInv, NEW r \in Runs, attempt[r].end = "running", AF!Answered(r)
  PROVE  ChatInv'
<1>1. PICK s : s = attempt[r]  OBVIOUS
<1>2. /\ RunSound(s) /\ IsRun(s) /\ task[r] # None /\ Informed(r, s) /\ task' = task
  BY <1>1 DEF RunsInv, RunSound, ChatInv, ShownInv, AF!Answered
<1>3. PICK n : attempt' = [attempt EXCEPT ![r] = [[s EXCEPT !.cost = @ + n] EXCEPT !.end = "ok"]]
  BY <1>1 DEF AF!Answered, AF!Finish
<1>4. PICK m : m = s.cost + n  OBVIOUS
<1>5. PICK x : x = [[s EXCEPT !.cost = m] EXCEPT !.end = "ok"]  OBVIOUS
<1>6. Informed(r, x) /\ x.end = "ok" /\ attempt' = [attempt EXCEPT ![r] = x]
  <2>1. Informed(r, x)  BY <1>2, <1>5, EndInforms
  <2>3. x.end = "ok"  BY <1>2, <1>5 DEF IsRun
  <2>2. attempt' = [attempt EXCEPT ![r] = x]  BY <1>3, <1>4, <1>5
  <2> QED  BY <2>1, <2>2, <2>3
<1>7. CASE ~task[r].q.conv
  <2>1. s.shown.sid = None  BY <1>2, <1>7 DEF Informed, Converses
  <2>2. chat' = chat /\ held' = held  BY <1>1, <1>7, <2>1 DEF AF!Answered
  <2> QED  BY <1>2, <1>6, <2>2, ChatQuiet
<1>8. CASE task[r].q.conv
  <2>1. Converses(r) /\ Open(r)  BY <1>2, <1>8 DEF Converses, Open
  <2>2. PICK a \in AF!Agents : a = s.now[1]
    <3>1. s.now \in Candidates
      <4>1. PICK k \in Nat : k = Len(s.calls) /\ DOMAIN s.calls = 1..k
        BY <1>1, <1>2 DEF RunSound, Asked
      <4> QED  BY <1>1, <1>2, <4>1 DEF RunSound, Asked
    <3> QED  BY <3>1 DEF Candidates
  <2>3. PICK b \in Seq(Said), p \in Nat :
          /\ b = task[r].hist /\ Measured(b) /\ chat.hist = Append(b, Question(b, r, p))
    BY <2>1 DEF ChatInv, TurnInv
  <2>4. PICK h \in Seq(Said) : h = chat.hist /\ Measured(h)
    BY DEF ChatInv, SessionInv
  <2>5. \A y \in Runs : Open(y) => y = r  BY <2>1 DEF ChatInv, TurnInv
  <2>6. PICK u \in Said : /\ u = Question(b, r, p) /\ u.role = "user" /\ u.of = r /\ h = Append(b, u)
                          /\ AF!Length(b) \in Nat /\ AF!Length(h) \in Nat
                          /\ AF!Length(b) <= AF!Length(h)
    <3>1. PICK u : u = Question(b, r, p)  OBVIOUS
    <3>2. h = Append(b, u) /\ Extends(h, b, u)  BY <2>3, <2>4, <3>1 DEF Extends
    <3>3. /\ u \in Said /\ u.role = "user" /\ u.of = r
          /\ AF!Length(b) \in Nat /\ AF!Length(h) \in Nat /\ AF!Length(b) <= AF!Length(h)
      BY <2>3, <3>1, <3>2, QuestionNext
    <3> QED  BY <3>1, <3>2, <3>3
  <2>7. PICK l \in Nat : chat' = [hist |-> Append(h, AF!NextTurn(h, "assistant", a, r, l)),
                                  sid |-> AF!Or(s.shown.sid, chat.sid)]
    <3>1. Lengths \subseteq Nat  BY ServicesAssumption DEF ServicesAssumption, AF!FailoverAssumption
    <3> QED  BY <1>1, <1>8, <2>2, <2>4, <3>1 DEF AF!Answered
  <2>8. PICK e \in Said : /\ e = AF!NextTurn(h, "assistant", a, r, l) /\ e.role = "assistant"
                          /\ e.by = a /\ e.of = r /\ e.from = AF!Length(h)
    <3>1. PICK e : e = AF!NextTurn(h, "assistant", a, r, l)  OBVIOUS
    <3>2. PICK g : Extends(g, h, e)  BY DEF Extends
    <3>3. e \in Said /\ e.role = "assistant" /\ e.by = a /\ e.of = r /\ e.from = AF!Length(h)
      BY <2>4, <3>1, <3>2, ReplyNext
    <3> QED  BY <3>1, <3>3
  <2>9. PICK g : g = Append(h, e)  OBVIOUS
  <2>10. /\ g \in Seq(Said) /\ Measured(g) /\ \A i \in DOMAIN h : i \in DOMAIN g /\ g[i] = h[i]
         /\ \A k \in DOMAIN g : k \in DOMAIN h \/ g[k] = e
    <3>1. Extends(g, h, e)  BY <2>9 DEF Extends
    <3>2. Measured(g)  BY <2>4, <2>8, <3>1, ReplyNext
    <3> QED  BY <2>9, <3>2, Added
  <2>11. SessionInv'
    <3>1. CASE a = "claude"
      <4>1. PICK i \in Sids : i = s.shown.sid /\ i # None
        BY <1>2, <2>1, <2>2, <3>1, NoneApart DEF Informed, Sids
      <4>2. chat'.hist = g /\ chat'.sid = i /\ chat' = [hist |-> g, sid |-> i]
        BY <2>7, <2>8, <2>9, <4>1 DEF AF!Or
      <4>3. held' = [held EXCEPT ![i] = s.shown.ctx \cup {[role |-> "assistant", of |-> r]}]
        BY <1>1, <4>1 DEF AF!Answered
      <4>4. /\ DOMAIN held' = Sids
            /\ held'[i] = s.shown.ctx \cup {[role |-> "assistant", of |-> r]}
        BY <4>3 DEF ChatInv, SessionInv
      <4>5. /\ \A k \in DOMAIN h : k \in DOMAIN b \/ h[k] = u
            /\ \A k \in DOMAIN b : h[k] = b[k]
        BY <2>6, Added
      <4>6. AF!TurnsOf(b) \cup {AF!UserTurn(r)} \subseteq s.shown.ctx
        BY <1>2, <2>1, <2>3 DEF Informed
      <4>7. \A k \in AF!Whole(b) : Turn(b, k) \in s.shown.ctx
        BY <4>6 DEF AF!TurnsOf, AF!TurnsAt, Turn
      <4>8. ASSUME NEW k \in DOMAIN g, AF!Length(h) <= g[k].from + Room
            PROVE  Turn(g, k) \in held'[i]
        <5>1. CASE k \in DOMAIN b
          <6>1. g[k] = b[k] /\ b[k] \in Said  BY <2>6, <2>10, <4>5, <5>1, Added
          <6>2. b[k].from \in Nat /\ Room \in Nat
            BY <6>1, ServicesAssumption DEF ServicesAssumption, AF!FailoverAssumption, Said
          <6>3. k \in AF!Whole(b)  BY <2>6, <4>8, <5>1, <6>1, <6>2 DEF AF!Whole
          <6> QED  BY <4>4, <4>7, <6>1, <6>3 DEF Turn
        <5>2. CASE k \in DOMAIN h /\ k \notin DOMAIN b
          <6>1. g[k] = u  BY <2>10, <4>5, <5>2
          <6>2. Turn(g, k) = AF!UserTurn(r)  BY <2>6, <6>1 DEF Turn, AF!UserTurn
          <6> QED  BY <4>4, <4>6, <6>2
        <5>3. CASE k \notin DOMAIN h
          <6>1. Turn(g, k) = [role |-> "assistant", of |-> r]  BY <2>8, <2>10, <5>3 DEF Turn
          <6> QED  BY <4>4, <6>1
        <5> QED  BY <5>1, <5>2, <5>3
      <4>9. PICK last \in Nat : last = Len(g) /\ DOMAIN g = 1..last /\ g[last] = e
        <5>1. PICK k \in Nat : k = Len(h) /\ DOMAIN h = 1..k  OBVIOUS
        <5>2. DOMAIN g = 1..(k + 1) /\ g[k + 1] = e /\ Len(g) = k + 1  BY <2>9, <5>1
        <5> QED  BY <5>1, <5>2
      <4>10. last \in AF!Replies(g, "claude") /\ \A k \in AF!Replies(g, "claude") : k <= last
        <5>1. last \in DOMAIN g
          <6>1. g # <<>>  BY <2>9
          <6> QED  BY <2>10, <4>9, <6>1
        <5> QED  BY <2>8, <3>1, <4>9, <5>1 DEF AF!Replies
      <4>11. Session(g, i, held')  BY <2>8, <4>8, <4>9, <4>10 DEF Session
      <4> QED  BY <2>10, <4>2, <4>4, <4>11 DEF SessionInv
    <3>2. CASE a # "claude"
      <4>1. s.shown.sid = None  BY <1>2, <2>1, <2>2, <3>2 DEF Informed
      <4>2. chat'.hist = g /\ chat'.sid = chat.sid /\ chat' = [hist |-> g, sid |-> chat.sid]
        BY <2>7, <2>8, <2>9, <4>1 DEF AF!Or
      <4>3. held' = held  BY <1>1, <4>1 DEF AF!Answered
      <4>4. Session(h, chat.sid, held)  BY <2>4 DEF ChatInv, SessionInv
      <4>5. Session(g, chat.sid, held)  BY <2>8, <2>9, <3>2, <4>4, SessionKept
      <4> QED  BY <2>10, <4>2, <4>3, <4>5 DEF ChatInv, SessionInv
    <3> QED  BY <3>1, <3>2
  <2>12. attempt'[r] = x /\ \A y \in Runs : y # r => attempt'[y] = attempt[y]
    BY <1>6 DEF RunsInv
  <2>13. \A y \in Runs : (Converses(y)' <=> Converses(y)) /\ ~Open(y)'
    BY <1>2, <1>6, <2>5, <2>12 DEF Converses, Open
  <2>14. TurnInv'  BY <1>2, <2>13 DEF ChatInv, TurnInv
  <2>15. ASSUME NEW y \in Runs, attempt'[y].end # "new" PROVE Informed(y, attempt[y])'
    <3>1. CASE y = r  BY <1>2, <1>6, <2>12, <2>13, <3>1 DEF Informed
    <3>2. CASE y # r
      <4>1. Informed(y, attempt[y]) /\ attempt'[y] = attempt[y]
        BY <2>12, <2>15, <3>2 DEF ChatInv, ShownInv
      <4> QED  BY <1>2, <2>13, <4>1 DEF Informed
    <3> QED  BY <3>1, <3>2
  <2>16. ShownInv'  BY <2>15 DEF ShownInv
  <2> QED  BY <2>11, <2>14, <2>16 DEF ChatInv
<1> QED  BY <1>2, <1>7, <1>8 DEF RunsInv, TaskTyped, Asking


LEMMA ChatReturn ==
  ASSUME RunsInv, ChatInv, NEW r \in Runs, AF!Return(r)
  PROVE  ChatInv'
<1>1. PICK s : s = attempt[r]  OBVIOUS
<1>2. /\ RunSound(s) /\ IsRun(s) /\ s.end = "running" /\ task[r] # None /\ Informed(r, s)
  BY <1>1 DEF AF!Return, RunsInv, RunSound, ChatInv, ShownInv
<1>3. task[r].q.conv => s.primary = "claude"  BY <1>2 DEF Informed, Converses
<1>4. CASE AF!Answered(r)  BY <1>1, <1>2, <1>4, ChatAnswered
<1>5. ASSUME NEW x, Informed(r, x), attempt' = [attempt EXCEPT ![r] = x],
             task' = task, chat' = chat, held' = held
      PROVE  ChatInv'
  BY <1>1, <1>2, <1>5, ChatQuiet
<1>6. CASE AF!Stopped(r)
  <2>1. PICK n : attempt' = [attempt EXCEPT ![r] = [[s EXCEPT !.cost = @ + n] EXCEPT !.end = "stopped"]]
    BY <1>1, <1>6 DEF AF!Stopped, AF!Finish
  <2>2. PICK m : m = s.cost + n  OBVIOUS
  <2>3. PICK x : x = [[s EXCEPT !.cost = m] EXCEPT !.end = "stopped"]  OBVIOUS
  <2>4. Informed(r, x)  BY <1>2, <2>3, EndInforms
  <2>5. task' = task /\ chat' = chat /\ held' = held  BY <1>6 DEF AF!Stopped
  <2> QED  BY <1>5, <2>1, <2>2, <2>3, <2>4, <2>5
<1>7. ASSUME NEW how, AF!FailsOver(r, how) PROVE ChatInv'
  <2>1. PICK t : t = [s EXCEPT !.attempts = @ \cup {s.now[1]}]  OBVIOUS
  <2>2. PICK u : u = IF how = "text_only" THEN AF!Promote(t) ELSE t  OBVIOUS
  <2>3. IsRun(t) /\ t.primary = s.primary /\ t.now = s.now /\ t.shown = s.shown
    BY <1>2, <2>1 DEF IsRun
  <2>4. IsRun(u) /\ u.primary = s.primary /\ u.now = s.now /\ u.shown = s.shown
    <3>1. CASE how = "text_only"
      BY <2>2, <2>3, <3>1 DEF AF!Promote, AF!Promoted, IsRun
    <3>2. CASE how # "text_only"  BY <2>2, <2>3, <3>2
    <3> QED  BY <3>1, <3>2
  <2>5. Informed(r, u)  BY <1>2, <2>4 DEF Informed
  <2>6. task' = task /\ chat' = chat /\ held' = held  BY <1>7 DEF AF!FailsOver
  <2>7. PICK n :
         IF ~AF!Bare(task[r].q).failover
         THEN attempt' = [attempt EXCEPT ![r] = [[s EXCEPT !.cost = @ + n] EXCEPT !.end = "stopped"]]
         ELSE IF DOMAIN u.queue = {}
         THEN attempt' = [attempt EXCEPT ![r] = [[u EXCEPT !.cost = @ + n] EXCEPT !.end = "exhausted"]]
         ELSE attempt' = [attempt EXCEPT ![r] = AF!Call(r, [u EXCEPT !.cost = @ + n])]
    BY <1>1, <1>7, <2>1, <2>2 DEF AF!FailsOver, AF!Finish
  <2>8. CASE ~AF!Bare(task[r].q).failover
    <3>1. PICK m : m = s.cost + n  OBVIOUS
    <3>2. PICK x : x = [[s EXCEPT !.cost = m] EXCEPT !.end = "stopped"]  OBVIOUS
    <3>3. Informed(r, x)  BY <1>2, <3>2, EndInforms
    <3> QED  BY <1>5, <2>6, <2>7, <2>8, <3>1, <3>2, <3>3
  <2>9. CASE AF!Bare(task[r].q).failover /\ DOMAIN u.queue = {}
    <3>1. PICK m : m = u.cost + n  OBVIOUS
    <3>2. PICK x : x = [[u EXCEPT !.cost = m] EXCEPT !.end = "exhausted"]  OBVIOUS
    <3>3. Informed(r, x)  BY <2>4, <2>5, <3>2, EndInforms
    <3> QED  BY <1>5, <2>6, <2>7, <2>9, <3>1, <3>2, <3>3
  <2>10. CASE AF!Bare(task[r].q).failover /\ DOMAIN u.queue # {}
    <3>1. PICK m : m = u.cost + n  OBVIOUS
    <3>2. PICK v : v = [u EXCEPT !.cost = m]  OBVIOUS
    <3>3. IsRun(v) /\ v.primary = s.primary  BY <2>4, <3>2 DEF IsRun
    <3>4. PICK x : x = AF!Call(r, v)  OBVIOUS
    <3>5. Informed(r, x)  BY <1>1, <1>2, <1>3, <3>3, <3>4, CallInforms
    <3> QED  BY <1>5, <2>6, <2>7, <2>10, <3>1, <3>2, <3>4, <3>5
  <2> QED  BY <2>8, <2>9, <2>10
<1> QED  BY <1>4, <1>6, <1>7 DEF AF!Return

LEMMA ChatUnchanged == ChatInv /\ UNCHANGED <<task, attempt, chat, held>> => ChatInv'
<1> SUFFICES ASSUME ChatInv, UNCHANGED <<task, attempt, chat, held>> PROVE ChatInv'  OBVIOUS
<1>1. \A r \in Runs : (Converses(r)' <=> Converses(r)) /\ (Open(r)' <=> Open(r))
  BY DEF Converses, Open
<1>2. SessionInv'  BY DEF ChatInv, SessionInv
<1>3. TurnInv'  BY <1>1 DEF ChatInv, TurnInv
<1>4. \A r \in Runs : Informed(r, attempt[r])' <=> Informed(r, attempt[r])
  BY <1>1 DEF Informed
<1>5. ShownInv'  BY <1>4 DEF ChatInv, ShownInv
<1> QED  BY <1>2, <1>3, <1>5 DEF ChatInv

LEMMA ChatStep == RunsInv /\ ChatInv /\ [AF!Next]_afVars /\ ~overlapped' => ChatInv'
<1> SUFFICES ASSUME RunsInv, ChatInv, [AF!Next]_afVars, ~overlapped' PROVE ChatInv'  OBVIOUS
<1>1. CASE \E a \in AF!Agents : AF!CooldownEnds(a)
  BY <1>1, ChatUnchanged DEF AF!CooldownEnds
<1>2. CASE UNCHANGED afVars  BY <1>2, ChatUnchanged DEF afVars
<1> QED  BY <1>1, <1>2, ChatQueue, ChatStart, ChatReturn DEF AF!Next

LEMMA ChatKnows == RunsInv /\ ChatInv => AF!CatchesUp
<1> SUFFICES ASSUME RunsInv, ChatInv, NEW r \in Runs, attempt[r].end = "ok", task[r].q.conv
             PROVE  AF!TurnsOf(task[r].hist) \subseteq attempt[r].shown.ctx
  BY DEF AF!CatchesUp
<1>1. Converses(r) /\ Informed(r, attempt[r])
  BY DEF RunsInv, Converses, ChatInv, ShownInv
<1> QED  BY <1>1 DEF Informed

\* That turns overlapped is not forgotten.
LEMMA OverlapStays == overlapped /\ [AF!Next]_afVars => overlapped'
  BY DEF AF!Next, AF!Queue, AF!Start, AF!Return, AF!CooldownEnds, afVars

\* While a chat's turns come one after another, the agent that answers one has been
\* shown every turn before it that a transcript has room for: Claude through its session
\* and what that one lacks, any other agent through the history (agents/runner.py, claude_agent.py).
THEOREM SessionCatchesUp == AF!Spec => []CatchesUp
<1>1. AF!Init => ChatInv  BY ChatInit
<1>2. RunsInv /\ (overlapped \/ ChatInv) /\ [AF!Next]_AF!vars => (overlapped \/ ChatInv)'
  BY ChatStep, OverlapStays DEF AF!vars, afVars
<1>3. RunsInv /\ (overlapped \/ ChatInv) => CatchesUp
  BY ChatKnows DEF CatchesUp, AF!CatchesUp
<1> QED  BY <1>1, <1>2, <1>3, RunsInvariant, PTL DEF AF!Spec

===============================================================================
