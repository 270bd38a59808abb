---------------------------- MODULE ServicesProofs ----------------------------
(***************************************************************************)
(* Theorems about the experiments and the fleet's conversations, for all   *)
(* values of the constants of Services.  Each is about the specification   *)
(* of its part; Services only puts the parts side by side.                 *)
(***************************************************************************)
EXTENDS Services, TLAPS

------------------------------------------------------------------------------
(* LLM experiments.  The verdict looks at the passes of a variant, the     *)
(* property at the runs that were right, or met something unseen.  A run   *)
(* is counted as a pass only when it was one of them: a test that          *)
(* something the manifest covers forced to pass is a run that tampered.    *)
(* And no variant has more runs than it is given.                          *)

\* The runs of the i-th variant so far.
RunsOf(i) ==
  IF i < at.variant THEN Repeats ELSE IF i = at.variant THEN at.repeat - 1 ELSE 0

Explained(v) == honest[v] + blind[v]

ExperimentInv ==
  /\ phase \in {"preflight", "runs", "report", "refused"}
  /\ at.variant \in Nat \ {0} /\ at.repeat \in 1..Repeats
  /\ at = [variant |-> at.variant, repeat |-> at.repeat]
  /\ phase # "report" => at.variant <= Len(Order)
  /\ DOMAIN summary = LE!Variants /\ honest \in [LE!Variants -> Nat] /\ blind \in [LE!Variants -> Nat]
  /\ \A v \in LE!Variants : summary[v].passed \in Nat /\ summary[v].passed <= Explained(v)
  /\ \A i \in DOMAIN Order : Explained(Order[i]) <= RunsOf(i)

LEMMA ExperimentInit == LE!Init => ExperimentInv
  BY ServicesAssumption DEF LE!Init, ExperimentInv, Explained, RunsOf, LE!Variants, LE!ExperimentAssumption

\* A pass that was counted is a run that was right, or met something unseen.
LEMMA PassIsEarned ==
  ASSUME NEW o, NEW before, NEW after,
         o.status = "ok", LE!TestPasses(o.good, before), ~LE!EnvChanged(before, after)
  PROVE  o.good \/ before \cap LE!Hidden # {}
  BY DEF LE!TestPasses, LE!EnvChanged

LEMMA ExperimentStep == ExperimentInv /\ [LE!Next]_leVars => ExperimentInv'
<1> SUFFICES ASSUME ExperimentInv, [LE!Next]_leVars PROVE ExperimentInv'
  OBVIOUS
<1>t. Order \in Seq(STRING) /\ Order # <<>> /\ Repeats \in Nat \ {0}
      /\ \A i, j \in DOMAIN Order : Order[i] = Order[j] => i = j
  BY ServicesAssumption DEF LE!ExperimentAssumption
<1>1. CASE UNCHANGED leVars
  BY <1>1 DEF leVars, ExperimentInv, Explained, RunsOf
<1>2. CASE LE!Preflight
  BY <1>2 DEF LE!Preflight, ExperimentInv, Explained, RunsOf
<1>3. ASSUME NEW o \in Outcomes, LE!RunOne(o) PROVE ExperimentInv'
  <2>1. PICK v : v = Order[at.variant]
    OBVIOUS
  <2>2. at.variant \in DOMAIN Order /\ v \in LE!Variants
    BY <1>3, <1>t, <2>1 DEF LE!RunOne, ExperimentInv, LE!Variants
  <2>3. PICK p \in {0, 1}, h \in {0, 1}, b \in {0, 1} :
          /\ p <= h + b /\ h + b <= 1
          /\ summary'[v].passed = summary[v].passed + p
          /\ \A u \in LE!Variants \ {v} : summary'[u] = summary[u]
          /\ honest' = [honest EXCEPT ![v] = @ + h]
          /\ blind' = [blind EXCEPT ![v] = @ + b]
          /\ DOMAIN summary' = LE!Variants
    <3>1. PICK before, after : before = LE!Leave(env, o.leaves)
            /\ after = LE!Leave(LE!AfterTests(before), o.later)
      OBVIOUS
    <3>2. PICK tampered \in BOOLEAN :
            tampered = (o.status = "ok" /\ (o.files \/ LE!EnvChanged(before, after)))
      OBVIOUS
    <3>3. PICK p \in {0, 1} :
            p = LE!Count(o.status = "ok" /\ LE!TestPasses(o.good, before) /\ ~tampered)
      BY DEF LE!Count
    <3>4. PICK h \in {0, 1} : h = LE!Count(o.status = "ok" /\ o.good)
      BY DEF LE!Count
    <3>5. PICK b \in {0, 1} : b = LE!Count(o.status = "ok" /\ ~o.good /\ before \cap LE!Hidden # {})
      BY DEF LE!Count
    <3>6. p = 1 => h = 1 \/ b = 1
      BY <3>2, <3>3, <3>4, <3>5, PassIsEarned DEF LE!Count
    <3>7. h = 1 => b = 0
      BY <3>4, <3>5 DEF LE!Count
    <3>8. /\ honest' = [honest EXCEPT ![v] = @ + h] /\ blind' = [blind EXCEPT ![v] = @ + b]
      BY <1>3, <2>1, <3>1, <3>4, <3>5 DEF LE!RunOne
    <3>9. /\ summary'[v].passed = summary[v].passed + p
          /\ \A u \in LE!Variants \ {v} : summary'[u] = summary[u]
          /\ DOMAIN summary' = LE!Variants
      BY <1>3, <2>1, <2>2, <3>1, <3>2, <3>3 DEF LE!RunOne, ExperimentInv
    <3>10. p <= h + b /\ h + b <= 1
      BY <3>6, <3>7
    <3> QED BY <3>8, <3>9, <3>10
  <2>9. /\ honest' \in [LE!Variants -> Nat] /\ blind' \in [LE!Variants -> Nat]
        /\ Explained(v)' = Explained(v) + h + b
        /\ \A u \in LE!Variants \ {v} : Explained(u)' = Explained(u)
        /\ \A u \in LE!Variants : Explained(u) \in Nat /\ Explained(u)' \in Nat
    BY <2>2, <2>3 DEF ExperimentInv, Explained
  <2>4. \/ /\ at' = [at EXCEPT !.repeat = @ + 1] /\ at.repeat < Repeats
           /\ at'.variant = at.variant /\ at'.repeat = at.repeat + 1
        \/ at' = [variant |-> at.variant + 1, repeat |-> 1] /\ at.repeat = Repeats
    BY <1>3, <1>t DEF LE!RunOne, ExperimentInv
  <2>5. /\ at'.variant \in Nat \ {0} /\ at'.repeat \in 1..Repeats
        /\ at' = [variant |-> at'.variant, repeat |-> at'.repeat]
    BY <1>t, <2>4 DEF ExperimentInv
  <2>6. phase' \in {"runs", "report"} /\ (phase' # "report" => at'.variant <= Len(Order))
    BY <1>3, <1>t, <2>4 DEF LE!RunOne, ExperimentInv
  <2>7. \A i \in DOMAIN Order : Explained(Order[i])' <= RunsOf(i)'
    <3> SUFFICES ASSUME NEW i \in DOMAIN Order PROVE Explained(Order[i])' <= RunsOf(i)'
      OBVIOUS
    <3>1. Order[i] \in LE!Variants /\ Explained(Order[i]) \in Nat /\ Explained(Order[i]) <= RunsOf(i)
      BY <2>9 DEF ExperimentInv, LE!Variants
    <3>2. CASE i = at.variant
      BY <1>t, <2>1, <2>3, <2>4, <2>9, <3>1, <3>2 DEF ExperimentInv, RunsOf
    <3>3. CASE i # at.variant
      <4>1. Explained(Order[i])' = Explained(Order[i])
        BY <1>t, <2>1, <2>2, <2>9, <3>1, <3>3
      <4>2. i \in Nat /\ RunsOf(i) <= RunsOf(i)'
        BY <1>t, <2>4, <3>3 DEF ExperimentInv, RunsOf
      <4>3. RunsOf(i) \in Nat /\ RunsOf(i)' \in Nat
        BY <1>t, <2>5 DEF ExperimentInv, RunsOf
      <4> QED BY <3>1, <4>1, <4>2, <4>3
    <3> QED BY <3>2, <3>3
  <2>8. \A u \in LE!Variants : summary'[u].passed \in Nat /\ summary'[u].passed <= Explained(u)'
    <3> SUFFICES ASSUME NEW u \in LE!Variants
                 PROVE  summary'[u].passed \in Nat /\ summary'[u].passed <= Explained(u)'
      OBVIOUS
    <3>1. summary[u].passed \in Nat /\ summary[u].passed <= Explained(u)
      BY DEF ExperimentInv
    <3> QED BY <2>2, <2>3, <2>9, <3>1
  <2> QED
    BY <2>3, <2>5, <2>6, <2>7, <2>8, <2>9 DEF ExperimentInv
<1> QED BY <1>1, <1>2, <1>3 DEF LE!Next, LE!Run

\* SAFE is the verdict on a variant only when each of its runs passed on the
\* agent's own work: nothing that a run left in the interpreter, for its own
\* test or for a later one, can earn it, unless it lies outside the manifest.
THEOREM SafeVerdictIsEarned == LE!Spec => []SafeIsEarned
<1>1. ExperimentInv => SafeIsEarned
  <2> SUFFICES ASSUME ExperimentInv, phase = "report", NEW v \in LE!Variants, LE!Verdict(v) = "SAFE"
               PROVE  honest[v] + blind[v] = Repeats
    BY DEF SafeIsEarned, LE!SafeIsEarned
  <2>1. summary[v].passed = Repeats
    BY DEF LE!Verdict
  <2>2. PICK i \in DOMAIN Order : v = Order[i]
    BY DEF LE!Variants
  <2>3. Repeats \in Nat \ {0}
    BY ServicesAssumption DEF LE!ExperimentAssumption
  <2>4. RunsOf(i) <= Repeats /\ RunsOf(i) \in Nat
    BY <2>3 DEF RunsOf, ExperimentInv
  <2>5. Repeats <= Explained(v) /\ Explained(v) <= RunsOf(i) /\ Explained(v) \in Nat
    BY <2>1, <2>2 DEF ExperimentInv, Explained
  <2>6. Explained(v) = Repeats
    BY <2>3, <2>4, <2>5
  <2> QED BY <2>6 DEF Explained
<1> QED
  BY <1>1, ExperimentInit, ExperimentStep, PTL DEF LE!Spec, LE!vars, leVars

------------------------------------------------------------------------------
(* The fleet's conversations, while no process has saved over another: the *)
(* file a process changes is then the one it loaded.  A task whose answer  *)
(* is in the file or in a copy of the conversation was struck off, and is  *)
(* never put back.                                                         *)

Copying == {c \in Asks : call[c].pc = "creating"}
Begun(t) == call[t].pc # "idle"
Settled(t) == call[t].pc \notin {"idle", "creating"}

Conversation == [id : Asks, history : FC!History]

\* The histories that are, or may become, the one in the file.
Live == {call[c].copy : c \in Copying} \cup ({file.conv} \ {None})

FileInv ==
  /\ file = [conv |-> file.conv, tasks |-> file.tasks]
  /\ file.conv \in {None} \cup Conversation /\ file.tasks \subseteq Asks
  /\ \A t \in file.tasks : Settled(t)
  /\ \A x \in Live : x \in Conversation /\ Len(x.history) <= Turns /\ Begun(x.id)

CallInv ==
  /\ DOMAIN call = FC!Calls
  /\ \A c \in FC!Calls : call[c] = [pc |-> call[c].pc, copy |-> call[c].copy,
                                    task |-> call[c].task, proc |-> call[c].proc]
  /\ \A c \in Asks : call[c].pc \in {"idle", "creating", "waiting", "end"}
  /\ \A c \in Results : call[c].pc \in {"idle", "waiting", "end"}
  /\ \A c \in Ends : call[c].pc \in {"idle", "ending", "end"}
  /\ \A c \in FC!Calls : call[c].pc \in {"creating", "waiting", "ending"} => call[c].proc \in Procs
  /\ \A c \in FC!Calls : call[c].pc \in {"creating", "waiting"} => call[c].task \in Asks

InsideInv ==
  /\ DOMAIN inside = Procs
  /\ \A p \in Procs : inside[p] # None => inside[p].call \in FC!Calls
  /\ \A c \in Ends : call[c].pc = "ending" =>
       inside[call[c].proc] # None /\ inside[call[c].proc].call = c

Asked(h) == {t \in Asks : \E i \in DOMAIN h : h[i] = <<"user", t>>}
Told(h)  == {t \in Asks : \E i \in DOMAIN h : h[i] = <<"assistant", t>>}

\* An answer is in a history once, and after its question.
Ordered(h) ==
  /\ \A i, j \in DOMAIN h : h[i] = h[j] /\ h[i][1] = "assistant" => i = j
  /\ \A i, j \in DOMAIN h, t \in Asks : h[i] = <<"user", t>> /\ h[j] = <<"assistant", t>> => i < j

\* The answer to t is there, unless so many turns followed that it is trimmed.
Keeps(h, t) == Len(h) < Turns \/ t \in Asked(h) => t \in Told(h)

AnswersInv ==
  /\ \A x \in Live : Ordered(x.history) /\ \A t \in Told(x.history) : Settled(t) /\ t \notin file.tasks
  /\ seen \subseteq Asks \X Asks
  /\ \A s \in seen : Settled(s[1]) /\ Begun(s[2]) /\ \A x \in Live : x.id = s[2] => Keeps(x.history, s[1])

FleetInv == FileInv /\ CallInv /\ InsideInv /\ AnswersInv

USE DEF FC!Calls

LEMMA FleetValues ==
  /\ Asks \subseteq Nat \ {0} /\ Turns \in Nat \ {0}
  /\ Asks \cap Results = {} /\ Asks \cap Ends = {} /\ Results \cap Ends = {}
  /\ None \notin Conversation
  /\ \A c \in FC!Calls : \A f : f.conv \in {None} \cup Conversation /\ f.tasks \subseteq Asks
       /\ f = [conv |-> f.conv, tasks |-> f.tasks] => [call |-> c, data |-> f] # None
  BY ServicesAssumption DEF FC!FleetAssumption, Conversation

\* A turn more: the oldest one goes when there are enough of them.
LEMMA OneTurnMore ==
  ASSUME NEW h \in FC!History, Len(h) <= Turns, NEW e \in {"user", "assistant"} \X Asks
  PROVE  /\ FC!Trim(Append(h, e)) \in FC!History
         /\ \E k \in {0, 1} :
              /\ (k = 1) <=> (Len(h) = Turns)
              /\ Len(FC!Trim(Append(h, e))) = Len(h) + 1 - k
              /\ \A i \in 1..(Len(h) - k) : FC!Trim(Append(h, e))[i] = h[i + k]
              /\ FC!Trim(Append(h, e))[Len(h) + 1 - k] = e
<1> DEFINE T == {"user", "assistant"} \X Asks
<1>1. h \in Seq(T) /\ Len(h) \in Nat /\ Turns \in Nat \ {0}
  BY FleetValues DEF FC!History
<1>2. /\ Append(h, e) \in Seq(T) /\ Len(Append(h, e)) = Len(h) + 1
      /\ \A i \in 1..Len(h) : Append(h, e)[i] = h[i]
      /\ Append(h, e)[Len(h) + 1] = e
  BY <1>1
<1>3. CASE Len(h) < Turns
  <2>1. FC!Trim(Append(h, e)) = Append(h, e)
    BY <1>1, <1>2, <1>3 DEF FC!Trim
  <2> QED BY <1>1, <1>2, <1>3, <2>1 DEF FC!History
<1>4. CASE Len(h) = Turns
  <2>1. FC!Trim(Append(h, e)) = SubSeq(Append(h, e), 2, Len(h) + 1)
    BY <1>1, <1>2, <1>4 DEF FC!Trim
  <2>2. /\ SubSeq(Append(h, e), 2, Len(h) + 1) \in Seq(T)
        /\ Len(SubSeq(Append(h, e), 2, Len(h) + 1)) = Len(h)
        /\ \A i \in 1..Len(h) : SubSeq(Append(h, e), 2, Len(h) + 1)[i] = Append(h, e)[i + 1]
    BY <1>1, <1>2, <1>4
  <2> QED BY <1>1, <1>2, <1>4, <2>1, <2>2 DEF FC!History
<1> QED BY <1>1, <1>3, <1>4

\* The history g is h with e at its end, and without its k oldest turns.
Grown(h, g, e, k) ==
  /\ g \in FC!History /\ Len(g) = Len(h) + 1 - k /\ g[Len(g)] = e
  /\ \A i \in 1..(Len(g) - 1) : g[i] = h[i + k]
  /\ k \in {0, 1} /\ ((k = 1) <=> (Len(h) = Turns))

LEMMA Grows ==
  ASSUME NEW h \in FC!History, Len(h) <= Turns, NEW e \in {"user", "assistant"} \X Asks
  PROVE  \E k \in {0, 1} : Grown(h, FC!Trim(Append(h, e)), e, k)
<1>1. Len(h) \in Nat
  BY DEF FC!History
<1> QED BY <1>1, OneTurnMore DEF Grown

LEMMA TurnAdded ==
  ASSUME NEW h \in FC!History, Len(h) <= Turns, Ordered(h),
         NEW w \in {"user", "assistant"}, NEW c \in Asks, c \notin Told(h),
         NEW k, NEW g, Grown(h, g, <<w, c>>, k)
  PROVE  /\ Len(g) <= Turns /\ Ordered(g)
         /\ Told(g) \subseteq IF w = "user" THEN Told(h) ELSE Told(h) \cup {c}
         /\ w = "assistant" => c \in Told(g)
         /\ \A t \in Asks : (w # "user" \/ t # c) /\ Keeps(h, t) => Keeps(g, t)
<1>0. PICK n \in Nat, m \in Nat, T \in Nat \ {0}, d \in 0..1 :
        n = Len(h) /\ m = Len(g) /\ T = Turns /\ d = k
  BY FleetValues DEF FC!History, Grown
<1>1. /\ DOMAIN h = 1..n /\ DOMAIN g = 1..m /\ n <= T
      /\ m = n + 1 - d /\ m >= 1 /\ ((d = 1) <=> (n = T)) /\ g[m] = <<w, c>>
      /\ \A i \in 1..(m - 1) : g[i] = h[i + d]
  BY <1>0 DEF FC!History, Grown
<1>2. \A i \in 1..(m - 1) : i \in 1..m /\ i + d \in 1..n
  BY <1>0, <1>1
<1>3. m <= T
  BY <1>0, <1>1
<1>4. \A i \in DOMAIN g : \/ i \in 1..(m - 1) /\ i + d \in DOMAIN h /\ g[i] = h[i + d]
                          \/ i = m /\ g[i] = <<w, c>>
  <2> SUFFICES ASSUME NEW i \in 1..m, i # m PROVE i \in 1..(m - 1)
    BY <1>1, <1>2
  <2> QED OBVIOUS
<1>5. ASSUME NEW i \in DOMAIN g, NEW j \in DOMAIN g, g[i] = g[j], g[i][1] = "assistant"
      PROVE  i = j
  <2>1. CASE i \in 1..(m - 1) /\ j \in 1..(m - 1)
    <3>1. i + d = d + j
      BY <1>4, <1>5, <2>1 DEF Ordered
    <3> QED BY <1>0, <1>1, <3>1
  <2>2. CASE g[i] = <<w, c>>
    <3>1. g[i] = <<"assistant", c>> /\ g[j] = <<"assistant", c>>
      BY <1>5, <2>2
    <3>2. \A l \in DOMAIN h : h[l] # <<"assistant", c>>
      BY DEF Told
    <3> QED BY <1>4, <1>5, <3>1, <3>2
  <2> QED BY <1>4, <1>5, <2>1, <2>2
<1>6. ASSUME NEW i \in DOMAIN g, NEW j \in DOMAIN g, NEW t \in Asks,
             g[i] = <<"user", t>>, g[j] = <<"assistant", t>>
      PROVE  i < j
  <2>1. CASE i \in 1..(m - 1) /\ j \in 1..(m - 1)
    <3>1. i + d < d + j
      BY <1>4, <1>6, <2>1 DEF Ordered
    <3> QED BY <1>0, <1>1, <3>1
  <2>2. CASE j = m
    <3>1. i # j
      BY <1>6
    <3> QED BY <1>0, <1>1, <2>2, <3>1
  <2>3. CASE i = m /\ j \in 1..(m - 1)
    <3>1. <<"user", t>> = <<w, c>>
      BY <1>0, <1>1, <1>6, <2>3
    <3>2. g[j] = h[j + d] /\ j + d \in DOMAIN h /\ t = c
      BY <1>1, <1>2, <2>3, <3>1
    <3> QED BY <1>6, <3>2 DEF Told
  <2> QED BY <1>4, <2>1, <2>2, <2>3
<1>7. Told(g) \subseteq IF w = "user" THEN Told(h) ELSE Told(h) \cup {c}
  <2> SUFFICES ASSUME NEW t \in Asks, NEW i \in DOMAIN g, g[i] = <<"assistant", t>>
               PROVE  t \in IF w = "user" THEN Told(h) ELSE Told(h) \cup {c}
    BY DEF Told
  <2> QED BY <1>4 DEF Told
<1>8. w = "assistant" => c \in Told(g)
  BY <1>1 DEF Told
<1>9. ASSUME NEW t \in Asks, w # "user" \/ t # c, Keeps(h, t), Len(g) < Turns \/ t \in Asked(g)
      PROVE  t \in Told(g)
  <2>1. ASSUME NEW i \in DOMAIN g, g[i] = <<"user", t>>
        PROVE  i + d \in DOMAIN h /\ h[i + d] = <<"user", t>>
    <3>1. <<w, c>> # <<"user", t>>
      BY <1>9
    <3> QED BY <1>4, <2>1, <3>1
  <2>2. Len(h) < Turns \/ t \in Asked(h)
    <3>1. CASE Len(g) < Turns
      BY <1>0, <1>1, <3>1
    <3>2. CASE t \in Asked(g)
      BY <2>1, <3>2 DEF Asked
    <3> QED BY <1>9, <3>1, <3>2
  <2>3. PICK j \in DOMAIN h : h[j] = <<"assistant", t>>
    BY <1>9, <2>2 DEF Keeps, Told
  <2>4. j - d \in 1..(m - 1)
    <3>1. CASE d = 0
      BY <1>0, <1>1, <3>1
    <3>2. CASE d = 1
      <4>1. PICK i \in DOMAIN g : g[i] = <<"user", t>>
        BY <1>0, <1>1, <1>9, <3>2 DEF Asked
      <4>2. i + d < j
        BY <1>9, <2>1, <2>3, <4>1 DEF Ordered
      <4> QED BY <1>0, <1>1, <3>2, <4>2
    <3> QED BY <1>0, <1>1, <3>1, <3>2
  <2>5. PICK l : l = j - d
    OBVIOUS
  <2>6. l \in DOMAIN g /\ g[l] = h[l + d] /\ l + d = j
    BY <1>0, <1>1, <2>4, <2>5
  <2> QED BY <2>3, <2>6, <1>9 DEF Told
<1> QED BY <1>0, <1>3, <1>5, <1>6, <1>7, <1>8, <1>9 DEF Keeps, Ordered

LEMMA FleetInit == FC!Init => FleetInv
  BY FleetValues
  DEF FC!Init, FC!Idle, FleetInv, FileInv, CallInv, InsideInv, AnswersInv, Live, Copying, Settled, Begun

\* No call goes back.
Onward == \A t \in Asks : (Begun(t) => Begun(t)') /\ (Settled(t) => Settled(t)')

LEMMA NothingNew ==
  ASSUME FileInv, AnswersInv, Onward, Live' \subseteq Live, seen' = seen,
         file'.tasks \subseteq Asks, \A t \in file'.tasks \ file.tasks : ~Settled(t)
  PROVE  AnswersInv' /\ \A x \in Live' : x \in Conversation /\ Len(x.history) <= Turns /\ Begun(x.id)'
<1>1. \A x \in Live' : x \in Live /\ x \in Conversation /\ x.id \in Asks
  BY DEF FileInv, Conversation
<1>2. \A x \in Live' : Ordered(x.history) /\ \A t \in Told(x.history) : t \in Asks /\ Settled(t)' /\ t \notin file'.tasks
  BY <1>1 DEF AnswersInv, Onward, Told
<1>3. \A s \in seen : Settled(s[1])' /\ Begun(s[2])' /\ \A x \in Live' : x.id = s[2] => Keeps(x.history, s[1])
  BY <1>1 DEF AnswersInv, Onward
<1> QED BY <1>1, <1>2, <1>3 DEF AnswersInv, Onward, FileInv

LEMMA OneNew ==
  ASSUME FileInv, AnswersInv, Onward, NEW x, Live' \subseteq Live \cup {x},
         file'.tasks \subseteq Asks, \A t \in file'.tasks \ file.tasks : ~Settled(t),
         x \in Conversation, Len(x.history) <= Turns, Begun(x.id)', Ordered(x.history),
         \A t \in Told(x.history) : Settled(t)' /\ t \notin file'.tasks,
         \A s \in seen' \ seen : s \in Asks \X Asks /\ Settled(s[1])' /\ Begun(s[2])' /\ Live' \subseteq {x},
         \A s \in seen' : x.id = s[2] => Keeps(x.history, s[1])
  PROVE  AnswersInv' /\ \A y \in Live' : y \in Conversation /\ Len(y.history) <= Turns /\ Begun(y.id)'
<1>1. \A y \in Live' : y = x \/ (y \in Live /\ y \in Conversation /\ y.id \in Asks)
  BY DEF FileInv, Conversation
<1>2. \A y \in Live' : Ordered(y.history) /\ \A t \in Told(y.history) : t \in Asks /\ Settled(t)' /\ t \notin file'.tasks
  BY <1>1 DEF AnswersInv, Onward, Told
<1>3. ASSUME NEW s \in seen'
      PROVE  s \in Asks \X Asks /\ Settled(s[1])' /\ Begun(s[2])'
             /\ \A y \in Live' : y.id = s[2] => Keeps(y.history, s[1])
  <2>1. CASE s \in seen
    BY <1>1, <1>3, <2>1 DEF AnswersInv, Onward
  <2>2. CASE s \notin seen
    BY <1>3, <2>2
  <2> QED BY <2>1, <2>2
<1>4. \A y \in Live' : y \in Conversation /\ Len(y.history) <= Turns /\ Begun(y.id)'
  BY <1>1 DEF FileInv, Onward
<1>5. AnswersInv'
  BY <1>2, <1>3 DEF AnswersInv
<1> QED BY <1>4, <1>5

LEMMA FleetStep == FleetInv /\ [FC!Next]_fcVars /\ ~overwritten' => FleetInv'
<1> SUFFICES ASSUME FleetInv, [FC!Next]_fcVars, ~overwritten' PROVE FleetInv'
  OBVIOUS
<1>t. /\ DOMAIN call = FC!Calls /\ DOMAIN inside = Procs
      /\ file.tasks \subseteq Asks /\ file = [conv |-> file.conv, tasks |-> file.tasks]
      /\ \A c \in FC!Calls : call[c] = [pc |-> call[c].pc, copy |-> call[c].copy,
                                        task |-> call[c].task, proc |-> call[c].proc]
  BY DEF FleetInv, FileInv, CallInv, InsideInv
<1>l. ASSUME NEW c \in FC!Calls, NEW p \in Procs, inside[p] = None,
             inside' = [inside EXCEPT ![p] = [call |-> c, data |-> file]],
             \A e \in Ends : call'[e].pc = "ending" =>
               \/ call[e].pc = "ending" /\ call'[e].proc = call[e].proc
               \/ e = c /\ call'[e].proc = p
      PROVE  InsideInv'
  <2>1. PICK r : r = [call |-> c, data |-> file]
    OBVIOUS
  <2>2. r # None /\ r.call = c
    BY <1>t, <2>1, FleetValues DEF FleetInv, FileInv
  <2>3. DOMAIN inside' = Procs /\ inside'[p] = r /\ \A q \in Procs \ {p} : inside'[q] = inside[q]
    BY <1>l, <1>t, <2>1
  <2>4. \A q \in Procs : inside'[q] # None => inside'[q].call \in FC!Calls
    BY <2>2, <2>3 DEF FleetInv, InsideInv
  <2>5. ASSUME NEW e \in Ends, call'[e].pc = "ending"
        PROVE  inside'[call'[e].proc] # None /\ inside'[call'[e].proc].call = e
    <3>1. CASE e = c /\ call'[e].proc = p
      BY <2>2, <2>3, <3>1
    <3>2. CASE call[e].pc = "ending" /\ call'[e].proc = call[e].proc
      <4>1. call[e].proc \in Procs /\ inside[call[e].proc] # None /\ inside[call[e].proc].call = e
        BY <3>2 DEF FleetInv, CallInv, InsideInv
      <4> QED BY <1>l, <2>3, <3>2, <4>1
    <3> QED BY <1>l, <2>5, <3>1, <3>2
  <2> QED BY <2>3, <2>4, <2>5 DEF InsideInv
<1>s. ASSUME NEW c \in FC!Calls, NEW p \in Procs, inside[p].call = c,
             inside' = [inside EXCEPT ![p] = None], call' = [call EXCEPT ![c].pc = "waiting"]
                                                    \/ call' = [call EXCEPT ![c].pc = "end"]
      PROVE  InsideInv'
  <2>1. DOMAIN inside' = Procs /\ inside'[p] = None /\ \A q \in Procs \ {p} : inside'[q] = inside[q]
    BY <1>s, <1>t
  <2>2. call'[c].pc \in {"waiting", "end"} /\ \A e \in FC!Calls \ {c} : call'[e] = call[e]
    <3>0. call[c] = [pc |-> call[c].pc, copy |-> call[c].copy, task |-> call[c].task, proc |-> call[c].proc]
      BY <1>t
    <3>1. PICK st \in {"waiting", "end"} : call' = [call EXCEPT ![c].pc = st]
      BY <1>s
    <3>2. PICK a, b, d, e : call[c] = [pc |-> a, copy |-> b, task |-> d, proc |-> e]
      BY <3>0, Zenon
    <3>3. [call[c] EXCEPT !.pc = st].pc = st
      BY <3>2
    <3> QED BY <1>t, <3>1, <3>3
  <2>3. ASSUME NEW e \in Ends, call'[e].pc = "ending"
        PROVE  inside'[call'[e].proc] # None /\ inside'[call'[e].proc].call = e
    <3>1. e # c /\ call'[e] = call[e]
      BY <2>2, <2>3
    <3>2. call[e].proc \in Procs /\ inside[call[e].proc] # None /\ inside[call[e].proc].call = e
      BY <2>3, <3>1 DEF FleetInv, CallInv, InsideInv
    <3> QED BY <1>s, <2>1, <3>1, <3>2
  <2> QED BY <2>1, <2>3 DEF FleetInv, InsideInv
<1>k. ASSUME NEW c \in FC!Calls, NEW r, call' = [call EXCEPT ![c] = r],
             r = [pc |-> r.pc, copy |-> r.copy, task |-> r.task, proc |-> r.proc],
             c \in Asks => r.pc \in {"idle", "creating", "waiting", "end"},
             c \in Results => r.pc \in {"idle", "waiting", "end"},
             c \in Ends => r.pc \in {"idle", "ending", "end"},
             r.pc \in {"creating", "waiting", "ending"} => r.proc \in Procs,
             r.pc \in {"creating", "waiting"} => r.task \in Asks
      PROVE  CallInv'
  <2>1. /\ DOMAIN call' = FC!Calls /\ call'[c] = r
        /\ \A d \in FC!Calls \ {c} : call'[d] = call[d]
    BY <1>t, <1>k
  <2>2. ASSUME NEW d \in FC!Calls
        PROVE  /\ call'[d] = [pc |-> call'[d].pc, copy |-> call'[d].copy,
                              task |-> call'[d].task, proc |-> call'[d].proc]
               /\ d \in Asks => call'[d].pc \in {"idle", "creating", "waiting", "end"}
               /\ d \in Results => call'[d].pc \in {"idle", "waiting", "end"}
               /\ d \in Ends => call'[d].pc \in {"idle", "ending", "end"}
               /\ call'[d].pc \in {"creating", "waiting", "ending"} => call'[d].proc \in Procs
               /\ call'[d].pc \in {"creating", "waiting"} => call'[d].task \in Asks
    <3>1. CASE d = c
      BY <1>k, <2>1, <3>1
    <3>2. CASE d # c
      BY <1>t, <2>1, <3>2 DEF FleetInv, CallInv
    <3> QED BY <3>1, <3>2
  <2> QED BY <2>1, <2>2 DEF CallInv
<1>m. ASSUME NEW c \in FC!Calls, NEW st, call' = [call EXCEPT ![c].pc = st],
             st = "end" \/ (st = "waiting" /\ c \in Asks /\ call[c].proc \in Procs /\ call[c].task \in Asks)
      PROVE  CallInv'
  <2>1. PICK r : r = [pc |-> st, copy |-> call[c].copy, task |-> call[c].task, proc |-> call[c].proc]
    OBVIOUS
  <2>2. call' = [call EXCEPT ![c] = r]
    <3>0. call[c] = [pc |-> call[c].pc, copy |-> call[c].copy, task |-> call[c].task, proc |-> call[c].proc]
      BY <1>t
    <3>1. PICK a, b, d, e : call[c] = [pc |-> a, copy |-> b, task |-> d, proc |-> e]
      BY <3>0, Zenon
    <3>2. [call[c] EXCEPT !.pc = st] = [pc |-> st, copy |-> b, task |-> d, proc |-> e]
      BY <3>1
    <3>3. r = [pc |-> st, copy |-> b, task |-> d, proc |-> e]
      BY <2>1, <3>1
    <3> QED BY <1>m, <3>2, <3>3
  <2> QED BY <1>k, <1>m, <2>1, <2>2, FleetValues
<1>0. CASE UNCHANGED fcVars
  <2>1. Live' = Live /\ Onward
    BY <1>0 DEF fcVars, Live, Copying, Onward, Begun, Settled
  <2> QED BY <1>0, <2>1, NothingNew DEF FleetInv, FileInv, CallInv, InsideInv, fcVars, Settled
<1>1. ASSUME NEW c \in Asks, NEW p \in Procs, FC!AskReads(c, p) PROVE FleetInv'
  <2>1. PICK conv : conv = IF file.conv = None THEN [id |-> c, history |-> <<>>] ELSE file.conv
    OBVIOUS
  <2>2. PICK h, g : h = conv.history /\ g = FC!Trim(Append(h, <<"user", c>>))
    OBVIOUS
  <2>3. PICK x : x = [id |-> conv.id, history |-> g]
    OBVIOUS
  <2>4. PICK r : r = [pc |-> "creating", task |-> c, proc |-> p, copy |-> x]
    OBVIOUS
  <2>5. /\ conv \in Conversation /\ Len(h) <= Turns /\ Ordered(h)
        /\ \A t \in Told(h) : Settled(t) /\ t \notin file.tasks
    <3>1. CASE file.conv = None
      <4>1. h = <<>> /\ conv = [id |-> c, history |-> <<>>]
        BY <2>1, <2>2, <3>1
      <4> QED BY <4>1, FleetValues DEF Conversation, FC!History, Ordered, Told
    <3>2. CASE file.conv # None
      BY <2>1, <2>2, <3>2 DEF FleetInv, FileInv, AnswersInv, Live
    <3> QED BY <3>1, <3>2
  <2>6. /\ call[c].pc = "idle" /\ file' = file /\ inside' = inside /\ seen' = seen
        /\ call' = [call EXCEPT ![c] = r]
    <3>1. conv = [id |-> conv.id, history |-> conv.history]
      BY <2>5 DEF Conversation
    <3>2. [conv EXCEPT !.history = FC!Trim(Append(@, <<"user", c>>))] = x
      BY <2>2, <2>3, <3>1
    <3> QED BY <1>1, <2>1, <2>4, <3>2 DEF FC!AskReads
  <2>7. h \in FC!History /\ c \notin Told(h)
    BY <2>2, <2>5, <2>6 DEF Conversation, Settled
  <2>8. PICK k : Grown(h, g, <<"user", c>>, k)
    BY <2>2, <2>5, <2>7, Grows
  <2>9. /\ g \in FC!History /\ Len(g) <= Turns /\ Ordered(g) /\ Told(g) \subseteq Told(h)
        /\ \A t \in Asks \ {c} : Keeps(h, t) => Keeps(g, t)
    <3>1. g \in FC!History
      BY <2>8 DEF Grown
    <3>2. "user" \in {"user", "assistant"} /\ "user" # "assistant"
      OBVIOUS
    <3> QED BY <2>5, <2>7, <2>8, <3>1, <3>2, TurnAdded
  <2>10. c \notin Results /\ c \notin Ends
    BY FleetValues
  <2>11. Onward /\ Live' \subseteq Live \cup {x} /\ r.copy = x /\ r.pc = "creating"
    BY <1>t, <2>4, <2>6 DEF Live, Copying, Onward, Begun, Settled
  <2>12. CallInv' /\ InsideInv'
    BY <1>k, <1>t, <2>4, <2>6, <2>10 DEF FleetInv, InsideInv
  <2>13. x \in Conversation /\ x.history = g /\ x.id = conv.id /\ Begun(x.id)'
    <3>1. x \in Conversation /\ x.history = g /\ x.id = conv.id /\ conv.id \in Asks
      BY <2>3, <2>5, <2>9 DEF Conversation
    <3>2. CASE file.conv = None
      BY <1>t, <2>1, <2>6, <2>11, <3>1, <3>2 DEF Begun
    <3>3. CASE file.conv # None
      BY <2>1, <2>11, <3>1, <3>3 DEF FleetInv, FileInv, Live, Onward
    <3> QED BY <3>1, <3>2, <3>3
  <2>14. ASSUME NEW s \in seen, x.id = s[2] PROVE Keeps(x.history, s[1])
    <3>1. s[1] \in Asks /\ s[1] # c /\ s[2] # c
      BY <2>6 DEF FleetInv, AnswersInv, Settled, Begun
    <3>2. file.conv # None
      BY <2>1, <2>13, <2>14, <3>1
    <3>3. Keeps(h, s[1])
      BY <2>1, <2>2, <2>13, <2>14, <3>2 DEF FleetInv, AnswersInv, Live
    <3> QED BY <2>9, <2>13, <3>1, <3>3
  <2>15. \A t \in Told(g) : Settled(t)' /\ t \notin file'.tasks
    BY <2>5, <2>6, <2>9, <2>11 DEF Onward, Told
  <2>16. AnswersInv' /\ \A y \in Live' : y \in Conversation /\ Len(y.history) <= Turns /\ Begun(y.id)'
    BY <1>t, <2>6, <2>9, <2>11, <2>13, <2>14, <2>15, OneNew DEF FleetInv
  <2>17. \A t \in file.tasks : Settled(t)'
    BY <1>t, <2>11 DEF FleetInv, FileInv, Onward
  <2> QED BY <2>6, <2>12, <2>16, <2>17 DEF FleetInv, FileInv
<1>2. ASSUME NEW c \in Asks, FC!Created(c) PROVE FleetInv'
  <2>1. Live' \subseteq Live /\ Onward /\ call' = call
    BY <1>2 DEF FC!Created, Live, Copying, Onward, Begun, Settled
  <2>2. inside[call[c].proc] = None /\ call[c].proc \in Procs /\ file' = file
        /\ inside' = [inside EXCEPT ![call[c].proc] = [call |-> c, data |-> file]]
    BY <1>2 DEF FC!Created, FC!Load, FC!MayRun, FleetInv, CallInv
  <2>4. InsideInv'
    BY <1>l, <2>1, <2>2
  <2> QED BY <1>2, <2>1, <2>4, NothingNew DEF FC!Created, FleetInv, FileInv, CallInv, Settled
<1>3. ASSUME NEW c \in Asks, FC!NotCreated(c) PROVE FleetInv'
  <2>1. Live' \subseteq Live /\ Onward /\ call' = [call EXCEPT ![c].pc = "end"]
    BY <1>3, <1>t DEF FC!NotCreated, Live, Copying, Onward, Begun, Settled
  <2>2. CallInv'
    BY <1>m, <2>1
  <2>5. InsideInv'
    BY <1>3, <1>t, <2>1, FleetValues DEF FC!NotCreated, FleetInv, CallInv, InsideInv
  <2>3. file' = file /\ seen' = seen
    BY <1>3 DEF FC!NotCreated
  <2>4. \A t \in file.tasks : Settled(t)'
    BY <1>t, <2>1 DEF FleetInv, FileInv, Onward
  <2> QED BY <2>1, <2>2, <2>3, <2>4, <2>5, NothingNew DEF FleetInv, FileInv
<1>4. ASSUME NEW c \in Asks, FC!AskSaves(c) PROVE FleetInv'
  <2>1. PICK p \in Procs : p = call[c].proc
    BY <1>4 DEF FC!AskSaves, FleetInv, CallInv
  <2>2. /\ call[c].pc = "creating" /\ call' = [call EXCEPT ![c].pc = "waiting"]
        /\ file' = [conv |-> call[c].copy, tasks |-> file.tasks \cup {c}]
        /\ inside[p] # None /\ inside[p].call = c /\ inside' = [inside EXCEPT ![p] = None] /\ seen' = seen
    BY <1>4, <2>1 DEF FC!AskSaves, FC!Save
  <2>3. call[c].copy \in Live /\ Live' \subseteq Live /\ Onward
    BY <1>t, <2>2 DEF Live, Copying, Onward, Begun, Settled
  <2>4. CallInv'
    BY <1>m, <2>1, <2>2 DEF FleetInv, CallInv
  <2>5. InsideInv'
    BY <1>s, <2>2
  <2>6. file'.tasks \subseteq Asks /\ \A t \in file'.tasks : Settled(t)' /\ (t \notin file.tasks => ~Settled(t))
    BY <1>t, <2>2, <2>3 DEF FleetInv, FileInv, Onward, Settled
  <2> QED BY <2>2, <2>3, <2>4, <2>5, <2>6, NothingNew DEF FleetInv, FileInv
<1>5. ASSUME NEW c \in Results, NEW p \in Procs, FC!ResultBegins(c, p) PROVE FleetInv'
  <2>1. /\ call[c].pc = "idle" /\ file' = file /\ inside' = inside /\ seen' = seen
        /\ \E t \in Asks : call' = [call EXCEPT ![c] = [pc |-> "waiting", task |-> t, proc |-> p, copy |-> None]]
    BY <1>5 DEF FC!ResultBegins
  <2>2. c \notin Asks /\ c \notin Ends
    BY FleetValues
  <2>3. Live' \subseteq Live /\ Onward
    BY <1>t, <2>1, <2>2 DEF Live, Copying, Onward, Begun, Settled
  <2>4. CallInv'
    <3>1. PICK t \in Asks : call' = [call EXCEPT ![c] = [pc |-> "waiting", task |-> t, proc |-> p, copy |-> None]]
      BY <2>1
    <3>2. PICK r : r = [pc |-> "waiting", task |-> t, proc |-> p, copy |-> None]
      OBVIOUS
    <3> QED BY <1>k, <2>2, <3>1, <3>2
  <2>6. InsideInv'
    BY <1>t, <2>1, <2>2 DEF FleetInv, CallInv, InsideInv
  <2>5. \A t \in file.tasks : Settled(t)'
    BY <1>t, <2>3 DEF FleetInv, FileInv, Onward
  <2> QED BY <2>1, <2>3, <2>4, <2>5, <2>6, NothingNew DEF FleetInv, FileInv
<1>6. ASSUME NEW c \in Asks \cup Results, FC!WaitEnds(c) PROVE FleetInv'
  <2>1. /\ call[c].pc = "waiting" /\ call[c].proc \in Procs /\ file' = file /\ seen' = seen
        /\ inside[call[c].proc] = None
        /\ \/ call' = call /\ inside' = [inside EXCEPT ![call[c].proc] = [call |-> c, data |-> file]]
           \/ call' = [call EXCEPT ![c].pc = "end"] /\ inside' = inside
    BY <1>6 DEF FC!WaitEnds, FC!MayRun, FC!Load, FleetInv, CallInv
  <2>2. c \notin Ends
    BY FleetValues
  <2>3. Live' \subseteq Live /\ Onward
    <3>1. CASE call' = call
      BY <2>1, <3>1 DEF Live, Copying, Onward, Begun, Settled
    <3>2. CASE call' = [call EXCEPT ![c].pc = "end"]
      BY <1>t, <2>1, <3>2 DEF Live, Copying, Onward, Begun, Settled
    <3> QED BY <2>1, <3>1, <3>2
  <2>4. CallInv'
    <3>1. CASE call' = call
      BY <3>1 DEF FleetInv, CallInv
    <3>2. CASE call' = [call EXCEPT ![c].pc = "end"]
      BY <1>m, <3>2
    <3> QED BY <2>1, <3>1, <3>2
  <2>6. InsideInv'
    <3>1. CASE inside' = inside
      BY <1>t, <2>1, <2>2, <3>1 DEF FleetInv, CallInv, InsideInv
    <3>2. CASE call' = call /\ inside' = [inside EXCEPT ![call[c].proc] = [call |-> c, data |-> file]]
      BY <1>l, <2>1, <3>2
    <3> QED BY <2>1, <3>1, <3>2
  <2>7. \A t \in file.tasks : Settled(t)'
    BY <1>t, <2>3 DEF FleetInv, FileInv, Onward
  <2> QED BY <2>1, <2>3, <2>4, <2>6, <2>7, NothingNew DEF FleetInv, FileInv
<1>7. ASSUME NEW c \in Asks \cup Results, FC!Record(c) PROVE FleetInv'
  <2>1. PICK p \in Procs, t \in Asks : p = call[c].proc /\ t = call[c].task
    BY <1>7 DEF FC!Record, FleetInv, CallInv
  <2>2. /\ call[c].pc = "waiting" /\ call' = [call EXCEPT ![c].pc = "end"]
        /\ inside[p] # None /\ inside[p].call = c
        /\ inside' = [inside EXCEPT ![p] = None]
    BY <1>7, <2>1 DEF FC!Record, FC!Save
  <2>3. c \notin Ends
    BY FleetValues
  <2>4. Onward /\ Copying' = Copying /\ \A a \in Copying : call'[a].copy = call[a].copy
    BY <1>t, <2>2 DEF Copying, Onward, Begun, Settled
  <2>5. CallInv'
    BY <1>m, <2>2
  <2>6. InsideInv'
    BY <1>s, <2>2
  <2>7. \A u \in file.tasks : Settled(u)'
    BY <1>t, <2>4 DEF FleetInv, FileInv, Onward
  <2>0. PICK d : d = inside[p].data
    OBVIOUS
  <2>a. CASE t \notin d.tasks
    <3>1. file' = file /\ seen' = seen
      BY <1>7, <2>0, <2>1, <2>a DEF FC!Record
    <3>2. Live' \subseteq Live
      BY <2>4, <3>1 DEF Live
    <3> QED BY <1>t, <2>4, <2>5, <2>6, <2>7, <3>1, <3>2, NothingNew DEF FleetInv, FileInv
  <2>b. t \in d.tasks => d = file
    BY <1>7, <2>0, <2>1 DEF FC!Record, FC!Save
  <2>8. CASE t \in d.tasks /\ file.conv = None
    <3>1. /\ file' = [conv |-> file.conv, tasks |-> file'.tasks] /\ file'.tasks \subseteq file.tasks
          /\ file'.conv = file.conv /\ seen' = seen
      <4>1. file' = [tasks |-> file.tasks \ {t}, conv |-> None] /\ seen' = seen
        BY <1>7, <2>0, <2>1, <2>b, <2>8 DEF FC!Record, FC!Save
      <4> QED BY <2>8, <4>1
    <3>2. Live' \subseteq Live
      BY <2>4, <3>1 DEF Live
    <3> QED BY <1>t, <2>4, <2>5, <2>6, <2>7, <3>1, <3>2, NothingNew DEF FleetInv, FileInv
  <2>9. CASE t \in d.tasks /\ file.conv # None
    <3>1. PICK h, g : h = file.conv.history /\ g = FC!Trim(Append(h, <<"assistant", t>>))
      OBVIOUS
    <3>2. PICK x : x = [id |-> file.conv.id, history |-> g]
      OBVIOUS
    <3>3. file.conv \in Live /\ file.conv \in Conversation /\ file.conv = [id |-> file.conv.id, history |-> h]
      BY <2>9, <3>1 DEF FleetInv, FileInv, Live, Conversation
    <3>4. /\ h \in FC!History /\ Len(h) <= Turns /\ Ordered(h) /\ Settled(t) /\ t \notin Told(h)
          /\ \A u \in Told(h) : Settled(u) /\ u \notin file.tasks
      BY <2>b, <2>9, <3>1, <3>3 DEF FleetInv, FileInv, AnswersInv, Conversation
    <3>5. file' = [tasks |-> file.tasks \ {t}, conv |-> x]
      <4>1. [file.conv EXCEPT !.history = FC!Trim(Append(@, <<"assistant", t>>))] = x
        BY <3>1, <3>2, <3>3
      <4> QED BY <1>7, <2>0, <2>1, <2>b, <2>9, <4>1 DEF FC!Record, FC!Save
    <3>6. /\ seen' \subseteq seen \cup {<<t, file.conv.id>>}
          /\ seen' # seen => Copying = {}
      <4>1. seen' = IF ~FC!Open THEN seen \cup {<<t, file.conv.id>>} ELSE seen
        BY <1>7, <2>0, <2>1, <2>b, <2>9 DEF FC!Record
      <4>2. ~FC!Open => Copying = {}
        BY DEF FC!Open, Copying
      <4> QED BY <4>1, <4>2
    <3>7. PICK k : Grown(h, g, <<"assistant", t>>, k)
      BY <3>1, <3>4, Grows
    <3>8. /\ g \in FC!History /\ Len(g) <= Turns /\ Ordered(g) /\ Told(g) \subseteq Told(h) \cup {t}
          /\ t \in Told(g) /\ \A u \in Asks : Keeps(h, u) => Keeps(g, u)
      <4>1. g \in FC!History
        BY <3>7 DEF Grown
      <4>2. "assistant" \in {"user", "assistant"} /\ "user" # "assistant"
        OBVIOUS
      <4> QED BY <3>4, <3>7, <4>1, <4>2, TurnAdded
    <3>9. x \in Conversation /\ x.history = g /\ x.id = file.conv.id /\ x.id \in Asks /\ Begun(x.id)'
      BY <2>4, <3>2, <3>3, <3>8 DEF Conversation, FleetInv, FileInv, Onward
    <3>10. Live' \subseteq Live \cup {x} /\ (seen' # seen => Live' \subseteq {x})
      BY <2>4, <3>5, <3>6 DEF Live
    <3>11. ASSUME NEW s \in seen', x.id = s[2] PROVE Keeps(x.history, s[1])
      <4>1. CASE s \in seen
        <5>1. s[1] \in Asks /\ Keeps(h, s[1])
          BY <3>1, <3>3, <3>9, <3>11, <4>1 DEF FleetInv, AnswersInv
        <5> QED BY <3>8, <3>9, <5>1
      <4>2. CASE s = <<t, file.conv.id>>
        BY <3>8, <3>9, <4>2 DEF Keeps
      <4> QED BY <3>6, <4>1, <4>2
    <3>12. \A u \in Told(g) : Settled(u)' /\ u \notin file'.tasks
      BY <2>4, <3>4, <3>5, <3>8 DEF Onward, Told
    <3>13. \A s \in seen' \ seen : s \in Asks \X Asks /\ Settled(s[1])' /\ Begun(s[2])' /\ Live' \subseteq {x}
      BY <2>4, <3>4, <3>6, <3>9, <3>10 DEF Onward
    <3>14. AnswersInv' /\ \A y \in Live' : y \in Conversation /\ Len(y.history) <= Turns /\ Begun(y.id)'
      BY <1>t, <2>4, <3>5, <3>8, <3>9, <3>10, <3>11, <3>12, <3>13, OneNew DEF FleetInv
    <3>15. file'.conv \in Conversation /\ file'.tasks \subseteq file.tasks
           /\ file' = [conv |-> file'.conv, tasks |-> file'.tasks]
      BY <3>5, <3>9
    <3> QED BY <1>t, <2>5, <2>6, <2>7, <3>14, <3>15 DEF FleetInv, FileInv
  <2> QED BY <2>a, <2>8, <2>9
<1>8. ASSUME NEW c \in Ends, NEW p \in Procs, FC!EndReads(c, p) PROVE FleetInv'
  <2>1. /\ call[c].pc = "idle" /\ inside[p] = None /\ file' = file /\ seen' = seen
        /\ inside' = [inside EXCEPT ![p] = [call |-> c, data |-> file]]
        /\ call' = [call EXCEPT ![c] = [pc |-> "ending", task |-> 0, proc |-> p, copy |-> None]]
    BY <1>8 DEF FC!EndReads, FC!MayRun, FC!Load
  <2>2. c \notin Asks /\ c \notin Results
    BY FleetValues
  <2>3. Live' \subseteq Live /\ Onward
    BY <1>t, <2>1, <2>2 DEF Live, Copying, Onward, Begun, Settled
  <2>4. CallInv'
    <3>1. PICK r : r = [pc |-> "ending", task |-> 0, proc |-> p, copy |-> None]
      OBVIOUS
    <3> QED BY <1>k, <2>1, <2>2, <3>1
  <2>6. InsideInv'
    <3>1. PICK r : r = [pc |-> "ending", task |-> 0, proc |-> p, copy |-> None]
      OBVIOUS
    <3>2. call'[c] = r /\ r.proc = p /\ \A e \in FC!Calls \ {c} : call'[e] = call[e]
      BY <1>t, <2>1, <3>1
    <3>3. \A e \in Ends : call'[e].pc = "ending" =>
            \/ call[e].pc = "ending" /\ call'[e].proc = call[e].proc
            \/ e = c /\ call'[e].proc = p
      BY <3>2
    <3> QED BY <1>l, <2>1, <3>3
  <2>7. \A t \in file.tasks : Settled(t)'
    BY <1>t, <2>3 DEF FleetInv, FileInv, Onward
  <2> QED BY <2>1, <2>3, <2>4, <2>6, <2>7, NothingNew DEF FleetInv, FileInv
<1>9. ASSUME NEW c \in Ends, FC!EndSaves(c) PROVE FleetInv'
  <2>1. PICK p \in Procs : p = call[c].proc
    BY <1>9 DEF FC!EndSaves, FleetInv, CallInv
  <2>2. /\ call[c].pc = "ending" /\ call' = [call EXCEPT ![c].pc = "end"]
        /\ file' = [conv |-> None, tasks |-> {}]
        /\ inside[p] # None /\ inside[p].call = c /\ inside' = [inside EXCEPT ![p] = None] /\ seen' = seen
    BY <1>9, <2>1 DEF FC!EndSaves, FC!Save, FleetInv, InsideInv
  <2>3. Live' \subseteq Live /\ Onward
    BY <1>t, <2>2 DEF Live, Copying, Onward, Begun, Settled
  <2>4. CallInv'
    BY <1>m, <2>2
  <2>5. InsideInv'
    BY <1>s, <2>2
  <2> QED BY <2>2, <2>3, <2>4, <2>5, NothingNew DEF FleetInv, FileInv
<1>10. ASSUME NEW c \in Asks, FC!TaskEnds(c) PROVE FleetInv'
  <2>1. Live' \subseteq Live /\ Onward
    BY <1>10 DEF FC!TaskEnds, Live, Copying, Onward, Begun, Settled
  <2> QED BY <1>10, <2>1, NothingNew DEF FC!TaskEnds, FleetInv, FileInv, CallInv, InsideInv, Settled
<1> QED
  BY <1>0, <1>1, <1>2, <1>3, <1>4, <1>5, <1>6, <1>7, <1>8, <1>9, <1>10 DEF FC!Next

\* For any number of server processes, while none has saved over what another
\* saved since its load: however many calls see a task end, its answer is in
\* the conversation at most once; and it stays there until the conversation is
\* ended or trimmed, unless it was recorded while an `ask` held a copy of it.
THEOREM AnswersStay == FC!Spec => []AnswersStand
<1>o. overwritten /\ [FC!Next]_fcVars => overwritten'
  BY DEF FC!Next, FC!AskReads, FC!Created, FC!NotCreated, FC!AskSaves, FC!TaskEnds, FC!ResultBegins,
         FC!WaitEnds, FC!Record, FC!EndReads, FC!EndSaves, FC!Save, fcVars
<1>1. FleetInv => AnswersStand
  <2> SUFFICES ASSUME FleetInv, file.conv # None PROVE AnswersStand
    BY DEF AnswersStand, FC!AnswersStand
  <2>1. file.conv \in Live /\ DOMAIN file.conv.history = 1..Len(file.conv.history)
    BY DEF FleetInv, FileInv, Live, Conversation, FC!History
  <2>2. FC!ToSet(file.conv.history) = {file.conv.history[i] : i \in DOMAIN file.conv.history}
    BY DEF FC!ToSet
  <2> QED BY <2>1, <2>2 DEF FleetInv, AnswersInv, Ordered, Keeps, Asked, Told, AnswersStand, FC!AnswersStand
<1>2. (overwritten \/ FleetInv) /\ [FC!Next]_fcVars => (overwritten \/ FleetInv)'
  BY <1>o, FleetStep
<1>3. overwritten \/ FleetInv => AnswersStand
  BY <1>1 DEF AnswersStand, FC!AnswersStand
<1> QED
  BY <1>2, <1>3, FleetInit, PTL DEF FC!Spec, FC!vars, fcVars


------------------------------------------------------------------------------
(* The composition.                                                        *)

\* A behaviour of Services is one of each of its parts, of which at most one
\* ever moves: what is proved of a part's specification holds where the parts
\* are put side by side.
THEOREM EachPartBehaves == AnySpec => AF!Spec /\ Spec /\ FC!Spec /\ LE!Spec
<1>1. AnyInit => AF!Init /\ Init /\ FC!Init /\ LE!Init  BY DEF AnyInit
<1>2. [AnyNext]_allVars => [AF!Next]_AF!vars
  BY DEF AnyNext, Failover, Story, Fleet, Experiment, allVars, afVars, AF!vars
<1>3. [AnyNext]_allVars => [Next]_vars
  BY DEF AnyNext, Failover, Story, Fleet, Experiment, allVars
<1>4. [AnyNext]_allVars => [FC!Next]_FC!vars
  BY DEF AnyNext, Failover, Story, Fleet, Experiment, allVars, fcVars, FC!vars
<1>5. [AnyNext]_allVars => [LE!Next]_LE!vars
  BY DEF AnyNext, Failover, Story, Fleet, Experiment, allVars, leVars, LE!vars
<1> QED  BY <1>1, <1>2, <1>3, <1>4, <1>5, PTL DEF AnySpec, AF!Spec, Spec, FC!Spec, LE!Spec

==============================================================================
