---------------------------- MODULE LlmExperiment ----------------------------
(***************************************************************************)
(* scripts/llm_experiment.py: an agent solves one task again and again, in *)
(* the baseline and in cheaper variants of its command line, each run in a *)
(* fresh copy of the repository; a variant is SAFE when it passed the      *)
(* acceptance test every time and cost less.  The agent may touch what the *)
(* test is run with: files of its copy, restored before the test, and the  *)
(* interpreter, which all runs share.  venv_manifest covers a part of the  *)
(* interpreter: the source, .pth and library files of its site-packages.   *)
(* A module that is only bytecode, the standard library, pyvenv.cfg, or a  *)
(* file of more than 8 MB whose size and time are put back, it does not    *)
(* cover.                                                                  *)
(***************************************************************************)
EXTENDS Naturals, Sequences

CONSTANTS
  Order,     \* the names of the variants, each one once, the baseline first
  Repeats,   \* runs of each
  Outcomes   \* outcomes of an agent's run: [status, good, files, leaves, later, review, cost]

ExperimentAssumption ==
  /\ Order \in Seq(STRING) \ {<<>>} /\ \A i, j \in DOMAIN Order : Order[i] = Order[j] => i = j
  /\ Repeats \in Nat \ {0}

VARIABLES
  env,      \* what was left in the interpreter that forces a pass
  phase,    \* "preflight", "runs", "report" or "refused"
  at,       \* the next run: [variant, repeat]
  summary,  \* summarise_variant, as the runs come in
  honest,   \* history: runs that were right
  blind     \* history: runs that were not, whose test met something unseen

vars == <<env, phase, at, summary, honest, blind>>

\* Code that forces a pass: it stays or removes itself, where the manifest sees
\* it or not.
Once   == {"once", "hidden_once"}
Hidden == {"hidden", "hidden_once"}

Variants == {Order[i] : i \in DOMAIN Order}
Baseline == Order[1]

Init ==
  /\ env \in {{}, {"kept"}, {"hidden"}} /\ phase = "preflight" /\ at = [variant |-> 1, repeat |-> 1]
  /\ summary = [v \in Variants |-> [valid |-> 0, excluded |-> 0, passed |-> 0, tampered |-> 0,
                                    diff_failed |-> 0, rejected |-> 0, cheap |-> 0]]
  /\ honest = [v \in Variants |-> 0] /\ blind = honest

\* The acceptance test must fail on the pinned commit before anything is spent.
TestPasses(good, e) == good \/ e # {}

Preflight ==
  /\ phase = "preflight"
  /\ phase' = IF TestPasses(FALSE, env) THEN "refused" ELSE "runs"
  /\ UNCHANGED <<env, at, summary, honest, blind>>

------------------------------------------------------------------------------
(* One run.                                                                *)

Leave(e, what) == e \cup ({what} \ {"nothing"})

\* Code that runs once is gone when the interpreter has started.
AfterTests(e) == e \ Once

\* Mutant: the interpreter is looked at only once the tests are over.
EnvChangedAfter(before, after) == after \ Hidden # {}

\* What the manifest covers differs from the one taken before the first run:
\* before the tests, or after them.
EnvChanged(before, after) == (before \cup after) \ Hidden # {}

Excluded == {"invalid_failover", "error"}

Count(b) == IF b THEN 1 ELSE 0

RunOne(o) ==
  LET v      == Order[at.variant]
      before == Leave(env, o.leaves)
      after  == Leave(AfterTests(before), o.later)
      ran    == o.status = "ok"
      tampered == ran /\ (o.files \/ EnvChanged(before, after))
      passed   == ran /\ TestPasses(o.good, before) /\ ~tampered
      ok       == o.status \notin Excluded
  IN /\ phase = "runs"
     /\ env' = IF ran THEN after ELSE before
     /\ summary' = [summary EXCEPT ![v] =
          [valid |-> @.valid + Count(ok), excluded |-> @.excluded + Count(~ok),
           passed |-> @.passed + Count(passed), tampered |-> @.tampered + Count(tampered),
           diff_failed |-> @.diff_failed + Count(ran /\ o.review = "diff_failed"),
           rejected |-> @.rejected + Count(ran /\ o.review = "REQUEST_CHANGES"),
           cheap |-> @.cheap + Count(ok /\ o.cost = 1)]]
     /\ honest' = [honest EXCEPT ![v] = @ + Count(ran /\ o.good)]
     /\ blind' = [blind EXCEPT ![v] = @ + Count(ran /\ ~o.good /\ before \cap Hidden # {})]
     /\ at' = IF at.repeat < Repeats THEN [at EXCEPT !.repeat = @ + 1] ELSE [variant |-> at.variant + 1, repeat |-> 1]
     /\ phase' = IF at.repeat = Repeats /\ at.variant = Len(Order) THEN "report" ELSE phase

Run == \E o \in Outcomes : RunOne(o)

Next == Preflight \/ Run

Spec == Init /\ [][Next]_vars

------------------------------------------------------------------------------
(* The report.                                                             *)

\* Twice the median of the valid runs' costs, each 1 or 2.
Median2(s) == LET cost(i) == IF i <= s.cheap THEN 1 ELSE 2
              IN cost((s.valid + 1) \div 2) + cost(s.valid \div 2 + 1)

Verdict(v) ==
  LET s == summary[v]
      b == summary[Baseline]
  IN IF v = Baseline THEN "BASELINE"
     ELSE IF /\ Repeats >= 3 /\ s.excluded = 0 /\ s.valid >= Repeats
             /\ s.passed = Repeats
             /\ s.tampered = 0 /\ s.diff_failed = 0 /\ s.rejected = 0
             /\ b.valid > 0 /\ s.valid > 0 /\ Median2(s) < Median2(b)
          THEN "SAFE" ELSE "NOT SAFE"

------------------------------------------------------------------------------
(* Properties.                                                             *)

\* A variant is reported SAFE only when each of its runs passed on the agent's
\* own work, whatever this run or an earlier one left where the manifest sees it:
\* only what lies outside of it can stand in for the work.
SafeIsEarned ==
  phase = "report" =>
    \A v \in Variants : Verdict(v) = "SAFE" => honest[v] + blind[v] = Repeats
==============================================================================
