---------------------------- MODULE StoryLifecycle ----------------------------
(***************************************************************************)
(* One story of a sprint, from its plan to the backlog's last word on it:  *)
(* the commands plan, approve, go, validate, close, accept and cancel of   *)
(* scripts/dis_agent.py, with the plan file, the backlog and sprint files  *)
(* in git and the queue's rows that are the story's evidence.  The owner   *)
(* has two terminals: a `go` runs for long in one, the other commands are  *)
(* typed in the other; meanwhile he edits the plan and the backlog.        *)
(***************************************************************************)
EXTENDS Naturals, Sequences, FiniteSets

CONSTANTS
  MaxVersions,  \* bound: contents the plan file has had
  MaxRows,      \* bound: backlog rows
  MaxTasks,     \* bound: queue rows of the story; no `go` begins when they are used up
  MaxFaults,    \* bound: failures, interruptions, edits of the files by hand
  Verdicts,     \* what testers report, of "all", "short" and "failed"
  None

StoryAssumption ==
  /\ MaxVersions \in Nat /\ MaxRows \in Nat /\ MaxTasks \in Nat /\ MaxFaults \in Nat
  /\ None \notin {"planned", "in progress", "in review", "done", "cancelled"}

VARIABLES
  plan,      \* the plan file: [ver, digest, bid, sprint], or None
  version,   \* contents the file has had; each is a new number
  repo,      \* the backlog and sprint files: the status of each row, None where it is not there
  dirty,     \* the files with uncommitted changes
  edit,      \* the edit under way in each terminal: [file, row, st, text, wrote], or None
  run,       \* the `go` under way: [ver, bid, sprint, step, row], or None
  tasks,     \* the story's rows in the queue: [kind, st, verdict]
  cmd,       \* the command under way in the other terminal, or None
  faults,
  approved,  \* history: the contents the owner approved
  ended,     \* history: the rows for which a `go` came to its end
  closures,  \* history: what each `close` was based on
  lost       \* history: the rows that an edit wrote over after they had changed since its read

history == <<approved, ended, closures, lost>>
vars == <<plan, version, repo, dirty, edit, run, tasks, cmd, faults, history>>

Files == {"backlog", "sprint"}
Ids   == 1..MaxRows
Rows  == {b \in Ids : repo.backlog[b] # None}
Closed(st) == st \in {"done", "cancelled"}

Fault == faults < MaxFaults /\ faults' = faults + 1

Init ==
  /\ plan = None /\ version = 0 /\ repo = [f \in Files |-> [b \in Ids |-> None]] /\ dirty = {}
  /\ edit = [go |-> None, cmd |-> None]
  /\ run = None /\ tasks = <<>> /\ cmd = None /\ faults = 0
  /\ approved = {} /\ ended = {} /\ closures = {} /\ lost = {}

OwnerEditsFile(f) == f \notin dirty /\ dirty' = dirty \cup {f} /\ Fault
OwnerCommits(f)   == f \in dirty /\ dirty' = dirty \ {f} /\ UNCHANGED faults

------------------------------------------------------------------------------
(* The plan file and its approval.                                         *)

\* plan: a new file, in place of the one there was.
Plan ==
  /\ version < MaxVersions /\ version' = version + 1
  /\ plan' = [ver |-> version + 1, digest |-> 0, bid |-> 0, sprint |-> FALSE]

\* The owner edits the tasks: the digest no longer matches.
OwnerEditsPlan ==
  /\ plan # None /\ version < MaxVersions /\ version' = version + 1
  /\ plan' = [plan EXCEPT !.ver = version + 1]

\* Mutant: an approval holds for whatever the plan says later.
IsMarkedApproved(p) == p.digest # 0

IsApproved(p) == p.digest = p.ver

\* approve: the file is written with its digest; then, from the copy read here,
\* the story is registered, once, and put in its sprint, once.
Approve ==
  /\ cmd = None /\ plan # None
  /\ LET p == [plan EXCEPT !.digest = plan.ver]
     IN /\ plan' = p
        /\ cmd' = IF p.bid = 0 THEN [is |-> "register", copy |-> p]
                  ELSE IF ~p.sprint THEN [is |-> "open", copy |-> p] ELSE None
  /\ approved' = approved \cup {plan.ver}

------------------------------------------------------------------------------
(* go: the story in progress, dispatched (see ScrumDispatch), in review.   *)

\* Only an approved plan runs; it runs as it was read, also when the backlog
\* cannot be updated.
Go ==
  /\ run = None /\ plan # None /\ IsApproved(plan) /\ Len(tasks) < MaxTasks
  /\ run' = [ver |-> plan.ver, bid |-> plan.bid, sprint |-> plan.sprint,
             step |-> IF plan.bid = 0 THEN "work" ELSE "in progress", row |-> 0]

Steps == {"work", "test", "review"}

Queue ==
  /\ run # None /\ run.step \in Steps /\ run.row = 0 /\ Len(tasks) < MaxTasks
  /\ tasks' = Append(tasks, [kind |-> run.step, st |-> "open", verdict |-> "none"])
  /\ run' = [run EXCEPT !.row = Len(tasks) + 1]

\* The fleet, external.  A tester reports that every criterion passed, that
\* those it names passed (short), or that one did not.
TaskEnds ==
  \E t \in DOMAIN tasks :
    /\ tasks[t].st = "open"
    /\ \/ \E v \in (IF tasks[t].kind = "test" THEN Verdicts ELSE {"none"}) :
            tasks' = [tasks EXCEPT ![t].st = "done", ![t].verdict = v] /\ UNCHANGED faults
       \/ tasks' = [tasks EXCEPT ![t].st = "failed"] /\ Fault

After(step) ==
  CASE step = "work" -> "test" [] step = "test" -> "review" [] step = "review" -> "in review"

\* The flow comes to its end, and the story is in review.
Goes(step) ==
  IF step # "in review" THEN run' = [run EXCEPT !.step = step, !.row = 0] /\ UNCHANGED ended
  ELSE /\ run' = IF run.bid = 0 THEN None ELSE [run EXCEPT !.step = step, !.row = 0]
       /\ ended' = ended \cup {run.bid}

\* A step that failed stops the flow, but for the tester's.  A plan without
\* developers has neither tester nor reviewer.
StepEnds ==
  /\ run # None /\ run.row # 0 /\ tasks[run.row].st # "open"
  /\ IF tasks[run.row].st = "failed" /\ run.step # "test" THEN run' = None /\ UNCHANGED ended
     ELSE \E s \in {After(run.step)} \cup (IF run.step = "work" THEN {"in review"} ELSE {}) : Goes(s)

\* A wait that timed out, orchestrators out of reach, Ctrl-C.
GiveUp ==
  /\ run # None /\ Fault
  /\ \/ run' = None /\ edit' = [edit EXCEPT !.go = None]
     \/ run.step = "test" /\ run' = [run EXCEPT !.step = "review", !.row = 0] /\ UNCHANGED edit

\* validate: one more tester's row, and the wait for it.
Validate ==
  /\ cmd = None /\ plan # None /\ Len(tasks) < MaxTasks
  /\ tasks' = Append(tasks, [kind |-> "test", st |-> "open", verdict |-> "none"])
  /\ cmd' = [is |-> "validate", row |-> Len(tasks) + 1]

Validated ==
  /\ cmd # None /\ cmd.is = "validate" /\ tasks[cmd.row].st # "open" /\ cmd' = None
  /\ UNCHANGED tasks

------------------------------------------------------------------------------
(* The sprint review.                                                      *)

Testers == {t \in DOMAIN tasks : tasks[t].kind = "test"}

\* story_evidence: the latest tester's verdict.
Verdict ==
  IF Testers = {} THEN "none"
  ELSE LET last == CHOOSE t \in Testers : \A u \in Testers : u <= t IN tasks[last].verdict

\* `passed`, as close computes it: without the number of criteria.
Passed(verdict) == verdict \in {"all", "short"}

Reviewed == \E t \in DOMAIN tasks : tasks[t].kind = "review" /\ tasks[t].st = "done"

Problems ==
  \/ tasks = <<>> \/ \E t \in DOMAIN tasks : tasks[t].st # "done"
  \/ ~Reviewed \/ ~Passed(Verdict)

\* close shows the evidence and asks; problems need --force.
Close ==
  /\ cmd = None /\ plan # None /\ plan.bid # 0
  /\ cmd' = [is |-> "close", bid |-> plan.bid, sprint |-> plan.sprint,
             force |-> Problems, verdict |-> Verdict]

\* Mutant: a row is closed whatever its status.
MayCloseAny(b) == TRUE

\* close_story: only a row that is in review, as the file was before the edit.
MayClose(b) == repo.backlog[b] = "in review"

Confirm ==
  /\ cmd # None /\ cmd.is = "close"
  /\ cmd' = IF MayClose(cmd.bid) THEN [cmd EXCEPT !.is = "closing"] ELSE None

Leave == cmd # None /\ cmd.is = "close" /\ cmd' = None

\* accept: on the owner's own evidence.
Accept(b) == cmd = None /\ MayClose(b) /\ cmd' = [is |-> "accept", bid |-> b]

Cancel(b) == cmd = None /\ cmd' = [is |-> "cancel", bid |-> b]

\* The terminal is closed half-way through a command.
Interrupt == cmd # None /\ cmd.is # "close" /\ Fault /\ cmd' = None /\ edit' = [edit EXCEPT !.cmd = None]

------------------------------------------------------------------------------
(* edit_file: a file in git is read, written and committed, with no lock   *)
(* against the other terminal.                                             *)

Terminals == {"go", "cmd"}

At(f, b, st) == [file |-> f, row |-> b, st |-> st]

\* A story that is already in its sprint is left as it is there.
Opened(b) == IF repo.sprint[b] = None THEN "planned" ELSE repo.sprint[b]

\* The edit that each command has come to.
Edit(w) ==
  IF w = "go"
  THEN CASE run.step = "mark progress" -> At("sprint", run.bid, "in progress")
         [] run.step = "mark review"   -> At("sprint", run.bid, "in review")
         [] OTHER                      -> At("backlog", run.bid, run.step)
  ELSE CASE cmd.is = "register"              -> At("backlog", Cardinality(Rows) + 1, "planned")
         [] cmd.is = "open"                  -> At("sprint", cmd.copy.bid, Opened(cmd.copy.bid))
         [] cmd.is \in {"closing", "accept"} -> At("backlog", cmd.bid, "done")
         [] cmd.is = "cancel"                -> At("backlog", cmd.bid, "cancelled")
         [] cmd.is = "mark"                  -> At("sprint", cmd.bid, cmd.st)

Editing(w) ==
  IF w = "go" THEN run # None /\ run.step \notin Steps
  ELSE cmd # None /\ cmd.is \in {"register", "open", "closing", "accept", "cancel", "mark"}

\* What the command does when the edit has worked, or has failed.  `go` goes on
\* either way; a mark in the sprint file must not break the flow.
GoGoesOn ==
  LET next == IF run.step = "in progress" THEN IF run.sprint THEN "mark progress" ELSE "work"
              ELSE IF run.step = "mark progress" THEN "work"
              ELSE IF run.step = "in review" /\ run.sprint THEN "mark review" ELSE None
  IN /\ run' = IF next = None THEN None ELSE [run EXCEPT !.step = next]
     /\ UNCHANGED <<plan, cmd, closures>>

\* The mark in the sprint file: in the one the plan names, or the row is found in.
MarkNext(b, st, named) ==
  IF named THEN [is |-> "mark", bid |-> b, st |-> st] ELSE None

CmdGoesOn(b, ok) ==
  LET p == IF cmd.is = "register" THEN [cmd.copy EXCEPT !.bid = b] ELSE [cmd.copy EXCEPT !.sprint = TRUE]
  IN /\ plan' = IF ok /\ cmd.is \in {"register", "open"} THEN p ELSE plan
     /\ closures' = IF ok /\ cmd.is = "closing"
                    THEN closures \cup {[bid |-> b, force |-> cmd.force, verdict |-> cmd.verdict]}
                    ELSE closures
     /\ cmd' = IF ~ok THEN None
               ELSE CASE cmd.is = "register" -> [is |-> "open", copy |-> p]
                      [] cmd.is = "closing"  -> MarkNext(b, "done", cmd.sprint)
                      [] cmd.is = "accept"   -> MarkNext(b, "done", repo.sprint[b] # None)
                      [] cmd.is = "cancel"   -> MarkNext(b, "cancelled", repo.sprint[b] # None)
                      [] OTHER               -> None
  /\ UNCHANGED run

GoesOn(w, b, ok) == IF w = "go" THEN GoGoesOn ELSE CmdGoesOn(b, ok)

\* Mutant: any row is given any status.
MayBeSetAny(text, b) == b \in Ids /\ text[b] # None

\* set_status: only a row that is there and not closed.
MayBeSet(text, b) == b \in Ids /\ text[b] # None /\ ~Closed(text[b])

\* add_story, in the backlog and in the sprint file.
MayBeAdded(text, b, st) == b \in Ids /\ text[b] \in {None, st}

Written(w) == edit[w] # None /\ edit[w].wrote

\* git status, then the text: refused over uncommitted changes, unless the other
\* terminal wrote them after the check.
EditReads(w) ==
  /\ Editing(w) /\ edit[w] = None
  /\ LET e    == Edit(w)
         text == repo[e.file]
         may  == IF w = "cmd" /\ cmd.is \in {"register", "open"} THEN MayBeAdded(text, e.row, e.st)
                 ELSE MayBeSet(text, e.row)
         other == \E v \in Terminals \ {w} : Written(v) /\ edit[v].file = e.file
     IN \/ /\ may /\ (e.file \in dirty => other)
           /\ edit' = [edit EXCEPT ![w] = [file |-> e.file, row |-> e.row, st |-> e.st,
                                            text |-> text, wrote |-> FALSE]]
           /\ UNCHANGED <<plan, run, cmd, closures>>
        \/ /\ ~may \/ e.file \in dirty
           /\ GoesOn(w, e.row, FALSE) /\ UNCHANGED edit

\* The whole file is written, as it was read but for the row.  An edit that
\* changes no status may leave the text of the last commit.
EditWrites(w) ==
  /\ edit[w] # None /\ ~edit[w].wrote
  /\ LET e == edit[w]
     IN /\ repo' = [repo EXCEPT ![e.file] = [e.text EXCEPT ![e.row] = e.st]]
        /\ dirty' \in {dirty \cup {e.file}} \cup (IF e.text[e.row] = e.st THEN {dirty \ {e.file}} ELSE {})
        /\ lost' = lost \cup {b \in Ids : repo[e.file][b] # e.text[b]}
  /\ edit' = [edit EXCEPT ![w].text = None, ![w].wrote = TRUE]

\* The commit: it fails when there is nothing to commit any more; when it fails
\* otherwise the new text stays in the checkout.
EditCommits(w) ==
  /\ Written(w) /\ edit' = [edit EXCEPT ![w] = None]
  /\ LET f == edit[w].file
     IN \/ f \in dirty /\ dirty' = dirty \ {f} /\ GoesOn(w, edit[w].row, TRUE) /\ UNCHANGED faults
        \/ f \notin dirty /\ GoesOn(w, edit[w].row, FALSE) /\ UNCHANGED <<dirty, faults>>
        \/ f \in dirty /\ Fault /\ GoesOn(w, edit[w].row, FALSE) /\ UNCHANGED dirty

------------------------------------------------------------------------------

Next ==
  \/ (\E f \in Files : OwnerEditsFile(f) \/ OwnerCommits(f))
       /\ UNCHANGED <<plan, version, repo, edit, run, tasks, cmd, history>>
  \/ (Plan \/ OwnerEditsPlan) /\ UNCHANGED <<repo, dirty, edit, run, tasks, cmd, faults, history>>
  \/ Approve /\ UNCHANGED <<version, repo, dirty, edit, run, tasks, faults, ended, closures, lost>>
  \/ Go /\ UNCHANGED <<plan, version, repo, dirty, edit, tasks, cmd, faults, history>>
  \/ Queue /\ UNCHANGED <<plan, version, repo, dirty, edit, cmd, faults, history>>
  \/ TaskEnds /\ UNCHANGED <<plan, version, repo, dirty, edit, run, cmd, history>>
  \/ StepEnds /\ UNCHANGED <<plan, version, repo, dirty, edit, tasks, cmd, faults, approved, closures, lost>>
  \/ GiveUp /\ UNCHANGED <<plan, version, repo, dirty, tasks, cmd, history>>
  \/ (Validate \/ Validated) /\ UNCHANGED <<plan, version, repo, dirty, edit, run, faults, history>>
  \/ (Close \/ Confirm \/ Leave \/ \E b \in Rows : Accept(b) \/ Cancel(b))
       /\ UNCHANGED <<plan, version, repo, dirty, edit, run, tasks, faults, history>>
  \/ Interrupt /\ UNCHANGED <<plan, version, repo, dirty, run, tasks, history>>
  \/ (\E w \in Terminals : EditReads(w))
       /\ UNCHANGED <<version, repo, dirty, tasks, faults, approved, ended, lost>>
  \/ (\E w \in Terminals : EditWrites(w))
       /\ UNCHANGED <<plan, version, run, tasks, cmd, faults, approved, ended, closures>>
  \/ (\E w \in Terminals : EditCommits(w))
       /\ UNCHANGED <<version, repo, tasks, approved, ended, lost>>

Spec == Init /\ [][Next]_vars

------------------------------------------------------------------------------
(* Properties.                                                             *)

\* "Editing the tasks afterwards voids it": what a `go` queues is a content of
\* the plan that the owner approved, however the file changes meanwhile.
OnlyApprovedRuns == run # None => run.ver \in approved

\* A story that `close` closed, forced or not, is one for which a `go` came to
\* its end: the evidence of another row of the same story never closes it.
ClosedAfterARun == \A c \in closures : c.bid \in ended

\* What the owner closed or cancelled stays so, also when a `go` that was under
\* way comes to its end; and the sprint file never closes a story first.  Only an
\* edit that read the file before another terminal wrote it takes a row back.
ClosedStaysClosed ==
  [][\A b \in Ids \ lost' :
       /\ Closed(repo.backlog[b]) => repo'.backlog[b] = repo.backlog[b]
       /\ Closed(repo.sprint[b]) => repo'.sprint[b] = repo.sprint[b]
       /\ Closed(repo'.sprint[b]) => repo'.sprint[b] = repo'.backlog[b]]_vars

\* "Not a pass: dis-agent close will refuse": a validation that leaves criteria
\* out is no pass, and does not close a story without --force.
IncompleteIsRefused == \A c \in closures : ~c.force => c.verdict # "short"
==============================================================================
