------------------------- MODULE StoryLifecycleProofs -------------------------
(***************************************************************************)
(* What StoryLifecycle promises, for every number of plan versions, rows,  *)
(* tasks and failures: only approved plans run, a story is closed only     *)
(* after a `go` of its own came to its end, and stays closed unless an     *)
(* edit wrote over it that had read the file before.                       *)
(***************************************************************************)
EXTENDS StoryLifecycle, TLAPS

Statuses == {"planned", "in progress", "in review", "done", "cancelled"}
Text == [Ids -> Statuses \cup {None}]
PlanRecord == [ver : Nat \ {0}, digest : Nat, bid : 0..MaxRows, sprint : BOOLEAN]
EditRecord == [file : Files, row : Ids, st : Statuses, text : Text \cup {None}, wrote : BOOLEAN]

\* The copy of the plan that approve carries from step to step.
Approving == cmd # None /\ cmd.is \in {"register", "open"}

Shape ==
  /\ version \in Nat /\ repo \in [Files -> Text]
  /\ plan # None => plan \in PlanRecord
  /\ run # None =>
       /\ run = [ver |-> run.ver, bid |-> run.bid, sprint |-> run.sprint, step |-> run.step, row |-> run.row]
       /\ run.bid \in 0..MaxRows
       /\ run.step \in Steps \cup {"in progress", "mark progress", "in review", "mark review"}
       /\ run.step \notin Steps => run.row = 0
  /\ Approving => cmd.copy \in PlanRecord
  /\ cmd # None /\ cmd.is \in {"close", "closing", "accept", "cancel", "mark"} => cmd.bid \in Ids
  /\ cmd # None /\ cmd.is = "close" =>
       cmd = [is |-> "close", bid |-> cmd.bid, sprint |-> cmd.sprint, force |-> cmd.force,
              verdict |-> cmd.verdict]

\* A digest is that of an approved content, in the file and in the copies.
Digests ==
  /\ plan # None => plan.digest \in approved \cup {0}
  /\ Approving => cmd.copy.digest \in approved \cup {0}
  /\ OnlyApprovedRuns

\* The backlog bk says so, or an edit has written over it (lo: the rows lost so).
Settled(b, st, bk, lo) == b \in lo \/ bk[b] = st

\* An edit that has read and not written: the row it changes was not closed, and
\* the sprint file is to say no more than the backlog.
Pending(e, bk, en, lo) ==
  /\ e.text \in Text
  /\ Closed(e.text[e.row]) => e.text[e.row] = e.st
  /\ e.file = "backlog" =>
       /\ e.st = "in review" => e.row \in en
       /\ \A b \in Ids : e.text[b] = "in review" => b \in en
  /\ e.file = "sprint" /\ Closed(e.st) => e.text[e.row] = e.st \/ Settled(e.row, e.st, bk, lo)

EditSound(e, bk, en, lo) ==
  /\ e \in EditRecord
  /\ ~e.wrote => Pending(e, bk, en, lo)
  /\ e.wrote /\ e.file = "backlog" /\ Closed(e.st) => Settled(e.row, e.st, bk, lo)

\* An edit is that of the command in its terminal; a mark follows the backlog.
EditsSound ==
  /\ edit = [w \in Terminals |-> edit[w]]
  /\ \A w \in Terminals :
       edit[w] # None => Editing(w) /\ EditSound(edit[w], repo.backlog, ended, lost)
  /\ edit["cmd"] # None /\ cmd.is \in {"closing", "accept", "cancel"} =>
       /\ edit["cmd"].file = "backlog" /\ edit["cmd"].row = cmd.bid
       /\ edit["cmd"].st = IF cmd.is = "cancel" THEN "cancelled" ELSE "done"
  /\ cmd # None /\ cmd.is = "mark" =>
       cmd.st \in {"done", "cancelled"} /\ Settled(cmd.bid, cmd.st, repo.backlog, lost)

\* A row is in review only after a `go` for it came to its end.
InReviewEnded ==
  /\ \A b \in Ids : repo.backlog[b] = "in review" => b \in ended
  /\ run # None /\ run.step = "in review" => run.bid \in ended
  /\ cmd # None /\ cmd.is = "closing" => cmd.bid \in ended
  /\ ClosedAfterARun

\* The sprint file closes no story on its own.
SprintFollows == \A b \in Ids \ lost : Closed(repo.sprint[b]) => repo.sprint[b] = repo.backlog[b]

IInv == Shape /\ Digests /\ EditsSound /\ InReviewEnded /\ SprintFollows

Keeps ==
  \A b \in Ids \ lost' :
    /\ Closed(repo.backlog[b]) => repo'.backlog[b] = repo.backlog[b]
    /\ Closed(repo.sprint[b]) => repo'.sprint[b] = repo.sprint[b]
    /\ Closed(repo'.sprint[b]) => repo'.sprint[b] = repo'.backlog[b]

------------------------------------------------------------------------------
(* What an edit that is under way may rely on.                             *)

\* An edit stays sound while closed rows of the backlog stay as they are.
LEMMA SoundLater ==
  ASSUME NEW e, NEW bk, NEW en, NEW lo, NEW bk2, NEW en2, NEW lo2,
         EditSound(e, bk, en, lo), en \subseteq en2, lo \subseteq lo2,
         \A b \in Ids \ lo2 : Closed(bk[b]) => bk2[b] = bk[b]
  PROVE  EditSound(e, bk2, en2, lo2)
<1>1. e.row \in Ids BY DEF EditSound, EditRecord
<1>2. ASSUME Closed(e.st), Settled(e.row, e.st, bk, lo) PROVE Settled(e.row, e.st, bk2, lo2)
  BY <1>1, <1>2 DEF Settled
<1>3. ASSUME Pending(e, bk, en, lo) PROVE Pending(e, bk2, en2, lo2)
  BY <1>2, <1>3 DEF Pending
<1> QED BY <1>2, <1>3 DEF EditSound

\* A step that leaves both files alone leaves what is said of their rows.
LEMMA FilesUntouched ==
  ASSUME IInv, UNCHANGED <<repo, lost>>, ended \subseteq ended'
  PROVE  /\ SprintFollows' /\ Keeps
         /\ \A b \in Ids : repo'.backlog[b] = "in review" => b \in ended'
<1>1. SprintFollows' /\ Keeps BY DEF IInv, SprintFollows, Keeps
<1> QED BY <1>1 DEF IInv, InReviewEnded

\* Such a step keeps the edits sound when it begins none, ends them with their
\* command, and gives the command no mark to make.
LEMMA EditsFollow ==
  ASSUME IInv, UNCHANGED <<repo, lost>>, ended \subseteq ended',
         edit' = [w \in Terminals |-> edit'[w]],
         \A w \in Terminals : edit'[w] # None => edit'[w] = edit[w] /\ Editing(w)',
         edit'["cmd"] # None => cmd' = cmd,
         cmd' # None /\ cmd'.is = "mark" => cmd' = cmd
  PROVE  EditsSound'
<1>1. ASSUME NEW w \in Terminals, edit'[w] # None
      PROVE  EditSound(edit'[w], repo'.backlog, ended', lost')
  <2>1. edit'[w] = edit[w] /\ EditSound(edit[w], repo.backlog, ended, lost)
    BY <1>1 DEF IInv, EditsSound
  <2>2. \A b \in Ids \ lost' : Closed(repo.backlog[b]) => repo'.backlog[b] = repo.backlog[b]
    OBVIOUS
  <2> QED BY <2>1, <2>2, SoundLater
<1>2. "cmd" \in Terminals BY DEF Terminals
<1>3. edit'["cmd"] # None => edit'["cmd"] = edit["cmd"] /\ cmd' = cmd BY <1>2
<1> QED BY <1>1, <1>3 DEF IInv, EditsSound

\* A step that changes neither the edits nor the commands.
LEMMA EditsUntouched ==
  ASSUME IInv, UNCHANGED <<repo, lost, edit, run, cmd>>, ended \subseteq ended'
  PROVE  EditsSound'
<1>1. \A w \in Terminals : edit'[w] # None => edit'[w] = edit[w] /\ Editing(w)'
  BY DEF IInv, EditsSound, Editing
<1>2. edit' = [w \in Terminals |-> edit'[w]] BY DEF IInv, EditsSound
<1> QED BY <1>1, <1>2, EditsFollow

\* The terminal of `go` edits no file while the `go` is elsewhere.
LEMMA GoElsewhere ==
  ASSUME IInv, run = None \/ run.step \in Steps
  PROVE  edit["go"] = None
  BY DEF IInv, EditsSound, Editing, Terminals

\* The other terminal edits no file while its command is elsewhere.
LEMMA CmdElsewhere ==
  ASSUME IInv, cmd = None \/ cmd.is \in {"close", "validate"}
  PROVE  edit["cmd"] = None
  BY DEF IInv, EditsSound, Editing, Terminals

\* A step of the terminal of `go` that edits no file, nor leaves one half edited.
LEMMA GoMoves ==
  ASSUME IInv, UNCHANGED <<repo, lost, cmd>>, ended \subseteq ended',
         edit' = [edit EXCEPT !["go"] = None]
  PROVE  EditsSound'
<1>1. edit' = [w \in Terminals |-> edit'[w]] /\ edit'["go"] = None /\ edit'["cmd"] = edit["cmd"]
  BY DEF IInv, EditsSound, Terminals
<1>2. \A w \in Terminals : edit'[w] # None => edit'[w] = edit[w] /\ Editing(w)'
  BY <1>1 DEF IInv, EditsSound, Editing, Terminals
<1> QED BY <1>1, <1>2, EditsFollow

\* The same of the other terminal.
LEMMA CmdMoves ==
  ASSUME IInv, UNCHANGED <<repo, lost, run>>, ended \subseteq ended',
         edit' = [edit EXCEPT !["cmd"] = None],
         cmd' # None => cmd'.is # "mark"
  PROVE  EditsSound'
<1>1. edit' = [w \in Terminals |-> edit'[w]] /\ edit'["cmd"] = None /\ edit'["go"] = edit["go"]
  BY DEF IInv, EditsSound, Terminals
<1>2. \A w \in Terminals : edit'[w] # None => edit'[w] = edit[w] /\ Editing(w)'
  BY <1>1 DEF IInv, EditsSound, Editing, Terminals
<1> QED BY <1>1, <1>2, EditsFollow

------------------------------------------------------------------------------
(* The invariant at the start, and the steps that edit no file.            *)

\* The files begin empty.
LEMMA InitIInv == ASSUME StoryAssumption, Init PROVE IInv
<1>1. Shape /\ Digests
  BY DEF Init, Shape, Digests, OnlyApprovedRuns, Approving, Text, Files, Ids
<1>2. EditsSound BY DEF Init, EditsSound, Terminals
<1>3. InReviewEnded /\ SprintFollows
  BY DEF Init, InReviewEnded, SprintFollows, ClosedAfterARun, Closed, StoryAssumption, Files, Ids
<1> QED BY <1>1, <1>2, <1>3 DEF IInv

\* What a step that edits no file has still to show.
Rest == Shape' /\ Digests' /\ EditsSound' /\ run' = run /\ closures' = closures
        /\ (cmd' # None /\ cmd'.is = "closing" => cmd'.bid \in ended')

\* Any step that shows this and edits no file keeps the invariant.
LEMMA RestSuffices ==
  ASSUME IInv, UNCHANGED <<repo, lost, ended>>, Rest
  PROVE  IInv' /\ Keeps
<1>1. /\ SprintFollows' /\ Keeps
      /\ \A b \in Ids : repo'.backlog[b] = "in review" => b \in ended'
  BY FilesUntouched
<1>2. InReviewEnded' BY <1>1 DEF Rest, IInv, InReviewEnded, ClosedAfterARun
<1> QED BY <1>1, <1>2 DEF IInv, Rest

\* The owner edits a file by hand or commits it, a task ends, or nothing happens.
LEMMA OutsideSteps ==
  ASSUME IInv, UNCHANGED <<plan, version, repo, edit, run, cmd, approved, ended, closures, lost>>
  PROVE  IInv' /\ Keeps
<1>1. Shape' /\ Digests' BY DEF IInv, Shape, Digests, OnlyApprovedRuns, Approving
<1>2. EditsSound' BY EditsUntouched
<1>3. Rest BY <1>1, <1>2 DEF Rest, IInv, InReviewEnded
<1> QED BY <1>3, RestSuffices

\* plan and the owner's edits of its file.
LEMMA PlanSteps ==
  ASSUME StoryAssumption, IInv, Plan \/ OwnerEditsPlan,
         UNCHANGED <<repo, edit, run, cmd, approved, ended, closures, lost>>
  PROVE  IInv' /\ Keeps
<1>1. /\ version' \in Nat /\ plan' \in PlanRecord
      /\ plan'.digest = 0 \/ (plan # None /\ plan'.digest = plan.digest)
  <2> version \in Nat /\ (plan # None => plan \in PlanRecord) BY Zenon DEF IInv, Shape
  <2>1. CASE Plan
    <3>1. PICK n \in Nat \ {0} : n = version + 1 OBVIOUS
    <3>2. plan' = [ver |-> n, digest |-> 0, bid |-> 0, sprint |-> FALSE] /\ version' = n
      BY <2>1, <3>1 DEF Plan
    <3>3. MaxRows \in Nat BY Zenon DEF StoryAssumption
    <3>4. plan' \in PlanRecord BY <3>1, <3>2, <3>3 DEF PlanRecord
    <3> QED BY <3>1, <3>2, <3>4
  <2>2. CASE OwnerEditsPlan
    <3>1. plan \in PlanRecord BY <2>2 DEF OwnerEditsPlan
    <3>2. PICK n \in Nat \ {0} : n = version + 1 OBVIOUS
    <3>3. plan' = [plan EXCEPT !.ver = n] /\ version' = n BY <2>2, <3>2 DEF OwnerEditsPlan
    <3>4. plan' \in PlanRecord /\ plan'.digest = plan.digest BY <3>1, <3>2, <3>3 DEF PlanRecord
    <3> QED BY <2>2, <3>2, <3>3, <3>4 DEF OwnerEditsPlan
  <2> QED BY <2>1, <2>2
<1>2. Shape' /\ Digests' BY <1>1 DEF IInv, Shape, Digests, OnlyApprovedRuns, Approving
<1>3. EditsSound' BY EditsUntouched
<1>4. Rest BY <1>2, <1>3 DEF Rest, IInv, InReviewEnded
<1> QED BY <1>4, RestSuffices

\* approve.
LEMMA ApproveStep ==
  ASSUME IInv, Approve, UNCHANGED <<version, repo, edit, run, ended, closures, lost>>
  PROVE  IInv' /\ Keeps
<1>1. PICK p : p = [plan EXCEPT !.digest = plan.ver] OBVIOUS
<1>2. plan \in PlanRecord /\ plan.ver \in approved' BY DEF Approve, IInv, Shape
<1>3. p \in PlanRecord /\ p.digest \in approved' BY <1>1, <1>2 DEF PlanRecord
<1>4. /\ plan' = p /\ approved' = approved \cup {plan.ver}
      /\ cmd' = None \/ (cmd'.is \in {"register", "open"} /\ cmd'.copy = p)
  BY <1>1 DEF Approve
<1>5. Shape' BY <1>3, <1>4 DEF IInv, Shape, Approving
<1>6. Digests' BY <1>3, <1>4 DEF IInv, Digests, OnlyApprovedRuns, Approving
<1>7. EditsSound'
  <2>1. edit["cmd"] = None BY CmdElsewhere DEF Approve
  <2>2. edit' = [edit EXCEPT !["cmd"] = None] BY <2>1 DEF IInv, EditsSound, Terminals
  <2>3. cmd' # None => cmd'.is # "mark" BY <1>4
  <2> QED BY <2>2, <2>3, CmdMoves
<1>8. Rest BY <1>4, <1>5, <1>6, <1>7 DEF Rest
<1> QED BY <1>8, RestSuffices

\* What the other commands change: the command in the second terminal alone.
LEMMA CmdSteps ==
  ASSUME IInv, UNCHANGED <<plan, version, repo, run, approved, ended, closures, lost>>,
         edit' = [edit EXCEPT !["cmd"] = None],
         cmd' # None =>
           \/ cmd'.is = "validate"
           \/ /\ cmd'.is \in {"close", "closing", "accept", "cancel"} /\ cmd'.bid \in Ids
              /\ cmd'.is = "close" =>
                   cmd' = [is |-> "close", bid |-> cmd'.bid, sprint |-> cmd'.sprint,
                           force |-> cmd'.force, verdict |-> cmd'.verdict]
              /\ cmd'.is = "closing" => cmd'.bid \in ended
  PROVE  IInv' /\ Keeps
<1>1. Shape' BY DEF IInv, Shape, Approving
<1>2. Digests' BY DEF IInv, Digests, OnlyApprovedRuns, Approving
<1>3. EditsSound' BY CmdMoves
<1>4. Rest BY <1>1, <1>2, <1>3 DEF Rest
<1> QED BY <1>4, RestSuffices

\* What a step of `go` changes, beside the files.
LEMMA GoSteps ==
  ASSUME IInv, UNCHANGED <<plan, version, repo, cmd, approved, closures, lost>>,
         edit' = [edit EXCEPT !["go"] = None], ended \subseteq ended',
         run' # None =>
           /\ run' = [ver |-> run'.ver, bid |-> run'.bid, sprint |-> run'.sprint,
                      step |-> run'.step, row |-> run'.row]
           /\ run'.ver \in approved /\ run'.bid \in 0..MaxRows
           /\ run'.step \in Steps \cup {"in progress", "mark progress", "in review", "mark review"}
           /\ run'.step \notin Steps => run'.row = 0
           /\ run'.step = "in review" => run'.bid \in ended'
  PROVE  IInv' /\ Keeps
<1>1. Shape' BY DEF IInv, Shape, Approving
<1>2. Digests' BY DEF IInv, Digests, OnlyApprovedRuns, Approving
<1>3. EditsSound' BY GoMoves
<1>4. /\ SprintFollows' /\ Keeps
      /\ \A b \in Ids : repo'.backlog[b] = "in review" => b \in ended'
  BY FilesUntouched
<1>5. InReviewEnded' BY <1>4 DEF IInv, InReviewEnded, ClosedAfterARun
<1> QED BY <1>1, <1>2, <1>3, <1>4, <1>5 DEF IInv

------------------------------------------------------------------------------
(* The steps of edit_file.                                                 *)

\* `go` goes on after an edit, whether it worked or not.
LEMMA GoEditEnds ==
  ASSUME IInv, Editing("go"), GoGoesOn, UNCHANGED <<version, repo, approved, ended, lost>>,
         edit' = [edit EXCEPT !["go"] = None]
  PROVE  IInv' /\ Keeps
<1>1. UNCHANGED <<plan, cmd, closures>> BY DEF GoGoesOn
<1>2. /\ run # None /\ run.step \notin Steps /\ run.bid \in 0..MaxRows /\ run.row = 0
      /\ run = [ver |-> run.ver, bid |-> run.bid, sprint |-> run.sprint, step |-> run.step, row |-> run.row]
      /\ run.ver \in approved
  BY DEF Editing, IInv, Shape, Digests, OnlyApprovedRuns
<1>3. run' = None \/ \E step \in {"work", "mark progress", "mark review"} :
                       run' = [run EXCEPT !.step = step]
  BY DEF GoGoesOn
<1>4. run' # None =>
        /\ run' = [ver |-> run'.ver, bid |-> run'.bid, sprint |-> run'.sprint,
                   step |-> run'.step, row |-> run'.row]
        /\ run'.ver = run.ver /\ run'.bid = run.bid /\ run'.row = 0
        /\ run'.step \in {"work", "mark progress", "mark review"}
  BY <1>2, <1>3
<1>5. run' # None =>
        /\ run' = [ver |-> run'.ver, bid |-> run'.bid, sprint |-> run'.sprint,
                   step |-> run'.step, row |-> run'.row]
        /\ run'.ver \in approved /\ run'.bid \in 0..MaxRows
        /\ run'.step \in Steps \cup {"in progress", "mark progress", "in review", "mark review"}
        /\ run'.step \notin Steps => run'.row = 0
        /\ run'.step = "in review" => run'.bid \in ended'
  BY <1>2, <1>4 DEF Steps
<1> QED BY <1>1, <1>5, GoSteps

\* A command whose edit did not work ends.
LEMMA CmdEditFails ==
  ASSUME IInv, NEW b, CmdGoesOn(b, FALSE), UNCHANGED <<version, repo, approved, ended, lost>>,
         edit' = [edit EXCEPT !["cmd"] = None]
  PROVE  IInv' /\ Keeps
<1>1. UNCHANGED <<plan, run, closures>> BY DEF CmdGoesOn
<1>2. cmd' = None BY DEF CmdGoesOn
<1> QED BY <1>1, <1>2, CmdSteps

\* The two together.
LEMMA EditFails ==
  ASSUME IInv, NEW w \in Terminals, NEW b, Editing(w), GoesOn(w, b, FALSE),
         UNCHANGED <<version, repo, approved, ended, lost>>, edit' = [edit EXCEPT ![w] = None]
  PROVE  IInv' /\ Keeps
<1>1. CASE w = "go" BY <1>1, GoEditEnds DEF GoesOn
<1>2. CASE w = "cmd"
  <2>1. CmdGoesOn(b, FALSE) BY <1>2 DEF GoesOn
  <2> QED BY <1>2, <2>1, CmdEditFails
<1> QED BY <1>1, <1>2 DEF Terminals

\* A command goes on when its edit has worked: the plan names the row, a close is
\* noted, and the mark in the sprint follows what the backlog now says.
LEMMA CmdEditWorks ==
  ASSUME StoryAssumption, IInv, Written("cmd"), CmdGoesOn(edit["cmd"].row, TRUE),
         UNCHANGED <<version, repo, approved, ended, lost>>, edit' = [edit EXCEPT !["cmd"] = None]
  PROVE  IInv' /\ Keeps
<1>1. PICK b : b = edit["cmd"].row OBVIOUS
<1>2. /\ cmd # None /\ cmd.is \in {"register", "open", "closing", "accept", "cancel", "mark"}
      /\ b \in Ids /\ edit["cmd"] # None
  BY <1>1 DEF Written, IInv, EditsSound, EditSound, EditRecord, Editing, Terminals
<1>3. CmdGoesOn(b, TRUE) /\ UNCHANGED run BY <1>1 DEF CmdGoesOn
<1>4. /\ SprintFollows' /\ Keeps
      /\ \A c \in Ids : repo'.backlog[c] = "in review" => c \in ended'
  BY FilesUntouched
<1>5. CASE cmd.is \in {"register", "open"}
  <2>1. cmd.copy \in PlanRecord /\ cmd.copy.digest \in approved \cup {0}
    <3>1. Approving BY <1>2, <1>5 DEF Approving
    <3> QED BY <3>1 DEF IInv, Shape, Digests
  <2>2. b \in 0..MaxRows
    <3>1. MaxRows \in Nat BY Zenon DEF StoryAssumption
    <3> QED BY <1>2, <3>1 DEF Ids
  <2>3. /\ plan' \in PlanRecord /\ plan'.digest = cmd.copy.digest /\ closures' = closures
        /\ cmd' = None \/ cmd' = [is |-> "open", copy |-> plan']
    BY <1>3, <1>5, <2>1, <2>2 DEF CmdGoesOn, PlanRecord
  <2>4. cmd' # None => cmd'.is = "open" /\ cmd'.copy = plan' BY <2>3
  <2>5. Shape' BY <1>3, <2>3, <2>4 DEF IInv, Shape, Approving
  <2>6. Digests' BY <1>3, <2>1, <2>3, <2>4 DEF IInv, Digests, OnlyApprovedRuns, Approving
  <2>7. EditsSound' BY <1>3, <2>4, CmdMoves
  <2>8. InReviewEnded' BY <1>3, <1>4, <2>3, <2>4 DEF IInv, InReviewEnded, ClosedAfterARun
  <2> QED BY <1>4, <2>5, <2>6, <2>7, <2>8 DEF IInv
<1>6. CASE cmd.is \in {"closing", "accept", "cancel"}
  <2>1. PICK st \in {"done", "cancelled"} : st = IF cmd.is = "cancel" THEN "cancelled" ELSE "done"
    OBVIOUS
  <2>2. b = cmd.bid /\ edit["cmd"].file = "backlog" /\ edit["cmd"].st = st
    BY <1>1, <1>2, <1>6, <2>1 DEF IInv, EditsSound
  <2>3. EditSound(edit["cmd"], repo.backlog, ended, lost) /\ edit["cmd"].wrote
    BY <1>2 DEF IInv, EditsSound, Terminals, Written
  <2>4. Settled(b, st, repo.backlog, lost)
    BY <1>1, <2>1, <2>2, <2>3 DEF EditSound, Closed
  <2>5. /\ plan' = plan
        /\ cmd' = None \/ cmd' = [is |-> "mark", bid |-> b, st |-> st]
        /\ closures' = closures
           \/ (cmd.is = "closing" /\ closures' = closures \cup {[bid |-> b, force |-> cmd.force,
                                                                 verdict |-> cmd.verdict]})
    BY <1>3, <1>6, <2>1 DEF CmdGoesOn, MarkNext
  <2> cmd' # None => cmd'.is = "mark" /\ cmd'.bid = b /\ cmd'.st = st BY <2>5
  <2> \A c \in closures' : c \in closures \/ (cmd.is = "closing" /\ c.bid = b) BY <2>5
  <2>6. Shape' BY <1>2, <1>3, <2>5 DEF IInv, Shape, Approving
  <2>7. Digests' BY <1>3, <2>5 DEF IInv, Digests, OnlyApprovedRuns, Approving
  <2>8. EditsSound'
    <3>1. edit' = [w \in Terminals |-> edit'[w]] /\ edit'["cmd"] = None /\ edit'["go"] = edit["go"]
      BY DEF IInv, EditsSound, Terminals
    <3>2. edit'["go"] # None => Editing("go")' /\ EditSound(edit'["go"], repo'.backlog, ended', lost')
      BY <1>3, <3>1 DEF IInv, EditsSound, Editing, Terminals
    <3>3. cmd' # None /\ cmd'.is = "mark" =>
            cmd'.st \in {"done", "cancelled"} /\ Settled(cmd'.bid, cmd'.st, repo'.backlog, lost')
      BY <2>1, <2>4, <2>5
    <3> QED BY <3>1, <3>2, <3>3 DEF EditsSound, Terminals
  <2>9. InReviewEnded' BY <1>2, <1>3, <1>4, <2>2, <2>5 DEF IInv, InReviewEnded, ClosedAfterARun
  <2> QED BY <1>4, <2>6, <2>7, <2>8, <2>9 DEF IInv
<1>7. CASE cmd.is = "mark"
  <2>1. UNCHANGED <<plan, closures>> /\ cmd' = None BY <1>3, <1>7 DEF CmdGoesOn
  <2> QED BY <1>3, <2>1, CmdSteps
<1> QED BY <1>2, <1>5, <1>6, <1>7

\* An edit that reads: what it is to change is not closed, and a mark in the
\* sprint file follows the backlog.
LEMMA ReadStep ==
  ASSUME StoryAssumption, IInv, NEW w \in Terminals, Editing(w), NEW e, e = Edit(w),
         IF w = "cmd" /\ cmd.is \in {"register", "open"} THEN MayBeAdded(repo[e.file], e.row, e.st)
         ELSE MayBeSet(repo[e.file], e.row),
         edit' = [edit EXCEPT ![w] = [file |-> e.file, row |-> e.row, st |-> e.st,
                                       text |-> repo[e.file], wrote |-> FALSE]],
         UNCHANGED <<plan, version, repo, run, cmd, approved, ended, closures, lost>>
  PROVE  IInv' /\ Keeps
<1>1. PICK n : n = [file |-> e.file, row |-> e.row, st |-> e.st, text |-> repo[e.file], wrote |-> FALSE]
  OBVIOUS
<1>2. e.row \in Ids /\ e.file \in Files
  <2>1. e.row \in Ids BY DEF MayBeAdded, MayBeSet
  <2>2. e.file \in Files BY DEF Edit, Editing, At, Files, Terminals
  <2> QED BY <2>1, <2>2
<1>3. repo \in [Files -> Text] /\ repo[e.file] \in Text BY <1>2 DEF IInv, Shape
<1>4. CASE w = "go"
  <2>1. run # None /\ run.step \in {"in progress", "mark progress", "in review", "mark review"}
    BY <1>4 DEF Editing, IInv, Shape
  <2>2. /\ e.st \in {"in progress", "in review"} /\ e.row = run.bid
        /\ e.file = "backlog" /\ e.st = "in review" => run.step = "in review"
    BY <1>4, <2>1 DEF Edit, At
  <2>3. ~Closed(repo[e.file][e.row]) BY <1>4 DEF MayBeSet
  <2>4. e.file = "backlog" => (e.st = "in review" => e.row \in ended)
    BY <2>1, <2>2 DEF IInv, InReviewEnded
  <2>5. e.file = "backlog" => \A b \in Ids : repo[e.file][b] = "in review" => b \in ended
    BY DEF IInv, InReviewEnded
  <2>6. n \in EditRecord /\ ~n.wrote
    BY <1>1, <1>2, <1>3, <2>2 DEF EditRecord, Statuses
  <2>7. Pending(n, repo.backlog, ended, lost)
    BY <1>1, <1>3, <2>2, <2>3, <2>4, <2>5 DEF Pending, Closed
  <2>8. EditSound(n, repo.backlog, ended, lost) BY <2>6, <2>7 DEF EditSound
  <2>9. edit' = [v \in Terminals |-> edit'[v]] /\ edit'["go"] = n /\ edit'["cmd"] = edit["cmd"]
    BY <1>1, <1>4 DEF IInv, EditsSound, Terminals
  <2>10. Editing("go")' BY <1>4 DEF Editing
  <2>11. EditsSound' BY <2>8, <2>9, <2>10 DEF IInv, EditsSound, Editing, Terminals
  <2> QED BY <2>11 DEF IInv, Shape, Digests, OnlyApprovedRuns, Approving, InReviewEnded,
                       ClosedAfterARun, SprintFollows, Keeps
<1>5. CASE w = "cmd"
  <2>1. cmd # None /\ cmd.is \in {"register", "open", "closing", "accept", "cancel", "mark"}
    BY <1>5 DEF Editing
  <2>2. /\ cmd.is = "register" => e.file = "backlog" /\ e.st = "planned"
        /\ cmd.is = "open" => e.file = "sprint" /\ e.st = Opened(e.row)
        /\ cmd.is \in {"closing", "accept"} => e.file = "backlog" /\ e.row = cmd.bid /\ e.st = "done"
        /\ cmd.is = "cancel" => e.file = "backlog" /\ e.row = cmd.bid /\ e.st = "cancelled"
        /\ cmd.is = "mark" => e.file = "sprint" /\ e.row = cmd.bid /\ e.st = cmd.st
    BY <1>5, <2>1 DEF Edit, At
  <2>3. repo.sprint \in Text /\ e.st \in Statuses
    <3>1. repo.sprint \in Text BY <1>3 DEF Files
    <3>2. cmd.is = "open" => e.st \in Statuses BY <1>2, <2>2, <3>1 DEF Opened, Text, Statuses
    <3>3. cmd.is = "mark" => cmd.st \in {"done", "cancelled"} BY <2>1 DEF IInv, EditsSound
    <3> QED BY <2>1, <2>2, <3>1, <3>2, <3>3 DEF Statuses
  <2>4. Closed(repo[e.file][e.row]) => repo[e.file][e.row] = e.st
    BY <1>5 DEF MayBeAdded, MayBeSet, Closed, StoryAssumption
  <2>5. e.file = "backlog" =>
          /\ e.st # "in review"
          /\ \A b \in Ids : repo[e.file][b] = "in review" => b \in ended
    <3>1. e.file = "backlog" => e.st # "in review" BY <2>1, <2>2, <2>3
    <3>2. \A b \in Ids : repo.backlog[b] = "in review" => b \in ended BY DEF IInv, InReviewEnded
    <3> QED BY <3>1, <3>2
  <2>6. e.file = "sprint" /\ Closed(e.st) =>
          repo[e.file][e.row] = e.st \/ Settled(e.row, e.st, repo.backlog, lost)
    <3>1. cmd.is = "open" => (Closed(e.st) => repo[e.file][e.row] = e.st)
      BY <2>2 DEF Opened, Closed
    <3>2. cmd.is = "mark" => Settled(e.row, e.st, repo.backlog, lost)
      BY <2>1, <2>2 DEF IInv, EditsSound
    <3> QED BY <2>1, <2>2, <3>1, <3>2
  <2>7. n \in EditRecord /\ ~n.wrote BY <1>1, <1>2, <1>3, <2>3 DEF EditRecord
  <2>8. Pending(n, repo.backlog, ended, lost)
    BY <1>1, <1>3, <2>4, <2>5, <2>6 DEF Pending
  <2>9. EditSound(n, repo.backlog, ended, lost) BY <2>7, <2>8 DEF EditSound
  <2>10. edit' = [v \in Terminals |-> edit'[v]] /\ edit'["cmd"] = n /\ edit'["go"] = edit["go"]
    BY <1>1, <1>5 DEF IInv, EditsSound, Terminals
  <2>11. Editing("cmd")' BY <1>5 DEF Editing
  <2>12. cmd.is \in {"closing", "accept", "cancel"} =>
           /\ n.file = "backlog" /\ n.row = cmd.bid
           /\ n.st = IF cmd.is = "cancel" THEN "cancelled" ELSE "done"
    BY <1>1, <2>2
  <2>13. EditsSound' BY <2>9, <2>10, <2>11, <2>12 DEF IInv, EditsSound, Editing, Terminals
  <2> QED BY <2>13 DEF IInv, Shape, Digests, OnlyApprovedRuns, Approving, InReviewEnded,
                       ClosedAfterARun, SprintFollows, Keeps
<1> QED BY <1>4, <1>5 DEF Terminals

\* An edit that writes: every row that has changed since it read is lost; of the
\* others none that is closed changes.
LEMMA WriteStep ==
  ASSUME IInv, NEW w \in Terminals, EditWrites(w),
         UNCHANGED <<plan, version, run, cmd, approved, ended, closures>>
  PROVE  IInv' /\ Keeps
<1>1. PICK e : e = edit[w] OBVIOUS
<1>2. /\ e \in EditRecord /\ ~e.wrote /\ Pending(e, repo.backlog, ended, lost) /\ Editing(w)
      /\ edit = [v \in Terminals |-> edit[v]]
  BY <1>1 DEF EditWrites, IInv, EditsSound, EditSound
<1>3. /\ repo' = [repo EXCEPT ![e.file] = [e.text EXCEPT ![e.row] = e.st]]
      /\ lost' = lost \cup {b \in Ids : repo[e.file][b] # e.text[b]}
      /\ edit' = [edit EXCEPT ![w].text = None, ![w].wrote = TRUE]
  BY <1>1 DEF EditWrites
<1>4. repo \in [Files -> Text] BY DEF IInv, Shape
<1>5. e.file \in Files /\ e.row \in Ids /\ e.st \in Statuses /\ e.text \in Text
  BY <1>2 DEF EditRecord, Pending
<1>6. PICK new \in Text : new = [e.text EXCEPT ![e.row] = e.st] BY <1>5 DEF Text
<1>7. /\ new[e.row] = e.st
      /\ \A b \in Ids : b # e.row => new[b] = e.text[b]
  BY <1>5, <1>6 DEF Text
<1>8. /\ repo' \in [Files -> Text] /\ repo'[e.file] = new
      /\ \A f \in Files : f # e.file => repo'[f] = repo[f]
  BY <1>3, <1>4, <1>5, <1>6
<1>9. lost \subseteq lost' /\ \A b \in Ids \ lost' : repo[e.file][b] = e.text[b]
  BY <1>3
<1>10. ASSUME NEW f \in Files, NEW b \in Ids \ lost', Closed(repo[f][b])
       PROVE  repo'[f][b] = repo[f][b]
  <2>1. CASE f # e.file BY <1>8, <2>1
  <2>2. CASE f = e.file
    <3>1. repo[f][b] = e.text[b] BY <1>9, <2>2
    <3>2. Closed(e.text[e.row]) => e.text[e.row] = e.st BY <1>2 DEF Pending
    <3> QED BY <1>7, <1>8, <1>10, <2>2, <3>1, <3>2
  <2> QED BY <2>1, <2>2
<1>11. /\ \A b \in Ids \ lost' : Closed(repo.backlog[b]) => repo'.backlog[b] = repo.backlog[b]
       /\ \A b \in Ids \ lost' : Closed(repo.sprint[b]) => repo'.sprint[b] = repo.sprint[b]
  BY <1>10 DEF Files
<1>12. ASSUME NEW b \in Ids \ lost', Closed(repo'.sprint[b]) PROVE repo'.sprint[b] = repo'.backlog[b]
  <2>1. b \notin lost BY <1>9, <1>12
  <2>2. CASE Closed(repo.sprint[b])
    <3>1. repo.sprint[b] = repo.backlog[b] BY <2>1, <2>2 DEF IInv, SprintFollows
    <3> QED BY <1>11, <2>2, <3>1
  <2>3. CASE ~Closed(repo.sprint[b])
    <3>1. e.file = "sprint" /\ repo'.backlog = repo.backlog /\ repo'.sprint = new
      BY <1>5, <1>8, <1>12, <2>3 DEF Files
    <3>2. b = e.row /\ Closed(e.st) /\ e.text[e.row] # e.st
      BY <1>7, <1>9, <1>12, <2>3, <3>1
    <3>3. Settled(e.row, e.st, repo.backlog, lost) BY <1>2, <3>1, <3>2 DEF Pending
    <3> QED BY <1>7, <2>1, <3>1, <3>2, <3>3 DEF Settled
  <2> QED BY <2>2, <2>3
<1>13. Keeps BY <1>11, <1>12 DEF Keeps
<1>14. SprintFollows' BY <1>12 DEF SprintFollows
<1>15. Shape' /\ Digests' BY <1>8 DEF IInv, Shape, Digests, OnlyApprovedRuns, Approving
<1>16. InReviewEnded'
  <2>1. ASSUME NEW b \in Ids, repo'.backlog[b] = "in review" PROVE b \in ended
    <3>1. CASE e.file = "backlog" BY <1>2, <1>7, <1>8, <2>1, <3>1 DEF Pending
    <3>2. CASE e.file # "backlog" BY <1>8, <2>1, <3>2 DEF Files, IInv, InReviewEnded
    <3> QED BY <3>1, <3>2
  <2> QED BY <2>1 DEF IInv, InReviewEnded, ClosedAfterARun
<1>17. EditsSound'
  <2>1. PICK n : n = [e EXCEPT !.text = None, !.wrote = TRUE] OBVIOUS
  <2>2. /\ n \in EditRecord /\ n.wrote /\ n.file = e.file /\ n.row = e.row /\ n.st = e.st
    BY <1>2, <2>1 DEF EditRecord
  <2>3. n.file = "backlog" => Settled(n.row, n.st, repo'.backlog, lost')
    BY <1>7, <1>8, <2>2 DEF Settled
  <2>4. EditSound(n, repo'.backlog, ended, lost') BY <2>2, <2>3 DEF EditSound
  <2>5. /\ edit' = [v \in Terminals |-> edit'[v]] /\ edit'[w] = n
        /\ \A v \in Terminals : v # w => edit'[v] = edit[v]
    BY <1>1, <1>2, <1>3, <2>1
  <2>6. ASSUME NEW v \in Terminals, v # w, edit[v] # None
        PROVE  EditSound(edit[v], repo'.backlog, ended, lost')
    <3>1. EditSound(edit[v], repo.backlog, ended, lost) BY <2>6 DEF IInv, EditsSound
    <3> QED BY <1>9, <1>11, <3>1, SoundLater
  <2>7. \A v \in Terminals :
          edit'[v] # None => Editing(v)' /\ EditSound(edit'[v], repo'.backlog, ended', lost')
    BY <1>2, <2>4, <2>5, <2>6 DEF IInv, EditsSound, Editing
  <2>8. edit'["cmd"] # None /\ cmd.is \in {"closing", "accept", "cancel"} =>
          /\ edit'["cmd"].file = "backlog" /\ edit'["cmd"].row = cmd.bid
          /\ edit'["cmd"].st = IF cmd.is = "cancel" THEN "cancelled" ELSE "done"
    <3>1. edit["cmd"] # None /\ cmd.is \in {"closing", "accept", "cancel"} =>
            /\ edit["cmd"].file = "backlog" /\ edit["cmd"].row = cmd.bid
            /\ edit["cmd"].st = IF cmd.is = "cancel" THEN "cancelled" ELSE "done"
      BY DEF IInv, EditsSound
    <3>2. "cmd" \in Terminals BY DEF Terminals
    <3>3. CASE w = "cmd"
      <4>1. edit["cmd"] # None /\ edit["cmd"] = e /\ edit'["cmd"] = n BY <1>1, <2>5, <3>3 DEF EditWrites
      <4> QED BY <2>2, <3>1, <4>1
    <3>4. CASE w # "cmd"
      <4>1. edit'["cmd"] = edit["cmd"] BY <2>5, <3>2, <3>4
      <4> QED BY <3>1, <4>1
    <3> QED BY <3>3, <3>4
  <2>9. cmd # None /\ cmd.is = "mark" =>
          cmd.st \in {"done", "cancelled"} /\ Settled(cmd.bid, cmd.st, repo'.backlog, lost')
    BY <1>9, <1>11 DEF IInv, Shape, EditsSound, Settled, Closed
  <2> QED BY <2>5, <2>7, <2>8, <2>9 DEF EditsSound
<1> QED BY <1>13, <1>14, <1>15, <1>16, <1>17 DEF IInv

\* An edit that reads, or is refused.
LEMMA ReadSteps ==
  ASSUME StoryAssumption, IInv, NEW w \in Terminals, EditReads(w),
         UNCHANGED <<version, repo, approved, ended, lost>>
  PROVE  IInv' /\ Keeps
<1>1. Editing(w) /\ edit[w] = None BY DEF EditReads
<1>2. PICK e : e = Edit(w) OBVIOUS
<1>3. CASE /\ IF w = "cmd" /\ cmd.is \in {"register", "open"}
              THEN MayBeAdded(repo[e.file], e.row, e.st) ELSE MayBeSet(repo[e.file], e.row)
           /\ edit' = [edit EXCEPT ![w] = [file |-> e.file, row |-> e.row, st |-> e.st,
                                            text |-> repo[e.file], wrote |-> FALSE]]
           /\ UNCHANGED <<plan, run, cmd, closures>>
  BY <1>1, <1>2, <1>3, ReadStep
<1>4. CASE GoesOn(w, e.row, FALSE) /\ UNCHANGED edit
  <2>1. edit' = [edit EXCEPT ![w] = None] BY <1>1, <1>4 DEF IInv, EditsSound
  <2> QED BY <1>1, <1>4, <2>1, EditFails
<1> QED BY <1>2, <1>3, <1>4 DEF EditReads

\* An edit that is committed, or cannot be.
LEMMA CommitSteps ==
  ASSUME StoryAssumption, IInv, NEW w \in Terminals, EditCommits(w),
         UNCHANGED <<version, repo, approved, ended, lost>>
  PROVE  IInv' /\ Keeps
<1>1. Written(w) /\ edit' = [edit EXCEPT ![w] = None] BY DEF EditCommits
<1>2. Editing(w) BY <1>1 DEF Written, IInv, EditsSound
<1>3. CASE GoesOn(w, edit[w].row, FALSE)
  <2>1. PICK b : b = edit[w].row OBVIOUS
  <2> QED BY <1>1, <1>2, <1>3, <2>1, EditFails
<1>4. CASE GoesOn(w, edit[w].row, TRUE)
  <2>1. CASE w = "go" BY <1>1, <1>2, <1>4, <2>1, GoEditEnds DEF GoesOn
  <2>2. CASE w = "cmd"
    <3>1. CmdGoesOn(edit["cmd"].row, TRUE) BY <1>4, <2>2 DEF GoesOn
    <3> QED BY <1>1, <2>2, <3>1, CmdEditWorks
  <2> QED BY <2>1, <2>2 DEF Terminals
<1> QED BY <1>3, <1>4 DEF EditCommits

------------------------------------------------------------------------------
(* The invariant is inductive.                                             *)

\* The steps of `go` that edit no file.
LEMMA FlowSteps ==
  ASSUME StoryAssumption, IInv,
         \/ Go /\ UNCHANGED <<edit, ended>>
         \/ Queue /\ UNCHANGED <<edit, ended>>
         \/ StepEnds /\ UNCHANGED edit
         \/ GiveUp /\ UNCHANGED ended,
         UNCHANGED <<plan, version, repo, cmd, approved, closures, lost>>
  PROVE  IInv' /\ Keeps
<1>1. run # None =>
        /\ run = [ver |-> run.ver, bid |-> run.bid, sprint |-> run.sprint, step |-> run.step, row |-> run.row]
        /\ run.ver \in approved /\ run.bid \in 0..MaxRows
        /\ run.step \notin Steps => run.row = 0
  BY DEF IInv, Shape, Digests, OnlyApprovedRuns
<1>2. CASE Go /\ UNCHANGED <<edit, ended>>
  <2>1. plan # None /\ plan \in PlanRecord /\ plan.ver \in approved
    <3>1. plan # None /\ plan \in PlanRecord /\ plan.digest = plan.ver
      BY <1>2 DEF Go, IsApproved, IInv, Shape
    <3>2. plan.digest \in approved \cup {0} BY <3>1 DEF IInv, Digests
    <3> QED BY <3>1, <3>2 DEF PlanRecord
  <2>2. run' = [ver |-> plan.ver, bid |-> plan.bid, sprint |-> plan.sprint,
                step |-> IF plan.bid = 0 THEN "work" ELSE "in progress", row |-> 0]
    BY <1>2 DEF Go
  <2>3. plan.bid \in 0..MaxRows BY <2>1 DEF PlanRecord
  <2>4. edit' = [edit EXCEPT !["go"] = None]
    <3>1. edit["go"] = None BY <1>2, GoElsewhere DEF Go
    <3> QED BY <1>2, <3>1 DEF IInv, EditsSound, Terminals
  <2> QED BY <1>2, <2>1, <2>2, <2>3, <2>4, GoSteps DEF Steps
<1>3. CASE Queue /\ UNCHANGED <<edit, ended>>
  <2>1. run # None /\ run.step \in Steps /\ run' = [run EXCEPT !.row = Len(tasks) + 1]
    BY <1>3 DEF Queue
  <2>2. edit' = [edit EXCEPT !["go"] = None]
    <3>1. edit["go"] = None BY <2>1, GoElsewhere
    <3> QED BY <1>3, <3>1 DEF IInv, EditsSound, Terminals
  <2>3. PICK n : n = Len(tasks) + 1 OBVIOUS
  <2>4. run' = [ver |-> run.ver, bid |-> run.bid, sprint |-> run.sprint, step |-> run.step, row |-> n]
    BY <1>1, <2>1, <2>3
  <2> QED BY <1>1, <1>3, <2>1, <2>2, <2>4, GoSteps DEF Steps
<1>4. CASE StepEnds /\ UNCHANGED edit
  <2>1. run # None /\ run.step \in Steps BY <1>1, <1>4 DEF StepEnds
  <2>2. edit' = [edit EXCEPT !["go"] = None]
    <3>1. edit["go"] = None BY <2>1, GoElsewhere
    <3> QED BY <1>4, <3>1 DEF IInv, EditsSound, Terminals
  <2>3. \/ run' = None /\ ended \subseteq ended'
        \/ \E step \in {"test", "review", "in review"} :
             /\ run' = [run EXCEPT !.step = step, !.row = 0] /\ ended \subseteq ended'
             /\ step = "in review" => run.bid \in ended'
    <3>1. CASE run' = None /\ UNCHANGED ended BY <3>1
    <3>2. CASE \E s \in {After(run.step)} \cup (IF run.step = "work" THEN {"in review"} ELSE {}) : Goes(s)
      <4>1. PICK s \in {After(run.step)} \cup (IF run.step = "work" THEN {"in review"} ELSE {}) : Goes(s)
        BY <3>2
      <4>2. s \in {"test", "review", "in review"} BY <2>1 DEF After, Steps
      <4> QED BY <4>1, <4>2 DEF Goes
    <3> QED BY <1>4, <3>1, <3>2 DEF StepEnds
  <2>4. CASE run' = None /\ ended \subseteq ended' BY <2>2, <2>4, GoSteps
  <2>5. CASE \E step \in {"test", "review", "in review"} :
               /\ run' = [run EXCEPT !.step = step, !.row = 0] /\ ended \subseteq ended'
               /\ step = "in review" => run.bid \in ended'
    <3>1. PICK s \in {"test", "review", "in review"} :
            /\ run' = [run EXCEPT !.step = s, !.row = 0] /\ ended \subseteq ended'
            /\ s = "in review" => run.bid \in ended'
      BY <2>5
    <3>2. run' = [ver |-> run.ver, bid |-> run.bid, sprint |-> run.sprint, step |-> s, row |-> 0]
      BY <1>1, <2>1, <3>1
    <3> QED BY <1>1, <2>1, <2>2, <3>1, <3>2, GoSteps DEF Steps
  <2> QED BY <2>3, <2>4, <2>5
<1>5. CASE GiveUp /\ UNCHANGED ended
  <2>1. CASE run' = None /\ edit' = [edit EXCEPT !.go = None] BY <1>5, <2>1, GoSteps
  <2>2. CASE run.step = "test" /\ run' = [run EXCEPT !.step = "review", !.row = 0] /\ UNCHANGED edit
    <3>1. edit["go"] = None BY <2>2, GoElsewhere DEF Steps
    <3>2. edit' = [edit EXCEPT !["go"] = None] BY <2>2, <3>1 DEF IInv, EditsSound, Terminals
    <3>3. run # None BY <1>5 DEF GiveUp
    <3>4. run' = [ver |-> run.ver, bid |-> run.bid, sprint |-> run.sprint, step |-> "review", row |-> 0]
      BY <1>1, <2>2, <3>3
    <3> QED BY <1>1, <1>5, <3>2, <3>3, <3>4, GoSteps DEF Steps
  <2> QED BY <1>5, <2>1, <2>2 DEF GiveUp
<1> QED BY <1>2, <1>3, <1>4, <1>5

\* The steps of the other commands that edit no file.
LEMMA CommandSteps ==
  ASSUME IInv,
         \/ Validate \/ Validated \/ Close \/ Confirm \/ Leave
         \/ \E b \in Rows : Accept(b) \/ Cancel(b),
         UNCHANGED <<plan, version, repo, edit, run, approved, ended, closures, lost>>
  PROVE  IInv' /\ Keeps
<1>1. cmd = None \/ cmd.is \in {"close", "validate"}
  BY DEF Validate, Validated, Close, Confirm, Leave, Accept, Cancel
<1>2. edit' = [edit EXCEPT !["cmd"] = None]
  <2>1. edit["cmd"] = None BY <1>1, CmdElsewhere
  <2> QED BY <2>1 DEF IInv, EditsSound, Terminals
<1>3. CASE Validate \/ Validated
  <2>1. cmd' # None => cmd'.is = "validate" BY <1>3 DEF Validate, Validated
  <2> QED BY <1>2, <2>1, CmdSteps
<1>4. CASE Close
  <2>1. plan \in PlanRecord /\ plan.bid # 0 BY <1>4 DEF Close, IInv, Shape
  <2>2. plan.bid \in Ids BY <2>1 DEF PlanRecord, Ids
  <2>3. cmd' = [is |-> "close", bid |-> plan.bid, sprint |-> plan.sprint,
                force |-> Problems, verdict |-> Verdict]
    BY <1>4 DEF Close
  <2>4. cmd' = [is |-> "close", bid |-> cmd'.bid, sprint |-> cmd'.sprint,
                force |-> cmd'.force, verdict |-> cmd'.verdict] /\ cmd'.bid = plan.bid
    BY <2>3
  <2>5. cmd'.is = "close" BY <2>3
  <2> QED BY <1>2, <2>2, <2>4, <2>5, CmdSteps
<1>5. CASE Confirm
  <2>1. /\ cmd = [is |-> "close", bid |-> cmd.bid, sprint |-> cmd.sprint, force |-> cmd.force,
                  verdict |-> cmd.verdict]
        /\ cmd.bid \in Ids
    BY <1>5 DEF Confirm, IInv, Shape
  <2>2. cmd' = None \/ (repo.backlog[cmd.bid] = "in review" /\ cmd' = [cmd EXCEPT !.is = "closing"])
    BY <1>5 DEF Confirm, MayClose
  <2>3. cmd' # None => cmd'.is = "closing" /\ cmd'.bid = cmd.bid /\ repo.backlog[cmd.bid] = "in review"
    BY <2>1, <2>2
  <2>4. cmd' # None => cmd'.bid \in ended BY <2>1, <2>3 DEF IInv, InReviewEnded
  <2> QED BY <1>2, <2>1, <2>3, <2>4, CmdSteps
<1>6. CASE Leave BY <1>2, <1>6, CmdSteps DEF Leave
<1>7. CASE \E b \in Rows : Accept(b) \/ Cancel(b)
  <2>1. PICK b \in Ids : cmd' = [is |-> "accept", bid |-> b] \/ cmd' = [is |-> "cancel", bid |-> b]
    BY <1>7 DEF Rows, Accept, Cancel
  <2>2. cmd'.is \in {"accept", "cancel"} /\ cmd'.bid \in Ids BY <2>1
  <2> QED BY <1>2, <2>2, CmdSteps
<1> QED BY <1>3, <1>4, <1>5, <1>6, <1>7

\* Every step keeps the invariant, and leaves closed rows closed.
LEMMA StepIInv ==
  ASSUME StoryAssumption, IInv, [Next]_vars
  PROVE  IInv' /\ Keeps
<1>1. CASE (\E f \in Files : OwnerEditsFile(f) \/ OwnerCommits(f))
             /\ UNCHANGED <<plan, version, repo, edit, run, tasks, cmd, history>>
  BY <1>1, OutsideSteps DEF history
<1>2. CASE (Plan \/ OwnerEditsPlan) /\ UNCHANGED <<repo, dirty, edit, run, tasks, cmd, faults, history>>
  BY <1>2, PlanSteps DEF history
<1>3. CASE Approve /\ UNCHANGED <<version, repo, dirty, edit, run, tasks, faults, ended, closures, lost>>
  BY <1>3, ApproveStep
<1>4. CASE Go /\ UNCHANGED <<plan, version, repo, dirty, edit, tasks, cmd, faults, history>>
  BY <1>4, FlowSteps DEF history
<1>5. CASE Queue /\ UNCHANGED <<plan, version, repo, dirty, edit, cmd, faults, history>>
  BY <1>5, FlowSteps DEF history
<1>6. CASE TaskEnds /\ UNCHANGED <<plan, version, repo, dirty, edit, run, cmd, history>>
  BY <1>6, OutsideSteps DEF history
<1>7. CASE StepEnds /\ UNCHANGED <<plan, version, repo, dirty, edit, tasks, cmd, faults, approved, closures, lost>>
  BY <1>7, FlowSteps
<1>8. CASE GiveUp /\ UNCHANGED <<plan, version, repo, dirty, tasks, cmd, history>>
  BY <1>8, FlowSteps DEF history
<1>9. CASE (Validate \/ Validated) /\ UNCHANGED <<plan, version, repo, dirty, edit, run, faults, history>>
  BY <1>9, CommandSteps DEF history
<1>10. CASE (Close \/ Confirm \/ Leave \/ \E b \in Rows : Accept(b) \/ Cancel(b))
              /\ UNCHANGED <<plan, version, repo, dirty, edit, run, tasks, faults, history>>
  BY <1>10, CommandSteps DEF history
<1>11. CASE Interrupt /\ UNCHANGED <<plan, version, repo, dirty, run, tasks, history>>
  <2>1. cmd' = None /\ edit' = [edit EXCEPT !["cmd"] = None] BY <1>11 DEF Interrupt
  <2> QED BY <1>11, <2>1, CmdSteps DEF history
<1>12. CASE (\E w \in Terminals : EditReads(w))
              /\ UNCHANGED <<version, repo, dirty, tasks, faults, approved, ended, lost>>
  BY <1>12, ReadSteps
<1>13. CASE (\E w \in Terminals : EditWrites(w))
              /\ UNCHANGED <<plan, version, run, tasks, cmd, faults, approved, ended, closures>>
  BY <1>13, WriteStep
<1>14. CASE (\E w \in Terminals : EditCommits(w)) /\ UNCHANGED <<version, repo, tasks, approved, ended, lost>>
  BY <1>14, CommitSteps
<1>15. CASE UNCHANGED vars BY <1>15, OutsideSteps DEF vars, history
<1> QED
  BY <1>1, <1>2, <1>3, <1>4, <1>5, <1>6, <1>7, <1>8, <1>9, <1>10, <1>11, <1>12, <1>13, <1>14,
     <1>15 DEF Next

------------------------------------------------------------------------------
(* The theorems.                                                           *)

\* IInv holds in every reachable state.
THEOREM StoryInvariant == ASSUME StoryAssumption PROVE Spec => []IInv
<1>1. Init => IInv BY InitIInv
<1>2. IInv /\ [Next]_vars => IInv' BY StepIInv
<1> QED BY <1>1, <1>2, PTL DEF Spec

\* OnlyApprovedRuns: a `go` queues a content of the plan that was approved.
THEOREM ApprovedRuns == ASSUME StoryAssumption PROVE Spec => []OnlyApprovedRuns
<1>1. IInv => OnlyApprovedRuns BY DEF IInv, Digests
<1> QED BY <1>1, StoryInvariant, PTL

\* ClosedAfterARun: `close` ends only stories for which a `go` came to its end.
THEOREM ClosesAfterARun == ASSUME StoryAssumption PROVE Spec => []ClosedAfterARun
<1>1. IInv => ClosedAfterARun BY DEF IInv, InReviewEnded
<1> QED BY <1>1, StoryInvariant, PTL

\* ClosedStaysClosed: a command in either terminal, each reading, writing and
\* committing the file in steps of their own, changes no closed row, but in a file
\* that changed between its read and its write; and the sprint file never closes
\* a story before the backlog.
THEOREM StaysClosed == ASSUME StoryAssumption PROVE Spec => ClosedStaysClosed
<1>1. IInv /\ [Next]_vars => [Keeps]_vars BY StepIInv
<1> QED BY <1>1, StoryInvariant, PTL DEF Spec, ClosedStaysClosed, Keeps

==============================================================================
