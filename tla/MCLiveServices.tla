---------------------------- MODULE MCLiveServices ----------------------------
(* Values for TLC of the constants of LiveServices.                        *)
EXTENDS LiveServices

TwoPasses == 1..2
TwoGos == 1..2

T(role, deps) == [role |-> role, deps |-> deps, private |-> FALSE]
Private(task) == [task EXCEPT !.private = TRUE]

OneAnalyst == <<T("analyst", {})>>

FourPlans ==
  {<<T("dev_backend", {}), T("dev_backend", {}), T("dev_frontend", {1})>>,
   <<T("analyst", {}), T("dev_frontend", {1}), T("dev_frontend", {1})>>,
   <<T("dev_frontend", {}), Private(T("dev_backend", {1}))>>,
   OneAnalyst}

Ask(kind, sub) == [kind |-> kind, sub |-> sub, name |-> "site"]
AllRequests == {Ask("project", s) : s \in {"start", "go", "stop"}} \cup {Ask("brief", "")}

\* MAX_CONCURRENT of the two machines, the first one's too small for a parent and its child.
OneSlot == [pro |-> 1, mini |-> 2]

ThreeShapes == {<<TRUE>>, <<FALSE, TRUE>>, <<TRUE, FALSE, FALSE>>}
==============================================================================
