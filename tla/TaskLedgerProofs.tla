--------------------------- MODULE TaskLedgerProofs ---------------------------
(***************************************************************************)
(* The ledger hands a task out at most once each time it becomes pending,  *)
(* for any tasks, machines, placements and bounds.                         *)
(***************************************************************************)
EXTENDS TaskLedger, TLAPS

LedgerTypeOK ==
  /\ status \in [Tasks -> Status]
  /\ assigned \in [Tasks -> Workers \cup {None}]
  /\ epochs \in [Tasks -> Nat]
  /\ claims \in [Tasks -> Nat]

LedgerInv ==
  /\ LedgerTypeOK
  /\ OneHandoutPerEpoch
  /\ \A t \in Tasks : status[t] = "absent" => claims[t] = 0

LEMMA LedgerInit == Init => LedgerInv
  BY DEF Init, LedgerInv, LedgerTypeOK, OneHandoutPerEpoch, Status

LEMMA LedgerStep == LedgerInv /\ [Next]_ledgerVars => LedgerInv'
<1> SUFFICES ASSUME LedgerInv, [Next]_ledgerVars
             PROVE  LedgerInv'
  OBVIOUS
<1> USE DEF LedgerInv, LedgerTypeOK, OneHandoutPerEpoch, Status, Held, Terminal
<1>1. ASSUME NEW t \in Tasks, NEW b \in Bodies, Create(t, b)
      PROVE  LedgerInv'
  BY <1>1 DEF Create
<1>2. ASSUME NEW t \in Tasks, NEW w \in Workers, HandOut(t, w)
      PROVE  LedgerInv'
  BY <1>2 DEF HandOut
<1>3. ASSUME NEW t \in Tasks, NEW s \in Terminal \cup {"in_progress"}, Report(t, s)
      PROVE  LedgerInv'
  BY <1>3 DEF Report
<1>4. ASSUME NEW S \in SUBSET Tasks, Reap(S)
      PROVE  LedgerInv'
  BY <1>4 DEF Reap
<1>5. ASSUME NEW t \in Tasks, NEW s \in {"done", "failed", "pending"}, Resolve(t, s)
      PROVE  LedgerInv'
  BY <1>5 DEF Resolve
<1>6. CASE UNCHANGED ledgerVars
  BY <1>6 DEF ledgerVars
<1>7. QED
  BY <1>1, <1>2, <1>3, <1>4, <1>5, <1>6 DEF Next

(***************************************************************************)
(* No task is ever claimed twice: the ledger's hand-outs of a task never   *)
(* outnumber the times it became pending (claim_next_task's status guard). *)
(***************************************************************************)
THEOREM LedgerHandsOutOnce == Spec => []OneHandoutPerEpoch
<1>1. LedgerInv => OneHandoutPerEpoch
  BY DEF LedgerInv
<1>2. QED
  BY LedgerInit, LedgerStep, <1>1, PTL DEF Spec
===============================================================================
