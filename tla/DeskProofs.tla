------------------------------ MODULE DeskProofs ------------------------------
(***************************************************************************)
(* Proofs about Desk, for any clients, workers, terminals, bodies, limits  *)
(* and windows: its types, the audit trail, keys, answers and the rate     *)
(* limit of the store, and that a command runs once, alone, and is done    *)
(* only when it ended well.                                                *)
(***************************************************************************)
EXTENDS Desk, FiniteSetTheorems, SequenceTheorems, TLAPS

-------------------------------------------------------------------------------
(* The invariants.                                                         *)

RowRecord == [intent : Intents, created : 0..MaxTime, status : Status, by : Callers \cup {None}]
CallRecord == [by : Callers, id : Ids, op : Op, step : Step, found : Status \cup {None},
               live : BOOLEAN]

\* Every row answers one request, so that there is room for its history.
RowsCounted ==
  /\ DOMAIN audit = Ids
  /\ Len(row) = Cardinality({q \in Requests : req[q].reply = "new"})

\* An answer is given once and names a row that exists.
RequestsHold ==
  \A q \in Requests :
    /\ req[q].pc # "idle" => req[q].intent \in Intents
    /\ req[q].pc # "answered" => req[q].reply = None
    /\ req[q].reply \in {"new", "same", "conflict"} => req[q].id \in Ids

\* What a worker or a terminal goes through are rows that exist.
DeskTyped ==
  /\ pc \in [Workers -> WorkerPc]
  /\ todo \in [Workers -> SUBSET Ids] /\ seen \in [Workers -> SUBSET Ids]
  /\ cmd \in [Workers -> {0} \cup Ids]
  /\ lock \in Workers \cup {None}
  /\ ran \in [Row -> Nat]
  /\ outcome \in [Row -> {"none"} \cup Ending]
  /\ showing \in [Owners -> SUBSET Ids]
  /\ shown \subseteq Ids /\ lost \subseteq Ids
  /\ faults \in 0..MaxFaults

\* A worker that has claimed a command knows which.
CommandKnown == \A w \in Workers : pc[w] \in {"claimed", "running", "reporting"} => cmd[w] \in Ids

TypeInv == StoreTyped /\ RowsCounted /\ RequestsHold /\ DeskTyped /\ CommandKnown

\* The commands of actor a that were created from t to t + RateWindow.
Window(a, t) ==
  {j \in Ids : IsCommand(j) /\ row[j].intent.actor = a /\ row[j].created \in t..(t + RateWindow)}

\* The limit holds in every window, also in one that no row begins.
EveryWindowHeld ==
  \A a \in {in.actor : in \in Intents}, t \in 0..MaxTime : Cardinality(Window(a, t)) <= RateLimit

StoreInv == AuditIsHistory /\ OneCommandPerKey /\ AnswersAreTrue /\ EveryWindowHeld

\* Row i was taken by p's consume, which nobody's can take again.
TakenBy(i, p) == row[i].by = p /\ row[i].status \notin {"queued", "recorded"}

\* A worker waits for one call at most, and it is the one its pc says.
Awaits(w, c) ==
  \/ pc[w] = "claiming" /\ c.op = "consume" /\ IsCommand(c.id)
  \/ pc[w] = "marking" /\ c.op = "failed"
  \/ pc[w] = "reporting" /\ c.op \in {"done", "failed"} /\ c.id = cmd[w]

\* A call that is answered is waited for; a claim that succeeded is of a row
\* that is now the caller's and has not run.
CallFits(c) ==
  /\ c.step \in FinalStep => c.live
  /\ c.op = "consume" /\ c.step = "ok" => TakenBy(c.id, c.by) /\ ran[c.id] = 0
  /\ c.by \in Workers /\ c.live => Awaits(c.by, c)

OneCallEach == \A c, d \in calls : c.live /\ d.live /\ c.by = d.by /\ c.by \in Workers => c = d

\* The command a worker handles is its own; it has not run before Begin, and
\* the lock is held from the start to the end of what it protects.
WorkerFits(w) ==
  /\ pc[w] \in {"claimed", "running", "reporting"} => IsCommand(cmd[w]) /\ TakenBy(cmd[w], w)
  /\ \A i \in todo[w] : IsCommand(i)
  /\ pc[w] \in {"listing", "sweeping", "marking", "running"} => lock = w
  /\ pc[w] = "claimed" => ran[cmd[w]] = 0
  /\ pc[w] = "running" => ran[cmd[w]] = 1 /\ outcome[cmd[w]] = "none"

Begun(i) == row[i].status \in {"running", "done", "failed"}

RunFits(i) ==
  /\ ran[i] <= 1
  /\ ran[i] > 0 => i \in Ids /\ Begun(i)
  /\ ran[i] = 0 => outcome[i] = "none"

KindFits(i) == row[i].status \in IF IsCommand(i) THEN {"queued", "running", "done", "failed"}
                                                ELSE {"recorded", "consumed"}

WorkInv ==
  /\ \A i \in Ids : KindFits(i)
  /\ \A c \in calls : CallFits(c)
  /\ OneCallEach
  /\ \A w \in Workers : WorkerFits(w)
  /\ \A i \in Row : RunFits(i)

\* A command that ended without an error; only a validate may be unmet.
EndedWell(i) == outcome[i] = "ok" \/ (outcome[i] = "unmet" /\ IsCheck(i))

\* A success is reported of a command that ended well only.
DoneInv ==
  /\ DoneMeansDone
  /\ \A c \in calls : c.op = "done" => EndedWell(c.id)

\* A response is on its way to be consumed after it was shown only.
ShownInv ==
  /\ ConsumedWasShown
  /\ \A o \in Owners : showing[o] \subseteq shown
  /\ \A c \in calls : c.op = "consume" /\ ~IsCommand(c.id) =>
       c.id \in shown \/ row[c.id].status # "recorded"

-------------------------------------------------------------------------------
(* The rows.                                                               *)

LEMMA Bounds ==
  /\ RateLimit \in Nat /\ RateWindow \in Nat /\ IdemWindow \in Nat /\ MaxTime \in Nat
  /\ MaxPauses \in Nat /\ MaxFaults \in Nat
  /\ IsFiniteSet(Requests) /\ Cardinality(Requests) \in Nat
BY DeskStoreAssumption, DeskAssumption, FS_CardinalityType

LEMMA StatusIs == Status = {"queued", "running", "done", "failed", "recorded", "consumed"}
BY DEF Status, Path

LEMMA RowsTyped ==
  ASSUME TypeInv
  PROVE  /\ row \in Seq(RowRecord) /\ Len(row) \in Nat /\ Ids = 1..Len(row) /\ Len(audit) = Len(row)
         /\ audit \in Seq(Seq(Status))
         /\ \A i \in Ids : row[i] \in RowRecord
         /\ Ids \subseteq Row
<1>1. /\ row \in Seq(RowRecord) /\ audit \in Seq(Seq(Status))
  BY DEF TypeInv, StoreTyped, RowRecord
<1>2. /\ Len(row) \in Nat /\ Ids = 1..Len(row)
      /\ Len(audit) \in Nat /\ DOMAIN audit = 1..Len(audit)
  BY <1>1, LenProperties DEF Ids
<1>3. Len(audit) = Len(row)
  BY <1>2 DEF TypeInv, RowsCounted
<1>4. \A i \in Ids : row[i] \in RowRecord
  BY <1>1, <1>2, ElementOfSeq
<1>5. Len(row) <= Cardinality(Requests)
  BY FS_Subset, Bounds DEF TypeInv, RowsCounted
<1>6. Ids \subseteq Row
  BY <1>2, <1>5, Bounds DEF Row
<1> QED BY <1>1, <1>2, <1>3, <1>4, <1>6

\* A new row leaves the others as they were.
LEMMA AddRowAdds ==
  ASSUME TypeInv, NEW q \in Requests, req[q].pc = "insert", NEW s \in {"queued", "recorded"}, AddRow(q, s)
  PROVE  LET n == Len(row) + 1 IN
         /\ row' \in Seq(RowRecord) /\ audit' \in Seq(Seq(Status))
         /\ Len(row') = n /\ Ids' = Ids \cup {n} /\ n \notin Ids /\ DOMAIN audit' = Ids'
         /\ \A i \in Ids : row'[i] = row[i] /\ audit'[i] = audit[i]
         /\ row'[n] = [intent |-> req[q].intent, created |-> req[q].at, status |-> s, by |-> None]
         /\ audit'[n] = <<s>>
<1> DEFINE new == [intent |-> req[q].intent, created |-> req[q].at, status |-> s, by |-> None]
<1>1. req[q].intent \in Intents /\ req[q].at \in 0..MaxTime
  BY DEF TypeInv, RequestsHold, StoreTyped
<1>2. new \in RowRecord /\ <<s>> \in Seq(Status)
  BY <1>1, StatusIs DEF RowRecord
<1>3. row' = Append(row, new) /\ audit' = Append(audit, <<s>>)
  BY DEF AddRow
<1>4. /\ row' \in Seq(RowRecord) /\ Len(row') = Len(row) + 1
      /\ \A i \in 1..Len(row) : row'[i] = row[i]
      /\ row'[Len(row) + 1] = new
  BY <1>2, <1>3, RowsTyped, AppendProperties
<1>5. /\ audit' \in Seq(Seq(Status)) /\ Len(audit') = Len(audit) + 1
      /\ \A i \in 1..Len(audit) : audit'[i] = audit[i]
      /\ audit'[Len(audit) + 1] = <<s>>
  BY <1>2, <1>3, RowsTyped, AppendProperties
<1>6. DOMAIN row' = 1..Len(row') /\ DOMAIN audit' = 1..Len(audit')
  BY <1>4, <1>5, LenProperties
<1> QED BY <1>4, <1>5, <1>6, RowsTyped DEF Ids

\* An update changes the status of one row, by at a consume, and the row's trail.
LEMMA UpdateSets ==
  ASSUME TypeInv, NEW c \in calls, Update(c), Allowed(c)
  PROVE  /\ row' \in Seq(RowRecord) /\ audit' \in Seq(Seq(Status))
         /\ Len(row') = Len(row) /\ Ids' = Ids /\ DOMAIN audit' = Ids
         /\ \A i \in Ids : /\ row'[i].intent = row[i].intent /\ row'[i].created = row[i].created
                           /\ i # c.id => row'[i] = row[i] /\ audit'[i] = audit[i]
         /\ row'[c.id].status = Target(c) /\ audit'[c.id] = Append(audit[c.id], Target(c))
         /\ row'[c.id].by = IF c.op = "consume" THEN c.by ELSE row[c.id].by
<1> DEFINE new == [row[c.id] EXCEPT !.status = Target(c), !.by = IF c.op = "consume" THEN c.by ELSE @]
<1>1. c \in CallRecord /\ c.id \in 1..Len(row) /\ c.id \in 1..Len(audit) /\ row[c.id] \in RowRecord
  BY RowsTyped DEF TypeInv, StoreTyped, CallRecord
<1>2. Target(c) \in Status
  BY <1>1, StatusIs DEF Target, CallRecord, Op
<1>3. new \in RowRecord /\ new.intent = row[c.id].intent /\ new.created = row[c.id].created
      /\ new.status = Target(c) /\ new.by = IF c.op = "consume" THEN c.by ELSE row[c.id].by
  BY <1>1, <1>2 DEF RowRecord, CallRecord
<1>4. row' = [row EXCEPT ![c.id] = new] /\ audit' = [audit EXCEPT ![c.id] = Append(@, Target(c))]
  BY <1>1, RowsTyped DEF Update
<1>5. Append(audit[c.id], Target(c)) \in Seq(Status)
  BY <1>1, <1>2, RowsTyped, ElementOfSeq, AppendProperties
<1>6. /\ row' \in Seq(RowRecord) /\ Len(row') = Len(row)
      /\ \A i \in 1..Len(row) : row'[i] = IF i = c.id THEN new ELSE row[i]
  BY <1>1, <1>3, <1>4, RowsTyped, ExceptSeq
<1>7. /\ audit' \in Seq(Seq(Status)) /\ Len(audit') = Len(audit)
      /\ \A i \in 1..Len(audit) :
           audit'[i] = IF i = c.id THEN Append(audit[c.id], Target(c)) ELSE audit[i]
  BY <1>1, <1>4, <1>5, RowsTyped, ExceptSeq
<1>8. DOMAIN row' = 1..Len(row') /\ DOMAIN audit' = 1..Len(audit')
  BY <1>6, <1>7, LenProperties
<1> QED BY <1>1, <1>3, <1>6, <1>7, <1>8, RowsTyped DEF Ids

-------------------------------------------------------------------------------
(* Types.                                                                  *)

RequestRecord ==
  [pc : {"idle", "select", "insert", "lookup", "answered"}, intent : Intents \cup {None},
   at : 0..MaxTime, reply : Reply \cup {None}, id : Nat]

RequestFits(r) ==
  /\ r \in RequestRecord
  /\ r.pc # "idle" => r.intent \in Intents
  /\ r.pc # "answered" => r.reply = None
  /\ r.reply \in {"new", "same", "conflict"} => r.id \in Ids

LEMMA TypeInvImplies == ASSUME TypeInv PROVE TypeOK
<1>1. Ids \subseteq Row
  BY RowsTyped
<1> QED BY <1>1 DEF TypeInv, DeskTyped, TypeOK

LEMMA RequestsTyped ==
  ASSUME TypeInv, NEW q \in Requests
  PROVE  /\ req \in [Requests -> RequestRecord] /\ RequestFits(req[q])
         /\ req[q].pc # "answered" => req[q].reply # "new"
BY DeskStoreAssumption DEF TypeInv, StoreTyped, RequestsHold, RequestFits, RequestRecord

LEMMA RequestMoves ==
  ASSUME TypeInv, NEW q \in Requests, NEW r, RequestFits(r), r.reply # "new", req[q].pc # "answered",
         req' = [req EXCEPT ![q] = r], UNCHANGED <<rowVars, pauseVars, now, calls>>
  PROVE  StoreTyped' /\ RowsCounted' /\ RequestsHold'
<1>1. /\ req \in [Requests -> RequestRecord] /\ r \in RequestRecord /\ req[q].reply # "new"
      /\ Ids' = Ids
  BY RequestsTyped DEF RequestFits, rowVars, Ids
<1>2. /\ req' \in [Requests -> RequestRecord] /\ req'[q] = r
      /\ \A p \in Requests \ {q} : req'[p] = req[p]
  BY <1>1
<1>3. StoreTyped'
  BY <1>1, <1>2 DEF TypeInv, StoreTyped, RequestRecord, rowVars, pauseVars
<1>4. {p \in Requests : req'[p].reply = "new"} = {p \in Requests : req[p].reply = "new"}
  BY <1>1, <1>2
<1>5. RowsCounted'
  BY <1>1, <1>4 DEF TypeInv, RowsCounted, rowVars
<1>6. RequestsHold'
  BY <1>1, <1>2 DEF TypeInv, RequestsHold, RequestFits
<1> QED BY <1>3, <1>5, <1>6

LEMMA AnswerTyped ==
  ASSUME TypeInv, NEW q \in Requests, NEW reply \in {"same", "conflict", "limited"}, NEW i \in Nat,
         reply # "limited" => i \in Ids, req[q].pc \in {"select", "lookup"},
         Answer(q, reply, i), UNCHANGED <<rowVars, pauseVars, now, calls>>
  PROVE  StoreTyped' /\ RowsCounted' /\ RequestsHold'
<1> DEFINE r == [req[q] EXCEPT !.pc = "answered", !.reply = reply, !.id = i]
<1>1. req' = [req EXCEPT ![q] = r]
  BY RequestsTyped DEF Answer, RequestRecord
<1>2. RequestFits(r) /\ r.reply # "new"
  BY RequestsTyped DEF RequestFits, RequestRecord, Reply
<1> QED BY <1>1, <1>2, RequestMoves

LEMMA ReplayTyped ==
  ASSUME TypeInv, NEW q \in Requests, NEW i \in Ids, req[q].pc \in {"select", "lookup"},
         ReplayOrConflict(q, i), UNCHANGED <<rowVars, pauseVars, now, calls>>
  PROVE  StoreTyped' /\ RowsCounted' /\ RequestsHold'
<1>1. i \in Nat
  BY RowsTyped
<1>2. CASE Answer(q, "same", i)
  BY <1>1, <1>2, AnswerTyped
<1>3. CASE Answer(q, "conflict", i)
  BY <1>1, <1>3, AnswerTyped
<1> QED BY <1>2, <1>3 DEF ReplayOrConflict

LEMMA AddRowTyped ==
  ASSUME TypeInv, NEW q \in Requests, req[q].pc = "insert", NEW s \in {"queued", "recorded"},
         AddRow(q, s), UNCHANGED <<pauseVars, now, calls>>
  PROVE  StoreTyped' /\ RowsCounted' /\ RequestsHold'
<1> DEFINE r == [req[q] EXCEPT !.pc = "answered", !.reply = "new", !.id = Len(row) + 1]
           done == {p \in Requests : req[p].reply = "new"}
<1>1. /\ row' \in Seq(RowRecord) /\ audit' \in Seq(Seq(Status)) /\ Len(row') = Len(row) + 1
      /\ Ids' = Ids \cup {Len(row) + 1} /\ DOMAIN audit' = Ids' /\ Len(row) \in Nat
  BY AddRowAdds, RowsTyped
<1>2. req' = [req EXCEPT ![q] = r] /\ r \in RequestRecord
  <2>1. req[q] \in RequestRecord /\ req \in [Requests -> RequestRecord]
    BY RequestsTyped
  <2>2. ASSUME NEW n \in Nat
        PROVE  [req[q] EXCEPT !.pc = "answered", !.reply = "new", !.id = n] \in RequestRecord
    BY <2>1 DEF RequestRecord, Reply
  <2>3. req' = [req EXCEPT ![q] = r]
    BY <2>1 DEF AddRow, Answer, RequestRecord
  <2>4. Len(row) + 1 \in Nat
    BY <1>1
  <2> QED BY <2>2, <2>3, <2>4
<1>3. /\ req' \in [Requests -> RequestRecord] /\ req'[q] = r
      /\ \A p \in Requests \ {q} : req'[p] = req[p]
  BY <1>2, RequestsTyped
<1>4. StoreTyped'
  BY <1>1, <1>3 DEF TypeInv, StoreTyped, RequestRecord, RowRecord, pauseVars
<1>5. RowsCounted'
  <2>1. q \notin done /\ done \subseteq Requests
    BY RequestsTyped
  <2>2. {p \in Requests : req'[p].reply = "new"} = done \cup {q}
    BY <1>2, <1>3
  <2>3. IsFiniteSet(done) /\ Cardinality(done) = Len(row)
    BY <2>1, Bounds, FS_Subset DEF TypeInv, RowsCounted
  <2>4. Cardinality(done \cup {q}) = Len(row) + 1
    BY <2>1, <2>3, FS_AddElement
  <2> QED BY <1>1, <2>2, <2>4 DEF RowsCounted
<1>6. RequestsHold'
  <2>1. ASSUME NEW p \in Requests, p # q
        PROVE  req'[p] = req[p] /\ RequestFits(req[p])
    BY <2>1, <1>3, RequestsTyped
  <2>2. r.intent \in Intents /\ r.pc = "answered" /\ r.id \in Ids'
    BY <1>1, <1>2, RequestsTyped DEF RequestFits, RequestRecord
  <2> QED BY <1>1, <1>3, <2>1, <2>2 DEF RequestsHold, RequestFits
<1> QED BY <1>4, <1>5, <1>6

LEMMA RequestStepTyped ==
  ASSUME TypeInv, NEW q \in Requests, RequestStep(q)
  PROVE  StoreTyped' /\ RowsCounted' /\ RequestsHold'
<1>1. ASSUME NEW in \in Intents, Receive(q, in) PROVE StoreTyped' /\ RowsCounted' /\ RequestsHold'
  <2> DEFINE r == [NoRequest EXCEPT !.pc = IF in.key = None THEN "insert" ELSE "select",
                                    !.intent = in, !.at = now]
  <2>1. req' = [req EXCEPT ![q] = r] /\ req[q].pc = "idle"
        /\ UNCHANGED <<rowVars, pauseVars, now, calls>>
    BY <1>1 DEF Receive
  <2>2. RequestFits(r) /\ r.reply # "new"
    BY DeskStoreAssumption DEF RequestFits, RequestRecord, NoRequest, TypeInv, StoreTyped
  <2> QED BY <2>1, <2>2, RequestMoves
<1>2. CASE SelectKey(q)
  <2>1. CASE req' = [req EXCEPT ![q].pc = "insert", ![q].at = now]
    <3> DEFINE r == [req[q] EXCEPT !.pc = "insert", !.at = now]
    <3>1. req' = [req EXCEPT ![q] = r] /\ req[q].pc # "answered" /\ r.pc = "insert"
          /\ UNCHANGED <<rowVars, pauseVars, now, calls>>
      BY <1>2, <2>1, RequestsTyped DEF SelectKey, RequestRecord
    <3>2. RequestFits(r) /\ r.reply # "new"
      BY <1>2, RequestsTyped DEF SelectKey, RequestFits, RequestRecord, TypeInv, StoreTyped
    <3> QED BY <3>1, <3>2, RequestMoves
  <2>2. CASE \E i \in Recent(q) : ReplayOrConflict(q, i)
    BY <1>2, <2>2, ReplayTyped DEF SelectKey, Recent
  <2> QED BY <1>2, <2>1, <2>2 DEF SelectKey
<1>3. CASE InsertResponse(q)
  BY <1>3, AddRowTyped DEF InsertResponse
<1>4. CASE InsertCommand(q)
  <2>1. CASE AddRow(q, "queued")
    BY <1>4, <2>1, AddRowTyped DEF InsertCommand
  <2>2. CASE req' = [req EXCEPT ![q].pc = "lookup"] /\ UNCHANGED rowVars
    <3> DEFINE r == [req[q] EXCEPT !.pc = "lookup"]
    <3>1. req' = [req EXCEPT ![q] = r] /\ req[q].pc # "answered" /\ r.pc = "lookup"
          /\ UNCHANGED <<rowVars, pauseVars, now, calls>>
      BY <1>4, <2>2, RequestsTyped DEF InsertCommand, RequestRecord
    <3>2. RequestFits(r) /\ r.reply # "new"
      BY <1>4, RequestsTyped DEF InsertCommand, RequestFits, RequestRecord
    <3> QED BY <3>1, <3>2, RequestMoves
  <2> QED BY <1>4, <2>1, <2>2 DEF InsertCommand
<1>5. CASE LookupKey(q)
  <2>1. CASE Answer(q, "limited", 0)
    BY <1>5, <2>1, AnswerTyped DEF LookupKey
  <2>2. CASE \E i \in Holders(req[q].intent.key) : ReplayOrConflict(q, i)
    BY <1>5, <2>2, ReplayTyped DEF LookupKey, Holders
  <2> QED BY <1>5, <2>1, <2>2 DEF LookupKey
<1> QED BY <1>1, <1>2, <1>3, <1>4, <1>5 DEF RequestStep

\* The store as callers leave it: only the calls change.
StoreKept == UNCHANGED <<rowVars, pauseVars, now, req>>

LEMMA StoreKeptTyped ==
  ASSUME TypeInv, StoreKept, calls' \subseteq CallRecord
  PROVE  StoreTyped' /\ RowsCounted' /\ RequestsHold' /\ Ids' = Ids
<1>1. Ids' = Ids
  BY DEF StoreKept, rowVars, Ids
<1> QED BY <1>1 DEF TypeInv, StoreTyped, RowsCounted, RequestsHold, StoreKept, rowVars, pauseVars, CallRecord

LEMMA CallsTyped ==
  ASSUME TypeInv
  PROVE  calls \subseteq CallRecord
BY DEF TypeInv, StoreTyped, CallRecord

LEMMA SendTyped ==
  ASSUME TypeInv, NEW p \in Callers, NEW i \in Ids, NEW op \in Op, Send(p, i, op)
  PROVE  StoreTyped' /\ RowsCounted' /\ RequestsHold' /\ Ids' = Ids
<1>1. NewCall(p, i, op) \in CallRecord
  BY DEF NewCall, CallRecord, Step, FinalStep
<1>2. calls' \subseteq CallRecord /\ StoreKept
  BY <1>1, CallsTyped DEF Send, StoreKept
<1> QED BY <1>2, StoreKeptTyped

LEMMA HearTyped ==
  ASSUME TypeInv, NEW p, NEW c, Hear(p, c)
  PROVE  StoreTyped' /\ RowsCounted' /\ RequestsHold' /\ Ids' = Ids /\ c \in CallRecord
BY CallsTyped, StoreKeptTyped DEF Hear, StoreKept, CallsOf

LEMMA GiveUpTyped ==
  ASSUME TypeInv, NEW p, GiveUp(p)
  PROVE  StoreTyped' /\ RowsCounted' /\ RequestsHold' /\ Ids' = Ids
<1>1. \A c \in calls : c \in CallRecord /\ [c EXCEPT !.live = FALSE] \in CallRecord
  BY CallsTyped DEF CallRecord
<1>2. CallsOf(p) \subseteq calls
  BY DEF CallsOf
<1>3. calls' \subseteq CallRecord /\ StoreKept
  BY <1>1, <1>2 DEF GiveUp, StoreKept
<1> QED BY <1>3, StoreKeptTyped

LEMMA GotoTyped ==
  ASSUME TypeInv, NEW c \in calls, NEW s \in Step, Goto(c, s)
  PROVE  calls' \subseteq CallRecord
<1>1. [c EXCEPT !.step = s] \in CallRecord
  BY CallsTyped DEF CallRecord
<1> QED BY <1>1, CallsTyped DEF Goto

LEMMA CallStepTyped ==
  ASSUME TypeInv, NEW c \in calls, CallStep(c)
  PROVE  StoreTyped' /\ RowsCounted' /\ RequestsHold' /\ Ids' = Ids
<1> USE DEF Step, FinalStep
<1>1. CASE ReadRow(c)
  <2>1. c \in CallRecord /\ row[c.id] \in RowRecord
    BY CallsTyped, RowsTyped DEF CallRecord
  <2>2. [c EXCEPT !.found = row[c.id].status,
                  !.step = IF IsCommand(c.id) THEN "pause" ELSE "update"] \in CallRecord
    BY <2>1 DEF CallRecord, RowRecord
  <2>3. calls' \subseteq CallRecord /\ StoreKept
    BY <1>1, <2>2, CallsTyped DEF ReadRow, StoreKept
  <2> QED BY <2>3, StoreKeptTyped
<1>2. CASE ReadPause(c)
  BY <1>2, GotoTyped, StoreKeptTyped DEF ReadPause, StoreKept
<1>3. CASE Update(c)
  <2>1. calls' \subseteq CallRecord
    BY <1>3, GotoTyped DEF Update
  <2>2. CASE ~Allowed(c)
    BY <1>3, <2>1, <2>2, StoreKeptTyped DEF Update, StoreKept
  <2>3. CASE Allowed(c)
    <3>1. /\ row' \in Seq(RowRecord) /\ audit' \in Seq(Seq(Status))
          /\ Len(row') = Len(row) /\ Ids' = Ids /\ DOMAIN audit' = Ids
      BY <1>3, <2>3, UpdateSets
    <3>2. UNCHANGED <<pauseVars, now, req>>
      BY <1>3 DEF Update
    <3>3. StoreTyped'
      BY <2>1, <3>1, <3>2 DEF TypeInv, StoreTyped, RowRecord, CallRecord, pauseVars
    <3> QED BY <3>1, <3>2, <3>3 DEF TypeInv, RowsCounted, RequestsHold
  <2> QED BY <2>2, <2>3
<1>4. CASE Recheck(c)
  BY <1>4, GotoTyped, StoreKeptTyped DEF Recheck, StoreKept
<1> QED BY <1>1, <1>2, <1>3, <1>4 DEF CallStep

LEMMA PauseTyped ==
  ASSUME TypeInv, NEW b \in BOOLEAN, SetPause(b)
  PROVE  StoreTyped' /\ RowsCounted' /\ RequestsHold' /\ Ids' = Ids
<1>1. Ids' = Ids /\ UNCHANGED <<rowVars, now, req, calls>> /\ paused' = b
  BY DEF SetPause, rowVars, Ids
<1>2. pauseLog' \in Seq([from : BOOLEAN, to : BOOLEAN])
  BY AppendProperties DEF SetPause, TypeInv, StoreTyped
<1> QED BY <1>1, <1>2 DEF TypeInv, StoreTyped, RowsCounted, RequestsHold, rowVars

LEMMA AdvanceTyped ==
  ASSUME TypeInv, Advance
  PROVE  StoreTyped' /\ RowsCounted' /\ RequestsHold' /\ Ids' = Ids
<1>1. Ids' = Ids /\ UNCHANGED <<rowVars, pauseVars, req, calls>> /\ now' \in 0..MaxTime
  BY Bounds DEF Advance, rowVars, Ids, TypeInv, StoreTyped
<1> QED BY <1>1 DEF TypeInv, StoreTyped, RowsCounted, RequestsHold, rowVars, pauseVars

\* What the store does leaves the programs as they are.
LEMMA DeskKept ==
  ASSUME TypeInv, UNCHANGED <<workVars, runVars, ownerVars, faultVars>>, Ids \subseteq Ids'
  PROVE  DeskTyped' /\ CommandKnown'
BY DEF TypeInv, DeskTyped, CommandKnown, workVars, runVars, ownerVars, faultVars

LEMMA StoreStepTyped ==
  ASSUME TypeInv, StoreStep
  PROVE  TypeInv' /\ Ids \subseteq Ids'
<1>1. Ids \subseteq Ids' /\ StoreTyped' /\ RowsCounted' /\ RequestsHold'
  <2>1. ASSUME NEW q \in Requests, RequestStep(q) PROVE Ids \subseteq Ids'
    <3>1. CASE UNCHANGED row
      BY <3>1 DEF Ids
    <3>2. CASE \E s \in {"queued", "recorded"} : req[q].pc = "insert" /\ AddRow(q, s)
      BY <3>2, AddRowAdds
    <3> QED BY <2>1, <3>1, <3>2 DEF RequestStep, Receive, SelectKey, InsertResponse, InsertCommand,
                                    LookupKey, rowVars
  <2> QED BY <2>1, RequestStepTyped, PauseTyped, CallStepTyped, AdvanceTyped DEF StoreStep, NextStore
<1> QED BY <1>1, DeskKept DEF StoreStep, TypeInv

LEMMA StoreUnchanged ==
  ASSUME TypeInv, UNCHANGED storeVars
  PROVE  StoreTyped' /\ RowsCounted' /\ RequestsHold' /\ Ids' = Ids
<1>1. StoreKept /\ calls' \subseteq CallRecord
  BY CallsTyped DEF StoreKept, storeVars
<1> QED BY <1>1, StoreKeptTyped

LEMMA CallersAre == Workers \subseteq Callers /\ Owners \subseteq Callers
BY DeskAssumption

LEMMA CommandsExist == \A s : CommandsIn(s) \subseteq Ids
BY DEF CommandsIn

LEMMA BeginTyped ==
  ASSUME TypeInv, NEW w \in Workers, pc[w] = "claimed"
  PROVE  [ran EXCEPT ![cmd[w]] = @ + 1] \in [Row -> Nat]
<1>1. cmd[w] \in Row /\ ran \in [Row -> Nat]
  BY RowsTyped DEF TypeInv, DeskTyped, CommandKnown
<1> QED BY <1>1

\* A worker that stops handling what it was at.
LEMMA StopsTyped ==
  ASSUME TypeInv, NEW w \in Workers, NEW p \in {"down", "idle"}, GiveUp(w), Fault,
         pc' = [pc EXCEPT ![w] = p], lock' = IF lock = w THEN None ELSE lock,
         todo' = [todo EXCEPT ![w] = {}], cmd' = [cmd EXCEPT ![w] = 0],
         lost' \subseteq lost \cup {c.id : c \in CallsOf(w)}, seen' = [seen EXCEPT ![w] = {}],
         UNCHANGED <<runVars, ownerVars>>
  PROVE  TypeInv'
<1>1. StoreTyped' /\ RowsCounted' /\ RequestsHold' /\ Ids' = Ids
  BY GiveUpTyped
<1>2. {c.id : c \in CallsOf(w)} \subseteq Ids
  BY CallsTyped DEF CallsOf, CallRecord
<1>3. DeskTyped'
  BY <1>1, <1>2, Bounds DEF TypeInv, DeskTyped, WorkerPc, Fault, runVars, ownerVars
<1>4. CommandKnown'
  BY <1>1 DEF TypeInv, DeskTyped, CommandKnown
<1> QED BY <1>1, <1>3, <1>4 DEF TypeInv

LEMMA WorkerStepTyped ==
  ASSUME TypeInv, NEW w \in Workers, WorkerStep(w)
  PROVE  TypeInv' /\ Ids' = Ids
<1> DEFINE StoreTypedNext == StoreTyped' /\ RowsCounted' /\ RequestsHold' /\ Ids' = Ids
           DeskTypedNext == DeskTyped' /\ CommandKnown'
<1> SUFFICES StoreTypedNext /\ DeskTypedNext
  BY DEF TypeInv
<1> USE CallersAre DEF At, WorkerPc
<1>1. CASE Start(w)
  <2>1. StoreTypedNext BY <1>1, StoreUnchanged DEF Start
  <2> QED BY <1>1, <2>1 DEF TypeInv, DeskTyped, CommandKnown, Start, runVars, ownerVars, faultVars
<1>2. CASE ListRunning(w)
  <2>1. StoreTypedNext BY <1>2, StoreUnchanged DEF ListRunning
  <2>2. CommandsIn("running") \ seen[w] \subseteq Ids BY CommandsExist
  <2> QED BY <1>2, <2>1, <2>2 DEF TypeInv, DeskTyped, CommandKnown, ListRunning, runVars, ownerVars, faultVars
<1>3. CASE MarkFailed(w)
  <2>1. PICK i \in Least(todo[w]) : Send(w, i, "failed") BY <1>3 DEF MarkFailed
  <2>2. i \in Ids BY <2>1 DEF TypeInv, DeskTyped, Least
  <2>3. StoreTypedNext BY <2>1, <2>2, SendTyped DEF Op
  <2> QED BY <1>3, <2>3 DEF TypeInv, DeskTyped, CommandKnown, MarkFailed, runVars, ownerVars, faultVars
<1>4. CASE Tick(w)
  <2>1. StoreTypedNext BY <1>4, StoreUnchanged DEF Tick
  <2>2. CommandsIn("queued") \subseteq Ids BY CommandsExist
  <2> QED BY <1>4, <2>1, <2>2 DEF TypeInv, DeskTyped, CommandKnown, Tick, runVars, ownerVars, faultVars
<1>5. CASE Claim(w)
  <2>1. PICK i \in Least(todo[w]) : Send(w, i, "consume") BY <1>5 DEF Claim
  <2>2. i \in Ids BY <2>1 DEF TypeInv, DeskTyped, Least
  <2>3. StoreTypedNext BY <2>1, <2>2, SendTyped DEF Op
  <2> QED BY <1>5, <2>3 DEF TypeInv, DeskTyped, CommandKnown, Claim, runVars, ownerVars, faultVars
<1>6. CASE ScanEnds(w)
  <2>1. StoreTypedNext BY <1>6, StoreUnchanged DEF ScanEnds
  <2> QED BY <1>6, <2>1 DEF TypeInv, DeskTyped, CommandKnown, ScanEnds, runVars, ownerVars, faultVars
<1>7. CASE Begin(w)
  <2>1. StoreTypedNext BY <1>7, StoreUnchanged DEF Begin
  <2>2. ran' \in [Row -> Nat] BY <1>7, BeginTyped DEF Begin
  <2> QED BY <1>7, <2>1, <2>2 DEF TypeInv, DeskTyped, CommandKnown, Begin, ownerVars, faultVars
<1>8. CASE Busy(w)
  <2>1. cmd[w] \in Ids BY <1>8 DEF Busy, TypeInv, CommandKnown
  <2>2. StoreTypedNext BY <1>8, <2>1, SendTyped DEF Busy, Op
  <2> QED BY <1>8, <2>1, <2>2 DEF TypeInv, DeskTyped, CommandKnown, Busy, runVars, ownerVars, faultVars
<1>9. ASSUME NEW how \in Ending, End(w, how) PROVE StoreTypedNext /\ DeskTypedNext
  <2>1. cmd[w] \in Ids BY <1>9 DEF End, TypeInv, CommandKnown
  <2>2. StoreTypedNext BY <1>9, <2>1, SendTyped DEF End, Op
  <2> QED BY <1>9, <2>1, <2>2 DEF TypeInv, DeskTyped, CommandKnown, End, ownerVars, faultVars
<1>10. ASSUME NEW c \in CallsOf(w), Marked(w, c) PROVE StoreTypedNext /\ DeskTypedNext
  <2>1. StoreTypedNext /\ c \in CallRecord BY <1>10, HearTyped DEF Marked
  <2>2. c.id \in Ids BY <2>1 DEF CallRecord
  <2> QED BY <1>10, <2>1, <2>2 DEF TypeInv, DeskTyped, CommandKnown, Marked, runVars, ownerVars, faultVars
<1>11. ASSUME NEW c \in CallsOf(w), Claimed(w, c) PROVE StoreTypedNext /\ DeskTypedNext
  <2>1. StoreTypedNext /\ c \in CallRecord BY <1>11, HearTyped DEF Claimed
  <2>2. c.id \in Ids BY <2>1 DEF CallRecord
  <2> QED BY <1>11, <2>1, <2>2 DEF TypeInv, DeskTyped, CommandKnown, Claimed, runVars, ownerVars, faultVars
<1>12. ASSUME NEW c \in CallsOf(w), Reported(w, c) PROVE StoreTypedNext /\ DeskTypedNext
  <2>1. StoreTypedNext BY <1>12, HearTyped DEF Reported
  <2> QED BY <1>12, <2>1 DEF TypeInv, DeskTyped, CommandKnown, Reported, runVars, ownerVars, faultVars
<1> QED BY <1>1, <1>2, <1>3, <1>4, <1>5, <1>6, <1>7, <1>8, <1>9, <1>10, <1>11, <1>12 DEF WorkerStep

LEMMA FaultStepTyped ==
  ASSUME TypeInv, NEW w \in Workers, Unreachable(w) \/ Crash(w)
  PROVE  TypeInv' /\ Ids' = Ids
<1>1. CASE Unreachable(w)
  <2>1. PICK p \in {"down", "idle"} : pc' = [pc EXCEPT ![w] = p]
    BY <1>1 DEF Unreachable, TypeInv, DeskTyped
  <2> QED BY <1>1, <2>1, StopsTyped, GiveUpTyped DEF Unreachable
<1>2. CASE Crash(w)
  BY <1>2, StopsTyped, GiveUpTyped DEF Crash
<1> QED BY <1>1, <1>2

LEMMA OwnerStepTyped ==
  ASSUME TypeInv, NEW o \in Owners, OwnerStep(o)
  PROVE  TypeInv' /\ Ids' = Ids
<1> DEFINE StoreTypedNext == StoreTyped' /\ RowsCounted' /\ RequestsHold' /\ Ids' = Ids
           DeskTypedNext == DeskTyped' /\ CommandKnown'
<1> SUFFICES StoreTypedNext /\ DeskTypedNext
  BY DEF TypeInv
<1> USE CallersAre DEF Pending
<1>1. CASE Show(o)
  <2>1. StoreTypedNext BY <1>1, StoreUnchanged DEF Show
  <2> QED BY <1>1, <2>1 DEF TypeInv, DeskTyped, CommandKnown, Show, workVars, runVars, faultVars
<1>2. CASE ConsumeShown(o)
  <2>1. PICK i \in Least(showing[o]) : /\ Send(o, i, "consume")
                                       /\ showing' = [showing EXCEPT ![o] = @ \ {i}]
    BY <1>2 DEF ConsumeShown
  <2>2. i \in Ids BY <2>1 DEF TypeInv, DeskTyped, Least
  <2>3. StoreTypedNext BY <2>1, <2>2, SendTyped DEF Op
  <2> QED BY <1>2, <2>1, <2>3 DEF TypeInv, DeskTyped, CommandKnown, ConsumeShown, workVars, runVars, faultVars
<1>3. ASSUME NEW i \in Ids, ConsumeOne(o, i) PROVE StoreTypedNext /\ DeskTypedNext
  <2>1. StoreTypedNext BY <1>3, SendTyped DEF ConsumeOne, Op
  <2> QED BY <1>3, <2>1 DEF TypeInv, DeskTyped, CommandKnown, ConsumeOne, workVars, runVars, faultVars
<1>4. ASSUME NEW c \in CallsOf(o), OwnerHears(o, c) PROVE StoreTypedNext /\ DeskTypedNext
  <2>1. StoreTypedNext BY <1>4, HearTyped DEF OwnerHears
  <2> QED BY <1>4, <2>1 DEF TypeInv, DeskTyped, CommandKnown, OwnerHears, workVars, runVars, ownerVars, faultVars
<1>5. CASE OwnerUnanswered(o)
  <2>1. StoreTypedNext BY <1>5, GiveUpTyped DEF OwnerUnanswered
  <2> QED BY <1>5, <2>1, Bounds DEF TypeInv, DeskTyped, CommandKnown, OwnerUnanswered, Fault, workVars, runVars
<1> QED BY <1>1, <1>2, <1>3, <1>4, <1>5 DEF OwnerStep

LEMMA InitTyped == Init => TypeInv
<1> SUFFICES ASSUME Init PROVE TypeInv
  OBVIOUS
<1>1. row = <<>> /\ audit = <<>> /\ Ids = {} /\ Len(row) = 0 /\ DOMAIN audit = {}
  BY DEF Init, InitStore, Ids
<1>2. \A q \in Requests : req[q] = NoRequest
  BY DEF Init, InitStore
<1>3. StoreTyped
  <2>1. req \in [Requests -> RequestRecord] /\ calls = {} /\ now \in 0..MaxTime /\ paused \in BOOLEAN
    <3>1. NoRequest \in RequestRecord BY Bounds DEF NoRequest, RequestRecord
    <3>2. 0 \in 0..MaxTime BY Bounds
    <3> QED BY <3>1, <3>2 DEF Init, InitStore
  <2>2. \A S : <<>> \in Seq(S)
    BY EmptySeq
  <2>3. pauseLog = <<>>
    BY DEF Init, InitStore
  <2> QED BY <1>1, <2>1, <2>2, <2>3 DEF StoreTyped, RequestRecord
<1>4. {q \in Requests : req[q].reply = "new"} = {}
  BY <1>2, DeskStoreAssumption DEF NoRequest
<1>5. RowsCounted
  BY <1>1, <1>4, FS_EmptySet DEF RowsCounted
<1>6. RequestsHold
  BY <1>2, DeskStoreAssumption DEF RequestsHold, NoRequest
<1>7. DeskTyped /\ CommandKnown
  BY <1>1, Bounds DEF Init, DeskTyped, CommandKnown, WorkerPc
<1> QED BY <1>3, <1>5, <1>6, <1>7 DEF TypeInv

LEMMA NextTyped == ASSUME TypeInv, [Next]_vars PROVE TypeInv' /\ Ids \subseteq Ids'
<1>1. CASE UNCHANGED vars
  BY <1>1, StoreUnchanged, DeskKept DEF vars, TypeInv
<1> QED BY <1>1, StoreStepTyped, WorkerStepTyped, FaultStepTyped, OwnerStepTyped DEF Next

(***************************************************************************)
(* The state has the types TypeOK says, with any clients and programs; in  *)
(* particular there are never more rows than requests.                     *)
(***************************************************************************)
THEOREM TypeCorrect == Spec => []TypeOK
<1>1. TypeInv /\ [Next]_vars => TypeInv'
  BY NextTyped
<1>2. TypeInv => TypeOK
  BY TypeInvImplies
<1> QED BY <1>1, <1>2, InitTyped, PTL DEF Spec

-------------------------------------------------------------------------------
(* The store: what a step may do to the rows, and what follows.            *)

RecordsResponse(q) ==
  /\ req[q].pc = "insert" /\ req[q].intent.kind = "response"
  /\ AddRow(q, "recorded")

QueuesCommand(q) ==
  /\ req[q].pc = "insert" /\ req[q].intent.kind = "command"
  /\ Cardinality(Counted(q)) < RateLimit /\ Holders(req[q].intent.key) = {}
  /\ AddRow(q, "queued")

Inserts(q) == RecordsResponse(q) \/ QueuesCommand(q)

LEMMA CallersKeepStore ==
  ASSUME NEW p, WorkerStep(p) \/ Unreachable(p) \/ Crash(p) \/ OwnerStep(p)
  PROVE  StoreKept
<1> USE DEF StoreKept, storeVars, Send, Hear, GiveUp
<1>1. CASE WorkerStep(p)
  BY <1>1 DEF WorkerStep, Start, ListRunning, MarkFailed, Tick, Claim, ScanEnds, Begin, Busy, End,
              Marked, Claimed, Reported
<1>2. CASE Unreachable(p) \/ Crash(p)
  BY <1>2 DEF Unreachable, Crash
<1>3. CASE OwnerStep(p)
  BY <1>3 DEF OwnerStep, Show, ConsumeShown, ConsumeOne, OwnerHears, OwnerUnanswered
<1> QED BY <1>1, <1>2, <1>3

LEMMA RowStep ==
  ASSUME [Next]_vars
  PROVE  \/ UNCHANGED rowVars
         \/ \E q \in Requests : Inserts(q)
         \/ \E c \in calls : Update(c) /\ Allowed(c)
<1>1. CASE UNCHANGED vars
  BY <1>1 DEF vars, storeVars
<1>2. ASSUME NEW q \in Requests, RequestStep(q)
      PROVE  UNCHANGED rowVars \/ Inserts(q)
  <2>1. CASE InsertCommand(q)
    BY <2>1 DEF InsertCommand, Inserts, QueuesCommand
  <2>2. CASE InsertResponse(q)
    BY <2>2 DEF InsertResponse, Inserts, RecordsResponse
  <2> QED BY <1>2, <2>1, <2>2 DEF RequestStep, Receive, SelectKey, LookupKey
<1>3. ASSUME NEW c \in calls, CallStep(c)
      PROVE  UNCHANGED rowVars \/ (Update(c) /\ Allowed(c))
  BY <1>3 DEF CallStep, ReadRow, ReadPause, Update, Recheck
<1>4. CASE StoreStep
  BY <1>2, <1>3, <1>4 DEF StoreStep, NextStore, SetPause, Advance
<1> QED BY <1>1, <1>4, CallersKeepStore DEF Next, StoreKept

LEMMA InsertsAdds ==
  ASSUME TypeInv, NEW q \in Requests, Inserts(q)
  PROVE  LET n == Len(row) + 1 IN
         /\ Ids' = Ids \cup {n} /\ n \notin Ids /\ DOMAIN audit' = Ids'
         /\ \A i \in Ids : row'[i] = row[i] /\ audit'[i] = audit[i]
         /\ row'[n].intent = req[q].intent /\ row'[n].created = req[q].at /\ row'[n].by = None
         /\ row'[n].status \in {"queued", "recorded"} /\ audit'[n] = <<row'[n].status>>
         /\ RecordsResponse(q) <=> row'[n].status = "recorded"
<1>1. PICK s \in {"queued", "recorded"} : req[q].pc = "insert" /\ AddRow(q, s)
                                          /\ (RecordsResponse(q) <=> s = "recorded")
  <2>1. req[q].intent.kind = "response" => ~QueuesCommand(q) BY DEF QueuesCommand
  <2>2. req[q].intent.kind = "command" => ~RecordsResponse(q) BY DEF RecordsResponse
  <2>3. CASE RecordsResponse(q) BY <2>3 DEF RecordsResponse
  <2>4. CASE QueuesCommand(q) BY <2>2, <2>4 DEF QueuesCommand
  <2> QED BY <2>3, <2>4 DEF Inserts
<1> DEFINE n == Len(row) + 1
<1>2. row'[n] = [intent |-> req[q].intent, created |-> req[q].at, status |-> s, by |-> None]
      /\ audit'[n] = <<s>>
  BY <1>1, AddRowAdds
<1>3. /\ Ids' = Ids \cup {n} /\ n \notin Ids /\ DOMAIN audit' = Ids'
      /\ \A i \in Ids : row'[i] = row[i] /\ audit'[i] = audit[i]
  BY <1>1, AddRowAdds
<1> HIDE DEF n
<1>4. row'[n].status = s /\ (RecordsResponse(q) <=> s = "recorded")
  BY <1>1, <1>2
<1>5. /\ row'[n].intent = req[q].intent /\ row'[n].created = req[q].at /\ row'[n].by = None
      /\ row'[n].status \in {"queued", "recorded"} /\ audit'[n] = <<row'[n].status>>
  BY <1>2
<1> QED BY <1>3, <1>4, <1>5 DEF n

\* What a row asks for never changes.
LEMMA RowsStay ==
  ASSUME TypeInv, [Next]_vars
  PROVE  /\ Ids \subseteq Ids'
         /\ \A i \in Ids : /\ row'[i].intent = row[i].intent /\ row'[i].created = row[i].created
                           /\ IsCommand(i)' <=> IsCommand(i)
<1>1. CASE UNCHANGED rowVars
  BY <1>1 DEF rowVars, Ids, IsCommand
<1>2. CASE \E q \in Requests : Inserts(q)
  BY <1>2, InsertsAdds DEF IsCommand
<1>3. CASE \E c \in calls : Update(c) /\ Allowed(c)
  BY <1>3, UpdateSets DEF IsCommand
<1> QED BY <1>1, <1>2, <1>3, RowStep

LEMMA AppendToOne == ASSUME NEW x, NEW y PROVE Append(<<x>>, y) = <<x, y>>
<1> DEFINE S == {x, y}
<1>1. /\ <<x>> \in Seq(S) /\ y \in S /\ <<x, y>> \in Seq(S)
      /\ Len(<<x>>) = 1 /\ Len(<<x, y>>) = 2 /\ <<x>>[1] = x
  OBVIOUS
<1> HIDE DEF S
<1>2. /\ Append(<<x>>, y) \in Seq(S) /\ Len(Append(<<x>>, y)) = 2
      /\ Append(<<x>>, y)[1] = x /\ Append(<<x>>, y)[2] = y
  BY <1>1, AppendProperties
<1>3. \A i \in 1..2 : Append(<<x>>, y)[i] = <<x, y>>[i]
  BY <1>2
<1> QED BY <1>1, <1>2, <1>3, SeqEqual

LEMMA AppendToTwo == ASSUME NEW x, NEW y, NEW z PROVE Append(<<x, y>>, z) = <<x, y, z>>
<1> DEFINE S == {x, y, z}
<1>1. /\ <<x, y>> \in Seq(S) /\ z \in S /\ <<x, y, z>> \in Seq(S)
      /\ Len(<<x, y>>) = 2 /\ Len(<<x, y, z>>) = 3 /\ <<x, y>>[1] = x /\ <<x, y>>[2] = y
  OBVIOUS
<1> HIDE DEF S
<1>2. /\ Append(<<x, y>>, z) \in Seq(S) /\ Len(Append(<<x, y>>, z)) = 3
      /\ Append(<<x, y>>, z)[1] = x /\ Append(<<x, y>>, z)[2] = y /\ Append(<<x, y>>, z)[3] = z
  BY <1>1, AppendProperties
<1>3. \A i \in 1..3 : Append(<<x, y>>, z)[i] = <<x, y, z>>[i]
  BY <1>2
<1> QED BY <1>1, <1>2, <1>3, SeqEqual

LEMMA PathSteps ==
  /\ Path["queued"] = <<"queued">> /\ Path["recorded"] = <<"recorded">>
  /\ Append(Path["queued"], "running") = Path["running"]
  /\ Append(Path["running"], "done") = Path["done"]
  /\ Append(Path["running"], "failed") = Path["failed"]
  /\ Append(Path["recorded"], "consumed") = Path["consumed"]
BY AppendToOne, AppendToTwo DEF Path

LEMMA AuditStep ==
  ASSUME TypeInv, AuditIsHistory, [Next]_vars
  PROVE  AuditIsHistory'
<1>1. CASE UNCHANGED rowVars
  BY <1>1 DEF AuditIsHistory, rowVars, Ids
<1>2. ASSUME NEW q \in Requests, Inserts(q) PROVE AuditIsHistory'
  BY <1>2, InsertsAdds, PathSteps DEF AuditIsHistory, Ids
<1>3. ASSUME NEW c \in calls, Update(c), Allowed(c) PROVE AuditIsHistory'
  <2>1. c.id \in Ids /\ c.op \in {"consume", "done", "failed"}
    BY CallsTyped DEF CallRecord, Op
  <2>2. Append(Path[row[c.id].status], Target(c)) = Path[Target(c)]
    BY <1>3, <2>1, PathSteps DEF Allowed, Target
  <2>3. /\ Ids' = Ids /\ DOMAIN audit' = Ids
        /\ \A i \in Ids \ {c.id} : row'[i] = row[i] /\ audit'[i] = audit[i]
        /\ row'[c.id].status = Target(c) /\ audit'[c.id] = Append(audit[c.id], Target(c))
    BY <1>3, UpdateSets
  <2> QED BY <2>1, <2>2, <2>3 DEF AuditIsHistory, Ids
<1> QED BY <1>1, <1>2, <1>3, RowStep

LEMMA KeysStep ==
  ASSUME TypeInv, OneCommandPerKey, [Next]_vars
  PROVE  OneCommandPerKey'
<1>1. CASE Ids' = Ids
  BY <1>1, RowsStay DEF OneCommandPerKey
<1>2. ASSUME NEW q \in Requests, Inserts(q) PROVE OneCommandPerKey'
  <2> PICK n : n = Len(row) + 1
    OBVIOUS
  <2>1. Ids' = Ids \cup {n} /\ n \notin Ids /\ \A i \in Ids : row'[i] = row[i]
    BY <1>2, InsertsAdds
  <2>2. row'[n].intent = req[q].intent
    BY <1>2, InsertsAdds
  <2>3. IsCommand(n)' => Holders(req[q].intent.key) = {}
    BY <1>2, <2>2 DEF IsCommand, Inserts, RecordsResponse, QueuesCommand
  <2>4. IsCommand(n)' => \A i \in Ids : IsCommand(i) => row[i].intent.key # row'[n].intent.key
    BY <2>2, <2>3 DEF Holders
  <2>5. \A i \in Ids : IsCommand(i)' <=> IsCommand(i)
    BY <2>1 DEF IsCommand
  <2>6. ASSUME NEW i \in Ids', NEW j \in Ids', IsCommand(i)', IsCommand(j)',
               row'[i].intent.key = row'[j].intent.key
        PROVE  i = j
    BY <2>1, <2>4, <2>5, <2>6 DEF OneCommandPerKey
  <2> QED BY <2>6 DEF OneCommandPerKey
<1>3. CASE \E c \in calls : Update(c) /\ Allowed(c)
  BY <1>1, <1>3, UpdateSets
<1> QED BY <1>1, <1>2, <1>3, RowStep DEF rowVars, Ids

LEMMA RequestsStep ==
  ASSUME [Next]_vars
  PROVE  UNCHANGED req \/ \E q \in Requests : RequestStep(q)
<1>1. CASE StoreStep
  BY <1>1 DEF StoreStep, NextStore, SetPause, Advance, CallStep, ReadRow, ReadPause, Update, Recheck
<1>2. CASE UNCHANGED vars
  BY <1>2 DEF vars, storeVars
<1> QED BY <1>1, <1>2, CallersKeepStore DEF Next, StoreKept

\* What a request that is answered in this step is told.
LEMMA AnswerStep ==
  ASSUME TypeInv, NEW q \in Requests, RequestStep(q)
  PROVE  /\ \A p \in Requests \ {q} : req'[p] = req[p]
         /\ req'[q].reply \in {"new", "same"} => row'[req'[q].id].intent = req'[q].intent
         /\ req'[q].reply = "conflict" => row'[req'[q].id].intent # req'[q].intent
<1> DEFINE True == /\ req'[q].reply \in {"new", "same"} => row'[req'[q].id].intent = req'[q].intent
                   /\ req'[q].reply = "conflict" => row'[req'[q].id].intent # req'[q].intent
           Others == \A p \in Requests \ {q} : req'[p] = req[p]
<1>1. req \in [Requests -> RequestRecord] /\ req[q].pc # "answered" => req[q].reply = None
  BY RequestsTyped DEF RequestFits
<1>2. ASSUME NEW i \in Ids, ReplayOrConflict(q, i), UNCHANGED rowVars PROVE Others /\ True
  <2>1. row' = row BY <1>2 DEF rowVars
  <2>2. Others BY <1>2, RequestsTyped DEF ReplayOrConflict, Answer
  <2>3. /\ req'[q].id = i /\ req'[q].intent = req[q].intent
        /\ req'[q].reply = IF row[i].intent = req[q].intent THEN "same" ELSE "conflict"
    BY <1>2, RequestsTyped DEF ReplayOrConflict, Answer, RequestRecord
  <2> QED BY <2>1, <2>2, <2>3
<1>3. ASSUME Inserts(q) PROVE Others /\ True
  <2>1. Others
    BY <1>3, RequestsTyped DEF Inserts, RecordsResponse, QueuesCommand, AddRow, Answer
  <2>2. req'[q].id = Len(row) + 1 /\ req'[q].intent = req[q].intent /\ req'[q].reply = "new"
    BY <1>3, RequestsTyped DEF Inserts, RecordsResponse, QueuesCommand, AddRow, Answer, RequestRecord
  <2> QED BY <1>3, <2>1, <2>2, InsertsAdds
<1>4. ASSUME NEW r, r.reply \notin {"new", "same", "conflict"}, req' = [req EXCEPT ![q] = r]
      PROVE  Others /\ True
  BY <1>4, RequestsTyped
<1>5. ASSUME NEW in \in Intents, Receive(q, in) PROVE Others /\ True
  <2> DEFINE r == [NoRequest EXCEPT !.pc = IF in.key = None THEN "insert" ELSE "select",
                                    !.intent = in, !.at = now]
  <2>1. r.reply = None BY DEF NoRequest
  <2> QED BY <1>4, <1>5, <2>1, DeskStoreAssumption DEF Receive
<1>6. CASE SelectKey(q)
  <2>1. CASE \E i \in Recent(q) : ReplayOrConflict(q, i)
    BY <1>2, <1>6, <2>1 DEF SelectKey, Recent
  <2>2. CASE req' = [req EXCEPT ![q].pc = "insert", ![q].at = now]
    <3> DEFINE r == [req[q] EXCEPT !.pc = "insert", !.at = now]
    <3>1. req' = [req EXCEPT ![q] = r] /\ r.reply = None
      BY <1>1, <1>6, <2>2, RequestsTyped DEF SelectKey, RequestRecord, RequestFits
    <3> QED BY <1>4, <3>1, DeskStoreAssumption
  <2> QED BY <1>6, <2>1, <2>2 DEF SelectKey
<1>7. CASE InsertResponse(q)
  BY <1>3, <1>7 DEF InsertResponse, Inserts, RecordsResponse
<1>8. CASE InsertCommand(q)
  <2>1. CASE Inserts(q)
    BY <1>3, <2>1
  <2>2. CASE req' = [req EXCEPT ![q].pc = "lookup"]
    <3> DEFINE r == [req[q] EXCEPT !.pc = "lookup"]
    <3>1. req' = [req EXCEPT ![q] = r] /\ r.reply = None
      BY <1>1, <1>8, <2>2, RequestsTyped DEF InsertCommand, RequestRecord, RequestFits
    <3> QED BY <1>4, <3>1, DeskStoreAssumption
  <2> QED BY <1>8, <2>1, <2>2 DEF InsertCommand, Inserts, QueuesCommand
<1>9. CASE LookupKey(q)
  <2>1. CASE \E i \in Holders(req[q].intent.key) : ReplayOrConflict(q, i)
    BY <1>2, <1>9, <2>1 DEF LookupKey, Holders
  <2>2. CASE Answer(q, "limited", 0)
    BY <1>9, <2>2, RequestsTyped DEF Answer, RequestRecord
  <2> QED BY <1>9, <2>1, <2>2 DEF LookupKey
<1> QED BY <1>5, <1>6, <1>7, <1>8, <1>9 DEF RequestStep

LEMMA AnswersStep ==
  ASSUME TypeInv, AnswersAreTrue, [Next]_vars
  PROVE  AnswersAreTrue'
<1>1. ASSUME NEW p \in Requests, req'[p] = req[p]
      PROVE  /\ req'[p].reply \in {"new", "same"} => row'[req'[p].id].intent = req'[p].intent
             /\ req'[p].reply = "conflict" => row'[req'[p].id].intent # req'[p].intent
  BY <1>1, RowsStay, RequestsTyped DEF AnswersAreTrue, RequestFits
<1>2. ASSUME NEW q \in Requests, RequestStep(q) PROVE AnswersAreTrue'
  BY <1>1, <1>2, AnswerStep DEF AnswersAreTrue
<1> QED BY <1>1, <1>2, RequestsStep DEF AnswersAreTrue

LEMMA WindowsStep ==
  ASSUME TypeInv, EveryWindowHeld, [Next]_vars
  PROVE  EveryWindowHeld'
<1> SUFFICES ASSUME NEW a \in {in.actor : in \in Intents}, NEW t \in 0..MaxTime
             PROVE  Cardinality(Window(a, t)') <= RateLimit
  BY DEF EveryWindowHeld
<1> USE Bounds
<1>1. Cardinality(Window(a, t)) <= RateLimit
  BY DEF EveryWindowHeld
<1>2. IsFiniteSet(Ids)
  BY RowsTyped, FS_Interval
<1>3. CASE Ids' = Ids
  <2>1. Window(a, t)' = Window(a, t)
    BY <1>3, RowsStay DEF Window
  <2> QED BY <1>1, <2>1
<1>4. ASSUME NEW q \in Requests, Inserts(q) PROVE Cardinality(Window(a, t)') <= RateLimit
  <2> PICK n : n = Len(row) + 1
    OBVIOUS
  <2>1. /\ Ids' = Ids \cup {n} /\ n \notin Ids /\ \A i \in Ids : row'[i] = row[i]
        /\ row'[n].intent = req[q].intent /\ row'[n].created = req[q].at
    BY <1>4, InsertsAdds
  <2>2. Window(a, t)' \in {Window(a, t), Window(a, t) \cup {n}}
    BY <2>1 DEF Window, IsCommand
  <2>3. ASSUME n \in Window(a, t)' PROVE Window(a, t) \subseteq Counted(q) /\ QueuesCommand(q)
    <3>1. /\ req[q].intent.actor = a /\ req[q].intent.kind = "command"
          /\ req[q].at \in t..(t + RateWindow)
      BY <2>1, <2>3 DEF Window, IsCommand
    <3>2. QueuesCommand(q)
      BY <1>4, <3>1 DEF Inserts, RecordsResponse
    <3>3. \A j \in Ids : row[j].created \in Nat
      BY RowsTyped DEF RowRecord
    <3>4. req[q].at \in Nat
      BY RequestsTyped DEF RequestRecord
    <3> QED BY <3>1, <3>2, <3>3, <3>4 DEF Window, Counted
  <2>4. CASE Window(a, t)' = Window(a, t)
    BY <1>1, <2>4
  <2>5. CASE Window(a, t)' = Window(a, t) \cup {n}
    <3>1. Window(a, t) \subseteq Counted(q) /\ Cardinality(Counted(q)) < RateLimit
      BY <2>3, <2>5 DEF QueuesCommand
    <3>2. IsFiniteSet(Counted(q)) /\ IsFiniteSet(Window(a, t)) /\ n \notin Window(a, t)
      BY <1>2, <2>1, FS_Subset DEF Counted, Window
    <3>3. Cardinality(Window(a, t)) <= Cardinality(Counted(q))
      BY <3>1, <3>2, FS_Subset
    <3>4. Cardinality(Window(a, t) \cup {n}) = Cardinality(Window(a, t)) + 1
      BY <3>2, FS_AddElement
    <3>5. Cardinality(Window(a, t)) \in Nat /\ Cardinality(Counted(q)) \in Nat
      BY <3>2, FS_CardinalityType
    <3> QED BY <2>5, <3>1, <3>3, <3>4, <3>5
  <2> QED BY <2>2, <2>4, <2>5
<1>5. CASE \E c \in calls : Update(c) /\ Allowed(c)
  BY <1>3, <1>5, UpdateSets
<1> QED BY <1>3, <1>4, <1>5, RowStep DEF rowVars, Ids

LEMMA InitStoreInv == Init => StoreInv
<1> SUFFICES ASSUME Init PROVE StoreInv
  OBVIOUS
<1>1. row = <<>> /\ audit = <<>> /\ Ids = {} /\ \A q \in Requests : req[q] = NoRequest
  BY DEF Init, InitStore, Ids
<1>2. \A a, t : Window(a, t) = {}
  BY <1>1 DEF Window
<1>3. EveryWindowHeld
  BY <1>2, Bounds, FS_EmptySet DEF EveryWindowHeld
<1>4. AnswersAreTrue
  BY <1>1, DeskStoreAssumption DEF AnswersAreTrue, NoRequest
<1>5. AuditIsHistory /\ OneCommandPerKey
  BY <1>1 DEF AuditIsHistory, OneCommandPerKey
<1> QED BY <1>3, <1>4, <1>5 DEF StoreInv

LEMMA RateFollows == ASSUME TypeInv, EveryWindowHeld PROVE RateIsHeld
<1> SUFFICES ASSUME NEW i \in Ids
             PROVE  Cardinality(Window(row[i].intent.actor, row[i].created)) <= RateLimit
  BY DEF RateIsHeld, Window
<1> QED BY RowsTyped DEF RowRecord, EveryWindowHeld

LEMMA StoreInvariant == Spec => [](TypeInv /\ StoreInv)
<1>1. TypeInv /\ StoreInv /\ [Next]_vars => (TypeInv /\ StoreInv)'
  BY NextTyped, AuditStep, KeysStep, AnswersStep, WindowsStep DEF StoreInv
<1> QED BY <1>1, InitTyped, InitStoreInv, PTL DEF Spec

(***************************************************************************)
(* The audit trail is each row's whole history (AUDIT_IF_CHANGED), however *)
(* the requests, the calls and what was given up interleave.               *)
(***************************************************************************)
THEOREM AuditTrail == Spec => []AuditIsHistory
<1>1. TypeInv /\ StoreInv => AuditIsHistory
  BY DEF StoreInv
<1> QED BY <1>1, StoreInvariant, PTL

(***************************************************************************)
(* A key is one command's (DESK_INDEX_DDL).                                *)
(***************************************************************************)
THEOREM KeysUnique == Spec => []OneCommandPerKey
<1>1. TypeInv /\ StoreInv => OneCommandPerKey
  BY DEF StoreInv
<1> QED BY <1>1, StoreInvariant, PTL

(***************************************************************************)
(* A request is answered with its own row, or told that the key is         *)
(* another's (_replay_or_conflict).                                        *)
(***************************************************************************)
THEOREM AnswersTrue == Spec => []AnswersAreTrue
<1>1. TypeInv /\ StoreInv => AnswersAreTrue
  BY DEF StoreInv
<1> QED BY <1>1, StoreInvariant, PTL

(***************************************************************************)
(* No hour has more than RateLimit commands of an actor                    *)
(* (INSERT_COMMAND_LIMITED).                                               *)
(***************************************************************************)
THEOREM RateHeld == Spec => []RateIsHeld
<1>1. TypeInv /\ StoreInv => RateIsHeld
  BY RateFollows DEF StoreInv
<1> QED BY <1>1, StoreInvariant, PTL

(***************************************************************************)
(* No command leaves the queue while the desk is paused: only the claim's  *)
(* UPDATE moves it, and it looks at the switch itself (CLAIM_COMMAND).     *)
(***************************************************************************)
THEOREM PauseHeld == Spec => PauseIsRespected
<1> DEFINE Step_ == \A i \in Ids : row[i].status = "queued" /\ row'[i].status # "queued" => ~paused
<1>1. TypeInv /\ [Next]_vars => [Step_]_storeVars
  <2> SUFFICES ASSUME TypeInv, [Next]_vars, NEW i \in Ids, row[i].status = "queued",
                      row'[i].status # "queued"
               PROVE  ~paused
    OBVIOUS
  <2>1. PICK c \in calls : Update(c) /\ Allowed(c)
    BY RowStep, InsertsAdds DEF rowVars
  <2>2. i = c.id
    BY <2>1, UpdateSets
  <2> QED BY <2>1, <2>2 DEF Allowed
<1> QED BY <1>1, StoreInvariant, PTL DEF Spec, PauseIsRespected

-------------------------------------------------------------------------------
(* A command runs once, and alone.                                         *)

\* A row goes forward only, and whoever took it stays the one.
LEMMA RowsForward ==
  ASSUME TypeInv, [Next]_vars
  PROVE  /\ \A i \in Ids, p \in Callers : TakenBy(i, p) => TakenBy(i, p)'
         /\ \A i \in Ids : Begun(i) => Begun(i)'
         /\ \A i \in Ids : row'[i].status = "recorded" => row[i].status = "recorded"
<1>1. CASE UNCHANGED rowVars
  BY <1>1 DEF rowVars, TakenBy, Begun
<1>2. CASE \E q \in Requests : Inserts(q)
  BY <1>2, InsertsAdds DEF TakenBy, Begun
<1>3. ASSUME NEW c \in calls, Update(c), Allowed(c), NEW i \in Ids
      PROVE  /\ \A p \in Callers : TakenBy(i, p) => TakenBy(i, p)'
             /\ Begun(i) => Begun(i)'
             /\ row'[i].status = "recorded" => row[i].status = "recorded"
  <2>1. CASE i # c.id
    <3>1. row'[i] = row[i]
      BY <1>3, <2>1, UpdateSets
    <3> QED BY <3>1 DEF TakenBy, Begun
  <2>2. CASE i = c.id
    <3>1. row'[i].status = Target(c) /\ row'[i].by = IF c.op = "consume" THEN c.by ELSE row[i].by
      BY <1>3, <2>2, UpdateSets
    <3>2. c.op \in {"consume", "done", "failed"}
      BY CallsTyped DEF CallRecord, Op
    <3> QED BY <1>3, <2>2, <3>1, <3>2 DEF TakenBy, Begun, Allowed, Target
  <2> QED BY <2>1, <2>2
<1> QED BY <1>1, <1>2, <1>3, RowStep

LEMMA KindsStep ==
  ASSUME TypeInv, \A i \in Ids : KindFits(i), [Next]_vars
  PROVE  \A i \in Ids' : KindFits(i)'
<1>1. CASE UNCHANGED rowVars
  BY <1>1 DEF rowVars, KindFits, IsCommand, Ids
<1>2. ASSUME NEW q \in Requests, Inserts(q), NEW i \in Ids' PROVE KindFits(i)'
  <2> PICK n : n = Len(row) + 1
    OBVIOUS
  <2>1. /\ Ids' = Ids \cup {n} /\ \A j \in Ids : row'[j] = row[j]
        /\ row'[n].intent = req[q].intent /\ row'[n].status \in {"queued", "recorded"}
        /\ RecordsResponse(q) <=> row'[n].status = "recorded"
    BY <1>2, InsertsAdds
  <2>2. CASE i \in Ids
    BY <2>1, <2>2 DEF KindFits, IsCommand
  <2>3. CASE i = n
    BY <1>2, <2>1, <2>3 DEF KindFits, IsCommand, Inserts, RecordsResponse, QueuesCommand
  <2> QED BY <1>2, <2>1, <2>2, <2>3
<1>3. ASSUME NEW c \in calls, Update(c), Allowed(c), NEW i \in Ids' PROVE KindFits(i)'
  <2>1. /\ i \in Ids
        /\ IsCommand(i)' <=> IsCommand(i)
        /\ i # c.id => row'[i] = row[i]
        /\ row'[c.id].status = Target(c)
    BY <1>3, UpdateSets DEF IsCommand
  <2>2. c.op \in {"consume", "done", "failed"}
    BY CallsTyped DEF CallRecord, Op
  <2>3. IsCommand(c.id) => Target(c) \in {"running", "done", "failed"}
    BY <2>2 DEF Target
  <2>4. ~IsCommand(c.id) => Target(c) = "consumed"
    <3>1. c.op # "consume" => IsCommand(c.id)
      BY <1>3 DEF Allowed
    <3> QED BY <3>1 DEF Target
  <2>5. CASE i = c.id
    BY <2>1, <2>3, <2>4, <2>5 DEF KindFits
  <2>6. CASE i # c.id
    BY <2>1, <2>6 DEF KindFits
  <2> QED BY <2>5, <2>6
<1> QED BY <1>1, <1>2, <1>3, RowStep

LEMMA RunsKept ==
  ASSUME TypeInv, WorkInv, [Next]_vars, UNCHANGED runVars
  PROVE  \A i \in Row : RunFits(i)'
BY NextTyped, RowsForward DEF WorkInv, RunFits, runVars

\* What a step leaves of the workers it is not a step of, when rows move.
LEMMA WorkersKept ==
  ASSUME TypeInv, WorkInv, [Next]_vars, UNCHANGED <<workVars, runVars>>
  PROVE  \A w \in Workers : WorkerFits(w)'
<1> SUFFICES ASSUME NEW w \in Workers PROVE WorkerFits(w)'
  OBVIOUS
<1>1. WorkerFits(w) /\ w \in Callers /\ todo[w] \subseteq Ids
  BY CallersAre DEF WorkInv, TypeInv, DeskTyped
<1>2. pc[w] \in {"claimed", "running", "reporting"} => cmd[w] \in Ids
  BY DEF TypeInv, CommandKnown
<1>3. pc' = pc /\ todo' = todo /\ cmd' = cmd /\ lock' = lock /\ ran' = ran /\ outcome' = outcome
  BY DEF workVars, runVars
<1>4. \A i \in Ids : (IsCommand(i)' <=> IsCommand(i)) /\ (TakenBy(i, w) => TakenBy(i, w)')
  BY <1>1, RowsForward, RowsStay
<1> QED BY <1>1, <1>2, <1>3, <1>4 DEF WorkerFits

LEMMA CallKept ==
  ASSUME TypeInv, WorkInv, [Next]_vars, UNCHANGED <<workVars, runVars>>, NEW c \in calls
  PROVE  CallFits(c)'
<1>1. CallFits(c) /\ c.id \in Ids /\ c.by \in Callers
  BY CallsTyped DEF WorkInv, CallRecord
<1>2. pc' = pc /\ cmd' = cmd /\ ran' = ran
  BY DEF workVars, runVars
<1>3. (IsCommand(c.id)' <=> IsCommand(c.id)) /\ (TakenBy(c.id, c.by) => TakenBy(c.id, c.by)')
  BY <1>1, RowsForward, RowsStay
<1> QED BY <1>1, <1>2, <1>3 DEF CallFits, Awaits

\* A call that is answered with a claim is one whose UPDATE found the row queued.
LEMMA CallStepWorks ==
  ASSUME TypeInv, WorkInv, StoreStep, NEW c \in calls, CallStep(c)
  PROVE  WorkInv'
<1> USE DEF FinalStep
<1>1. [Next]_vars /\ UNCHANGED <<workVars, runVars>>
  BY DEF Next, StoreStep
<1>2. c \in CallRecord /\ c.id \in Ids /\ c.id \in Row /\ c.by \in Callers /\ CallFits(c)
  BY CallsTyped, RowsTyped DEF CallRecord, WorkInv
<1>3. PICK e : /\ calls' = calls \ {c} \/ calls' = (calls \ {c}) \cup {e}
               /\ e.by = c.by /\ e.id = c.id /\ e.op = c.op /\ e.live = c.live
               /\ e \in calls' /\ e.step \in FinalStep => c.live
               /\ e.op = "consume" /\ e.step = "ok" => Update(c) /\ Allowed(c)
  <2>1. CASE ReadRow(c)
    <3> DEFINE e == [c EXCEPT !.found = row[c.id].status,
                              !.step = IF IsCommand(c.id) THEN "pause" ELSE "update"]
    <3>1. /\ calls' = (calls \ {c}) \cup {e} /\ e.step \notin FinalStep
          /\ e.by = c.by /\ e.id = c.id /\ e.op = c.op /\ e.live = c.live
      BY <1>2, <2>1 DEF ReadRow, CallRecord
    <3> QED BY <3>1
  <2>2. ASSUME NEW s, Goto(c, s), s = "ok" => Update(c) /\ Allowed(c)
        PROVE  \E e : /\ calls' = calls \ {c} \/ calls' = (calls \ {c}) \cup {e}
                      /\ e.by = c.by /\ e.id = c.id /\ e.op = c.op /\ e.live = c.live
                      /\ e \in calls' /\ e.step \in FinalStep => c.live
                      /\ e.op = "consume" /\ e.step = "ok" => Update(c) /\ Allowed(c)
    <3> DEFINE e == [c EXCEPT !.step = s]
    <3>1. e.by = c.by /\ e.id = c.id /\ e.op = c.op /\ e.live = c.live /\ e.step = s
      BY <1>2 DEF CallRecord
    <3>2. calls' = (calls \ {c}) \cup IF s \in FinalStep /\ ~c.live THEN {} ELSE {e}
      BY <2>2 DEF Goto
    <3>3. CASE s \in FinalStep /\ ~c.live
      <4>1. calls' = calls \ {c}
        BY <3>2, <3>3
      <4>2. e \notin calls
        BY <3>1, <3>3 DEF WorkInv, CallFits
      <4> QED BY <2>2, <3>1, <4>1, <4>2
    <3>4. CASE ~(s \in FinalStep /\ ~c.live)
      BY <2>2, <3>1, <3>2, <3>4
    <3> QED BY <3>3, <3>4
  <2>3. CASE ReadPause(c)
    BY <2>2, <2>3 DEF ReadPause
  <2>4. CASE Update(c)
    BY <2>2, <2>4 DEF Update
  <2>5. CASE Recheck(c)
    BY <2>2, <2>5 DEF Recheck
  <2> QED BY <2>1, <2>3, <2>4, <2>5 DEF CallStep
<1>4. ASSUME e \in calls' PROVE CallFits(e)'
  <2>1. (IsCommand(c.id)' <=> IsCommand(c.id)) /\ pc' = pc /\ cmd' = cmd /\ ran' = ran
    BY <1>1, <1>2, RowsStay DEF workVars, runVars
  <2>2. c.by \in Workers /\ c.live => Awaits(c.by, e)'
    BY <1>2, <1>3, <2>1 DEF CallFits, Awaits
  <2>3. ASSUME e.op = "consume", e.step = "ok" PROVE TakenBy(c.id, c.by)' /\ ran[c.id] = 0
    <3>1. /\ row'[c.id].by = c.by /\ row'[c.id].status = Target(c)
          /\ row[c.id].status \in {"queued", "recorded"}
      BY <1>3, <2>3, UpdateSets DEF Allowed
    <3>2. Target(c) \in {"running", "consumed"}
      BY <1>3, <2>3 DEF Target
    <3>3. RunFits(c.id) /\ ran[c.id] \in Nat
      BY <1>2 DEF WorkInv, TypeInv, DeskTyped
    <3> QED BY <3>1, <3>2, <3>3 DEF TakenBy, RunFits, Begun
  <2> QED BY <1>3, <1>4, <2>1, <2>2, <2>3 DEF CallFits
<1>5. \A d \in calls' : CallFits(d)'
  BY <1>1, <1>3, <1>4, CallKept
<1>6. OneCallEach'
  <2>1. \A d \in calls \ {c} : ~(d.live /\ c.live /\ d.by = c.by /\ c.by \in Workers)
    BY DEF WorkInv, OneCallEach
  <2>2. ASSUME NEW d \in calls', NEW f \in calls', d.live, f.live, d.by = f.by, d.by \in Workers
        PROVE  d = f
    BY <1>3, <2>1, <2>2 DEF WorkInv, OneCallEach
  <2> QED BY <2>2 DEF OneCallEach
<1> QED BY <1>1, <1>5, <1>6, KindsStep, RunsKept, WorkersKept DEF WorkInv

LEMMA StoreStepWorks == ASSUME TypeInv, WorkInv, StoreStep PROVE WorkInv'
<1>1. [Next]_vars /\ UNCHANGED <<workVars, runVars>>
  BY DEF Next, StoreStep
<1>2. CASE UNCHANGED calls
  BY <1>1, <1>2, KindsStep, RunsKept, WorkersKept, CallKept DEF WorkInv, OneCallEach
<1>3. CASE \E c \in calls : CallStep(c)
  BY <1>3, CallStepWorks
<1>4. ASSUME NEW q \in Requests, RequestStep(q) PROVE UNCHANGED calls
  BY <1>4 DEF RequestStep, Receive, SelectKey, InsertResponse, InsertCommand, LookupKey
<1> QED BY <1>2, <1>3, <1>4 DEF StoreStep, NextStore, SetPause, Advance

\* A step of worker w leaves the others as they are ...
OthersStay(w) ==
  \A v \in Workers \ {w} : /\ pc'[v] = pc[v] /\ todo'[v] = todo[v] /\ cmd'[v] = cmd[v]
                           /\ lock = v => lock' = v

\* ... runs or ends only what w took ...
RunsOwn(w) ==
  \A i \in Row : \/ ran'[i] = ran[i] /\ outcome'[i] = outcome[i]
                 \/ i \in Ids /\ TakenBy(i, w)

\* ... and w then waits for the call in N, or for none.
AwaitsOnly(w, N) ==
  /\ \A d \in calls' : \/ d \in calls /\ d.by # w
                       \/ d.by = w /\ ~d.live /\ d.step \notin FinalStep
                       \/ d \in N
  /\ \A d \in N : d.by = w /\ CallFits(d)'
  /\ \A d, e \in N : d = e

LEMMA WorkerMoves ==
  ASSUME TypeInv, WorkInv, UNCHANGED row, NEW w \in Workers, NEW N,
         OthersStay(w), RunsOwn(w), AwaitsOnly(w, N), WorkerFits(w)', \A i \in Row : RunFits(i)'
  PROVE  WorkInv'
<1> USE DEF OthersStay, RunsOwn, AwaitsOnly
<1>1. Ids' = Ids /\ Ids \subseteq Row /\ \A i : IsCommand(i)' <=> IsCommand(i)
  BY RowsTyped DEF Ids, IsCommand
<1>2. \A i \in Ids : KindFits(i)'
  BY <1>1 DEF WorkInv, KindFits
<1>3. \A i \in Ids : TakenBy(i, w) => \A v : v # w => ~TakenBy(i, v)
  BY DEF TakenBy
<1>4. \A i, p : TakenBy(i, p)' <=> TakenBy(i, p)
  BY DEF TakenBy
<1>5. ASSUME NEW v \in Workers, v # w PROVE WorkerFits(v)'
  <2>1. /\ WorkerFits(v) /\ pc'[v] = pc[v] /\ todo'[v] = todo[v] /\ cmd'[v] = cmd[v]
        /\ lock = v => lock' = v
    BY <1>5 DEF WorkInv
  <2>2. pc[v] \in {"claimed", "running"} =>
          ran'[cmd[v]] = ran[cmd[v]] /\ outcome'[cmd[v]] = outcome[cmd[v]]
    BY <1>1, <1>3, <1>5, <2>1 DEF WorkerFits, TypeInv, CommandKnown
  <2> QED BY <1>1, <1>4, <2>1, <2>2, <1>5 DEF WorkerFits, WorkInv
<1>6. ASSUME NEW d \in calls', d \in calls, d.by # w PROVE CallFits(d)'
  <2>1. CallFits(d) /\ d.id \in Ids
    BY <1>6, CallsTyped DEF WorkInv, CallRecord
  <2>2. d.by \in Workers => pc'[d.by] = pc[d.by] /\ cmd'[d.by] = cmd[d.by]
    BY <1>6
  <2>3. d.op = "consume" /\ d.step = "ok" => ran'[d.id] = ran[d.id]
    BY <1>1, <1>3, <1>6, <2>1 DEF CallFits
  <2> QED BY <1>1, <1>4, <2>1, <2>2, <2>3 DEF CallFits, Awaits
<1>7. ASSUME NEW d \in calls', ~d.live, d.step \notin FinalStep PROVE CallFits(d)'
  BY <1>7 DEF CallFits, FinalStep
<1>8. \A d \in calls' : CallFits(d)'
  BY <1>6, <1>7
<1>9. OneCallEach'
  <2> SUFFICES ASSUME NEW d \in calls', NEW e \in calls', d.live, e.live, d.by = e.by, d.by \in Workers
               PROVE  d = e
    BY DEF OneCallEach
  <2>1. CASE d.by # w
    BY <2>1 DEF WorkInv, OneCallEach
  <2>2. CASE d.by = w
    BY <2>2
  <2> QED BY <2>1, <2>2
<1> QED BY <1>1, <1>2, <1>5, <1>8, <1>9 DEF WorkInv

\* While it waits for no answer a worker has no call that is waited for ...
LEMMA NoneAwaited ==
  ASSUME WorkInv, NEW w \in Workers, pc[w] \notin {"claiming", "marking", "reporting"}
  PROVE  /\ \A d \in calls : d.by # w \/ (~d.live /\ d.step \notin FinalStep)
         /\ UNCHANGED calls => AwaitsOnly(w, {})
<1>1. \A d \in calls : d.by # w \/ (~d.live /\ d.step \notin FinalStep)
  BY DEF WorkInv, CallFits, Awaits
<1> QED BY <1>1 DEF AwaitsOnly

\* ... nor when it has heard the one answer it waited for ...
LEMMA NoneLeft ==
  ASSUME WorkInv, NEW w \in Workers, NEW c \in CallsOf(w), Hear(w, c)
  PROVE  /\ c \in calls /\ c.by = w /\ CallFits(c) /\ Awaits(w, c)
         /\ AwaitsOnly(w, {})
<1>1. c \in calls /\ c.by = w /\ c.live /\ CallFits(c) /\ calls' = calls \ {c}
  BY DEF WorkInv, CallsOf, Hear
<1>2. \A d \in calls' : d \in calls /\ (d.by # w \/ ~d.live)
  BY <1>1 DEF WorkInv, OneCallEach
<1>3. \A d \in calls : d.step \in FinalStep => d.live
  BY DEF WorkInv, CallFits
<1> QED BY <1>1, <1>2, <1>3 DEF CallFits, AwaitsOnly

\* ... nor when it has given up.
LEMMA NoneAfterGivingUp ==
  ASSUME TypeInv, WorkInv, NEW p, GiveUp(p)
  PROVE  AwaitsOnly(p, {})
<1>1. \A d \in calls : d.step \in FinalStep => d.live
  BY DEF WorkInv, CallFits
<1>2. \A d \in calls \ CallsOf(p) : d.by # p \/ ~d.live
  BY DEF CallsOf
<1>3. \A d \in {[c EXCEPT !.live = FALSE] : c \in {x \in CallsOf(p) : x.step \notin FinalStep}} :
         d.by = p /\ ~d.live /\ d.step \notin FinalStep
  <2> SUFFICES ASSUME NEW c \in calls, c.by = p, c.step \notin FinalStep, NEW d, d = [c EXCEPT !.live = FALSE]
               PROVE  d.by = p /\ ~d.live /\ d.step \notin FinalStep
    BY DEF CallsOf
  <2>1. c \in CallRecord
    BY CallsTyped
  <2> QED BY <2>1 DEF CallRecord
<1> QED BY <1>1, <1>2, <1>3 DEF GiveUp, AwaitsOnly

\* A worker that sends a call of its own waits for that one.
LEMMA SendMoves ==
  ASSUME TypeInv, WorkInv, NEW w \in Workers, pc[w] \notin {"claiming", "marking", "reporting"},
         NEW i, NEW op \in Op, Send(w, i, op), Awaits(w, NewCall(w, i, op))'
  PROVE  AwaitsOnly(w, {NewCall(w, i, op)})
<1> DEFINE n == NewCall(w, i, op)
<1>1. n.by = w /\ n.live /\ n.step \in {"read", "update"} /\ n.op = op /\ n.id = i
  BY DEF NewCall
<1>2. CallFits(n)'
  BY <1>1 DEF CallFits, FinalStep
<1>3. calls' = calls \cup {n}
  BY DEF Send
<1> QED BY <1>1, <1>2, <1>3, NoneAwaited DEF AwaitsOnly

\* What every worker step does to the others, with the lock and the runs.
LEMMA WorkerLeaves ==
  ASSUME TypeInv, WorkInv, NEW w \in Workers, WorkerStep(w) \/ Unreachable(w) \/ Crash(w)
  PROVE  UNCHANGED row /\ OthersStay(w) /\ RunsOwn(w)
<1>1. UNCHANGED row
  BY CallersKeepStore DEF StoreKept, rowVars
<1>2. WorkerFits(w) /\ None \notin Workers /\ pc[w] \in WorkerPc
  BY DeskAssumption DEF WorkInv, TypeInv, DeskTyped
<1>3. OthersStay(w)
  <2> USE <1>2 DEF OthersStay, At, WorkerFits, TypeInv, DeskTyped
  <2>1. CASE Start(w) \/ ListRunning(w) \/ MarkFailed(w)
    BY <2>1 DEF Start, ListRunning, MarkFailed
  <2>2. CASE Tick(w) \/ Claim(w) \/ ScanEnds(w)
    BY <2>2 DEF Tick, Claim, ScanEnds
  <2>3. CASE Begin(w) \/ Busy(w) \/ \E how \in Ending : End(w, how)
    BY <2>3 DEF Begin, Busy, End
  <2>4. CASE \E c \in CallsOf(w) : Marked(w, c) \/ Claimed(w, c) \/ Reported(w, c)
    BY <2>4 DEF Marked, Claimed, Reported
  <2>5. CASE Unreachable(w) \/ Crash(w)
    BY <2>5 DEF Unreachable, Crash
  <2> QED BY <2>1, <2>2, <2>3, <2>4, <2>5 DEF WorkerStep
<1>4. RunsOwn(w)
  <2>1. CASE UNCHANGED runVars
    BY <2>1 DEF runVars, RunsOwn
  <2>2. CASE Begin(w) \/ \E how \in Ending : End(w, how)
    <3>1. cmd[w] \in Ids /\ TakenBy(cmd[w], w)
      BY <1>2, <2>2 DEF Begin, End, At, WorkerFits, TypeInv, CommandKnown
    <3>2. \A i \in Row : i # cmd[w] => ran'[i] = ran[i] /\ outcome'[i] = outcome[i]
      BY <2>2 DEF Begin, End, TypeInv, DeskTyped
    <3> QED BY <3>1, <3>2 DEF RunsOwn
  <2> QED BY <2>1, <2>2 DEF WorkerStep, Start, ListRunning, MarkFailed, Tick, Claim, ScanEnds, Busy,
                           Marked, Claimed, Reported, Unreachable, Crash
<1> QED BY <1>1, <1>3, <1>4

LEMMA QuietWorks ==
  ASSUME TypeInv, WorkInv, NEW w \in Workers, WorkerStep(w) \/ Unreachable(w) \/ Crash(w),
         UNCHANGED runVars, NEW N, AwaitsOnly(w, N), WorkerFits(w)'
  PROVE  WorkInv'
<1>1. [Next]_vars
  BY DEF Next
<1> QED BY <1>1, RunsKept, WorkerLeaves, WorkerMoves

LEMMA RunsTyped ==
  ASSUME TypeInv
  PROVE  \A i \in Row : ran[i] \in Nat
BY DEF TypeInv, DeskTyped

LEMMA WorkerStepWorks ==
  ASSUME TypeInv, WorkInv, NEW w \in Workers, WorkerStep(w)
  PROVE  WorkInv'
<1>1. /\ WorkerFits(w) /\ row' = row
      /\ \A i : (IsCommand(i)' <=> IsCommand(i)) /\ (TakenBy(i, w)' <=> TakenBy(i, w))
  BY WorkerLeaves DEF WorkInv, IsCommand, TakenBy
<1> DEFINE Quiet(N) == UNCHANGED runVars /\ AwaitsOnly(w, N) /\ WorkerFits(w)'
<1> USE <1>1, NoneAwaited DEF At, WorkerFits, runVars, storeVars, TypeInv, DeskTyped
<1>2. CASE Start(w)
  <2>1. Quiet({}) BY <1>2 DEF Start
  <2> QED BY <2>1, QuietWorks
<1>3. CASE ListRunning(w)
  <2>1. Quiet({}) BY <1>3 DEF ListRunning, CommandsIn
  <2> QED BY <2>1, QuietWorks
<1>4. CASE MarkFailed(w)
  <2>1. PICK i : Send(w, i, "failed") BY <1>4 DEF MarkFailed
  <2>2. AwaitsOnly(w, {NewCall(w, i, "failed")})
    <3>1. Awaits(w, NewCall(w, i, "failed"))' BY <1>4 DEF MarkFailed, Awaits, NewCall
    <3> QED BY <1>4, <2>1, <3>1, SendMoves DEF MarkFailed, Op
  <2>3. UNCHANGED runVars /\ WorkerFits(w)' BY <1>4 DEF MarkFailed
  <2> QED BY <2>2, <2>3, QuietWorks
<1>5. CASE Tick(w)
  <2>1. Quiet({}) BY <1>5 DEF Tick, CommandsIn
  <2> QED BY <2>1, QuietWorks
<1>6. CASE Claim(w)
  <2>1. PICK i \in todo[w] : Send(w, i, "consume") BY <1>6 DEF Claim, Least
  <2>2. AwaitsOnly(w, {NewCall(w, i, "consume")})
    <3>1. Awaits(w, NewCall(w, i, "consume"))' BY <1>6, <2>1 DEF Claim, Awaits, NewCall
    <3> QED BY <1>6, <2>1, <3>1, SendMoves DEF Claim, Op
  <2>3. UNCHANGED runVars /\ WorkerFits(w)' BY <1>6 DEF Claim
  <2> QED BY <2>2, <2>3, QuietWorks
<1>7. CASE ScanEnds(w)
  <2>1. Quiet({}) BY <1>7 DEF ScanEnds
  <2> QED BY <2>1, QuietWorks
<1>8. CASE Begin(w)
  <2> PICK k : k = cmd[w] OBVIOUS
  <2>1. k \in Ids /\ k \in Row /\ IsCommand(k) /\ TakenBy(k, w) /\ ran[k] = 0
    BY <1>8, RowsTyped DEF Begin, CommandKnown
  <2>2. /\ ran'[k] = 1 /\ \A i \in Row \ {k} : ran'[i] = ran[i]
        /\ outcome' = outcome /\ UNCHANGED calls
    BY <1>8, <2>1 DEF Begin
  <2>3. Begun(k)
    BY <2>1 DEF WorkInv, KindFits, TakenBy, Begun
  <2>4. outcome[k] = "none"
    BY <2>1 DEF WorkInv, RunFits
  <2>5. WorkerFits(w)'
    BY <1>8, <2>1, <2>2, <2>4 DEF Begin
  <2>6. \A i \in Row : RunFits(i)'
    BY <2>1, <2>2, <2>3, <2>4 DEF WorkInv, RunFits, Begun, Ids
  <2>7. AwaitsOnly(w, {})
    BY <1>8, <2>2 DEF Begin
  <2> QED BY <2>5, <2>6, <2>7, WorkerLeaves, WorkerMoves
<1>9. CASE Busy(w)
  <2>1. PICK i : i = cmd[w] /\ Send(w, i, "failed") BY <1>9 DEF Busy
  <2>2. AwaitsOnly(w, {NewCall(w, i, "failed")})
    <3>1. Awaits(w, NewCall(w, i, "failed"))' BY <1>9, <2>1 DEF Busy, Awaits, NewCall
    <3> QED BY <1>9, <2>1, <3>1, SendMoves DEF Busy, Op
  <2>3. UNCHANGED runVars /\ WorkerFits(w)' BY <1>9 DEF Busy
  <2> QED BY <2>2, <2>3, QuietWorks
<1>10. ASSUME NEW how \in Ending, End(w, how) PROVE WorkInv'
  <2>1. PICK i, op : i = cmd[w] /\ op \in {"done", "failed"} /\ Send(w, i, op) BY <1>10 DEF End
  <2>2. AwaitsOnly(w, {NewCall(w, i, op)})
    <3>1. Awaits(w, NewCall(w, i, op))' BY <1>10, <2>1 DEF End, Awaits, NewCall
    <3> QED BY <1>10, <2>1, <3>1, SendMoves DEF End, Op
  <2>3. i \in Row /\ ran[i] = 1 /\ ran' = ran /\ \A j \in Row \ {i} : outcome'[j] = outcome[j]
    BY <1>10, <2>1, RowsTyped DEF End, CommandKnown
  <2>4. WorkerFits(w)' BY <1>10 DEF End
  <2>5. \A j \in Row : RunFits(j)'
    BY <2>3 DEF WorkInv, RunFits, Begun, Ids
  <2> QED BY <2>2, <2>4, <2>5, WorkerLeaves, WorkerMoves
<1>11. ASSUME NEW c \in CallsOf(w), Marked(w, c) PROVE WorkInv'
  <2>1. AwaitsOnly(w, {}) BY <1>11, NoneLeft DEF Marked
  <2>2. UNCHANGED runVars /\ WorkerFits(w)' BY <1>11 DEF Marked
  <2> QED BY <2>1, <2>2, QuietWorks
<1>12. ASSUME NEW c \in CallsOf(w), Claimed(w, c) PROVE WorkInv'
  <2>1. AwaitsOnly(w, {}) /\ c.by = w /\ CallFits(c) /\ Awaits(w, c) BY <1>12, NoneLeft DEF Claimed
  <2>2. c.op = "consume" /\ IsCommand(c.id) BY <1>12, <2>1 DEF Claimed, Awaits
  <2>3. UNCHANGED runVars /\ WorkerFits(w)' BY <1>12, <2>1, <2>2 DEF Claimed, CallFits
  <2> QED BY <2>1, <2>3, QuietWorks
<1>13. ASSUME NEW c \in CallsOf(w), Reported(w, c) PROVE WorkInv'
  <2>1. AwaitsOnly(w, {}) BY <1>13, NoneLeft DEF Reported
  <2>2. UNCHANGED runVars /\ WorkerFits(w)' BY <1>13 DEF Reported
  <2> QED BY <2>1, <2>2, QuietWorks
<1> QED BY <1>2, <1>3, <1>4, <1>5, <1>6, <1>7, <1>8, <1>9, <1>10, <1>11, <1>12, <1>13 DEF WorkerStep

LEMMA FaultStepWorks ==
  ASSUME TypeInv, WorkInv, NEW w \in Workers, Unreachable(w) \/ Crash(w)
  PROVE  WorkInv'
<1>1. AwaitsOnly(w, {})
  BY NoneAfterGivingUp DEF Unreachable, Crash
<1>2. UNCHANGED runVars /\ pc'[w] \in {"down", "idle"} /\ todo'[w] = {}
  BY DEF Unreachable, Crash, runVars, TypeInv, DeskTyped
<1>3. WorkerFits(w)'
  BY <1>2 DEF WorkerFits
<1> QED BY <1>1, <1>2, <1>3, QuietWorks

LEMMA OwnerStepWorks ==
  ASSUME TypeInv, WorkInv, NEW o \in Owners, OwnerStep(o)
  PROVE  WorkInv'
<1>1. [Next]_vars /\ UNCHANGED <<rowVars, workVars, runVars>> /\ o \notin Workers
  BY CallersKeepStore, DeskAssumption DEF Next, OwnerStep, Show, ConsumeShown, ConsumeOne, OwnerHears,
                                          OwnerUnanswered, StoreKept
<1>2. \A d \in calls' : d \in calls \/ (d.by = o /\ d.step \notin FinalStep)
  <2>1. ASSUME NEW i, Send(o, i, "consume")
        PROVE  \A d \in calls' : d \in calls \/ (d.by = o /\ d.step \notin FinalStep)
    <3>1. NewCall(o, i, "consume").by = o /\ NewCall(o, i, "consume").step = "read"
      BY DEF NewCall
    <3> QED BY <2>1, <3>1 DEF Send, FinalStep
  <2>2. CASE GiveUp(o)
    BY <2>2, NoneAfterGivingUp DEF AwaitsOnly
  <2>3. ASSUME NEW c, Hear(o, c) PROVE calls' \subseteq calls
    BY <2>3 DEF Hear
  <2> QED BY <2>1, <2>2, <2>3 DEF OwnerStep, Show, ConsumeShown, ConsumeOne, OwnerHears,
                                  OwnerUnanswered, storeVars
<1>3. \A d \in calls' : CallFits(d)'
  <2>1. ASSUME NEW d \in calls', d \notin calls PROVE CallFits(d)'
    BY <1>1, <1>2, <2>1 DEF CallFits, FinalStep
  <2> QED BY <1>1, <2>1, CallKept
<1>4. OneCallEach'
  BY <1>1, <1>2 DEF WorkInv, OneCallEach
<1> QED BY <1>1, <1>3, <1>4, KindsStep, RunsKept, WorkersKept DEF WorkInv

LEMMA WorkStep ==
  ASSUME TypeInv, WorkInv, [Next]_vars
  PROVE  WorkInv'
<1>1. CASE UNCHANGED vars
  <2>1. UNCHANGED <<workVars, runVars, rowVars, calls>>
    BY <1>1 DEF vars, storeVars
  <2> QED BY <2>1, KindsStep, RunsKept, WorkersKept, CallKept DEF WorkInv, OneCallEach
<1> QED BY <1>1, StoreStepWorks, WorkerStepWorks, FaultStepWorks, OwnerStepWorks DEF Next

LEMMA InitWorks == Init => WorkInv
<1> SUFFICES ASSUME Init PROVE WorkInv
  OBVIOUS
<1>1. Ids = {} /\ calls = {}
  BY DEF Init, InitStore, Ids
<1>2. \A w \in Workers : pc[w] = "down" /\ todo[w] = {}
  BY DEF Init
<1>3. \A i \in Row : ran[i] = 0 /\ outcome[i] = "none"
  BY DEF Init
<1> QED BY <1>1, <1>2, <1>3 DEF WorkInv, OneCallEach, WorkerFits, RunFits

\* Where a call comes from: it was there before, or it is a claim, the consume
\* of a row that is shown, a failure, or the success of a verb that ended well.
LEMMA CallsComeFrom ==
  ASSUME TypeInv, WorkInv, [Next]_vars, NEW d \in calls'
  PROVE  \/ \E c \in calls : d.by = c.by /\ d.id = c.id /\ d.op = c.op
         \/ /\ d.op = "consume" /\ d.id \in Ids
            /\ \/ IsCommand(d.id) \/ \E o \in Owners : d.id \in showing[o]
               \/ d.id \in shown' \/ row[d.id].status # "recorded"
         \/ d.op = "failed"
         \/ d.op = "done" /\ \E w \in Workers, how \in {"ok", "unmet"} : End(w, how) /\ d.id = cmd[w]
<1> DEFINE Old == \E c \in calls : d.by = c.by /\ d.id = c.id /\ d.op = c.op
           Consumes == /\ d.op = "consume" /\ d.id \in Ids
                       /\ \/ IsCommand(d.id) \/ \E o \in Owners : d.id \in showing[o]
                          \/ d.id \in shown' \/ row[d.id].status # "recorded"
           Ends == d.op = "done" /\ \E w \in Workers, how \in {"ok", "unmet"} : End(w, how) /\ d.id = cmd[w]
           Known == Old \/ Consumes \/ d.op = "failed" \/ Ends
<1> SUFFICES Known
  OBVIOUS
<1>1. CASE d \in calls
  BY <1>1
<1>2. ASSUME NEW p, NEW i, NEW op, Send(p, i, op), d \notin calls
      PROVE  d.id = i /\ d.op = op
  BY <1>2 DEF Send, NewCall
<1>3. ASSUME NEW p, GiveUp(p) PROVE Old
  <2>1. ASSUME NEW c \in calls, d = [c EXCEPT !.live = FALSE] PROVE Old
    BY <2>1, CallsTyped DEF CallRecord
  <2> QED BY <1>1, <1>3, <2>1 DEF GiveUp, CallsOf
<1>4. ASSUME NEW c \in calls, CallStep(c) PROVE Old
  <2>1. ASSUME NEW s, NEW f, d = [c EXCEPT !.found = f, !.step = s] \/ d = [c EXCEPT !.step = s] PROVE Old
    BY <2>1, CallsTyped DEF CallRecord
  <2>2. ASSUME NEW s, Goto(c, s) PROVE Old
    BY <1>1, <2>1, <2>2 DEF Goto
  <2>3. CASE ReadRow(c)
    BY <1>1, <2>1, <2>3 DEF ReadRow
  <2> QED BY <1>4, <2>2, <2>3 DEF CallStep, ReadPause, Update, Recheck
<1>5. CASE StoreStep
  <2>1. ASSUME NEW q \in Requests, RequestStep(q) PROVE calls' = calls
    BY <2>1 DEF RequestStep, Receive, SelectKey, InsertResponse, InsertCommand, LookupKey
  <2> QED BY <1>1, <1>4, <1>5, <2>1 DEF StoreStep, NextStore, SetPause, Advance
<1>6. ASSUME NEW w \in Workers, WorkerStep(w) PROVE Known
  <2>1. CASE MarkFailed(w) \/ Busy(w)
    BY <1>1, <1>2, <2>1 DEF MarkFailed, Busy
  <2>2. CASE Claim(w)
    <3>1. \A i \in todo[w] : IsCommand(i) /\ i \in Ids
      BY DEF WorkInv, WorkerFits, TypeInv, DeskTyped
    <3> QED BY <1>1, <1>2, <2>2, <3>1 DEF Claim, Least
  <2>3. ASSUME NEW how \in Ending, End(w, how) PROVE Known
    <3>1. CASE how \in {"ok", "unmet"}
      BY <1>1, <1>2, <2>3, <3>1 DEF End
    <3>2. CASE how = "error"
      BY <1>1, <1>2, <2>3, <3>2 DEF End
    <3> QED BY <3>1, <3>2 DEF Ending
  <2>4. CASE calls' \subseteq calls
    BY <1>1, <2>4
  <2> QED BY <1>6, <2>1, <2>2, <2>3, <2>4 DEF WorkerStep, Start, ListRunning, Tick, ScanEnds, Begin,
                                          Marked, Claimed, Reported, Hear, storeVars
<1>7. ASSUME NEW o \in Owners, OwnerStep(o) PROVE Known
  <2>1. CASE ConsumeShown(o)
    BY <1>1, <1>2, <2>1 DEF ConsumeShown, Least, TypeInv, DeskTyped
  <2>2. ASSUME NEW i \in Ids, ConsumeOne(o, i) PROVE Known
    <3>1. i \in shown' \/ row[i].status # "recorded"
      BY <2>2 DEF ConsumeOne, Pending
    <3> QED BY <1>1, <1>2, <2>2, <3>1 DEF ConsumeOne
  <2>3. CASE OwnerUnanswered(o)
    BY <1>3, <2>3 DEF OwnerUnanswered
  <2>4. CASE calls' \subseteq calls
    BY <1>1, <2>4
  <2> QED BY <1>7, <2>1, <2>2, <2>3, <2>4 DEF OwnerStep, Show, OwnerHears, Hear, storeVars
<1>8. ASSUME NEW w \in Workers, Unreachable(w) \/ Crash(w) PROVE Old
  BY <1>3, <1>8 DEF Unreachable, Crash
<1>9. CASE UNCHANGED vars
  BY <1>1, <1>9 DEF vars, storeVars
<1> QED BY <1>5, <1>6, <1>7, <1>8, <1>9 DEF Next

\* A command that ended keeps how it ended, and the owner's terminals forget
\* nothing they have shown.
LEMMA Lasting ==
  ASSUME TypeInv, WorkInv, [Next]_vars
  PROVE  /\ \A i \in Row : outcome[i] # "none" => outcome'[i] = outcome[i]
         /\ shown \subseteq shown'
<1>1. ASSUME NEW w \in Workers, NEW how \in Ending, End(w, how)
      PROVE  \A i \in Row : outcome[i] # "none" => outcome'[i] = outcome[i]
  <2>1. outcome[cmd[w]] = "none"
    BY <1>1 DEF End, At, WorkInv, WorkerFits
  <2> QED BY <1>1, <2>1 DEF End, TypeInv, DeskTyped
<1>2. ASSUME NEW w \in Workers, WorkerStep(w) \/ Unreachable(w) \/ Crash(w)
      PROVE  UNCHANGED ownerVars /\ (UNCHANGED outcome \/ \E how \in Ending : End(w, how))
  BY <1>2 DEF WorkerStep, Start, ListRunning, MarkFailed, Tick, Claim, ScanEnds, Begin, Busy, End,
              Marked, Claimed, Reported, Unreachable, Crash, runVars
<1>3. ASSUME NEW o \in Owners, OwnerStep(o) PROVE UNCHANGED outcome /\ shown \subseteq shown'
  BY <1>3 DEF OwnerStep, Show, ConsumeShown, ConsumeOne, OwnerHears, OwnerUnanswered, runVars, ownerVars
<1>4. CASE StoreStep \/ UNCHANGED vars
  BY <1>4 DEF StoreStep, vars, runVars, ownerVars
<1> QED BY <1>1, <1>2, <1>3, <1>4 DEF Next, ownerVars

\* A status that is new was set by a call that asked for it.
LEMMA StatusComesFrom ==
  ASSUME TypeInv, [Next]_vars, NEW i \in Ids', row'[i].status \in {"done", "consumed"}
  PROVE  \/ i \in Ids /\ row[i].status = row'[i].status
         \/ \E c \in calls : c.id = i /\ Allowed(c) /\ Target(c) = row'[i].status
<1>1. CASE UNCHANGED rowVars
  BY <1>1 DEF rowVars, Ids
<1>2. ASSUME NEW q \in Requests, Inserts(q) PROVE i \in Ids /\ row[i].status = row'[i].status
  BY <1>2, InsertsAdds
<1>3. CASE \E c \in calls : Update(c) /\ Allowed(c)
  BY <1>3, UpdateSets
<1> QED BY <1>1, <1>2, <1>3, RowStep

LEMMA DoneStep ==
  ASSUME TypeInv, WorkInv, DoneInv, [Next]_vars
  PROVE  DoneInv'
<1>0. ASSUME NEW i \in Ids, EndedWell(i) PROVE EndedWell(i)'
  <2>1. outcome'[i] = outcome[i] /\ row'[i].intent = row[i].intent
    BY <1>0, Lasting, RowsStay, RowsTyped DEF EndedWell
  <2> QED BY <1>0, <2>1 DEF EndedWell, IsCheck
<1>1. ASSUME NEW d \in calls', d.op = "done" PROVE EndedWell(d.id)'
  <2>1. CASE \E c \in calls : d.id = c.id /\ d.op = c.op
    BY <1>0, <1>1, <2>1, CallsTyped DEF DoneInv, CallRecord
  <2>2. ASSUME NEW w \in Workers, NEW how \in {"ok", "unmet"}, End(w, how), d.id = cmd[w]
        PROVE  EndedWell(d.id)'
    <3>1. cmd[w] \in Row /\ outcome'[cmd[w]] = how
      BY <2>2, RowsTyped DEF End, At, TypeInv, DeskTyped, CommandKnown
    <3>2. row' = row /\ (how = "unmet" => IsCheck(cmd[w]))
      BY <2>2 DEF End, Send, rowVars
    <3> QED BY <2>2, <3>1, <3>2 DEF EndedWell, IsCheck
  <2> QED BY <1>1, <2>1, <2>2, CallsComeFrom
<1>2. ASSUME NEW i \in Ids', row'[i].status = "done" PROVE EndedWell(i)'
  <2>1. i \in Ids /\ EndedWell(i)
    <3>1. CASE i \in Ids /\ row[i].status = "done"
      BY <3>1 DEF DoneInv, DoneMeansDone, EndedWell
    <3>2. ASSUME NEW c \in calls, c.id = i, Target(c) = "done" PROVE i \in Ids /\ EndedWell(i)
      <4>1. c.op = "done"
        BY <3>2 DEF Target
      <4> QED BY <3>2, <4>1, CallsTyped DEF DoneInv, CallRecord
    <3> QED BY <1>2, <3>1, <3>2, StatusComesFrom
  <2> QED BY <1>0, <2>1
<1> QED BY <1>1, <1>2 DEF DoneInv, DoneMeansDone, EndedWell

LEMMA ShownStep ==
  ASSUME TypeInv, WorkInv, ShownInv, [Next]_vars
  PROVE  ShownInv'
<1>1. ConsumedWasShown'
  <2> SUFFICES ASSUME NEW i \in Ids', row'[i].status = "consumed" PROVE i \in shown
    BY Lasting DEF ConsumedWasShown
  <2>1. CASE i \in Ids /\ row[i].status = "consumed"
    BY <2>1 DEF ShownInv, ConsumedWasShown
  <2>2. ASSUME NEW c \in calls, c.id = i, Allowed(c), Target(c) = "consumed" PROVE i \in shown
    <3>1. c.op \in {"consume", "done", "failed"}
      BY CallsTyped DEF CallRecord, Op
    <3>2. c.op = "consume" /\ ~IsCommand(c.id)
      BY <2>2, <3>1 DEF Target
    <3>3. row[c.id].status = "recorded"
      BY <2>2, <3>2 DEF Allowed
    <3> QED BY <2>2, <3>2, <3>3 DEF ShownInv
  <2> QED BY <2>1, <2>2, StatusComesFrom
<1>2. \A o \in Owners : showing'[o] \subseteq shown'
  <2>1. CASE UNCHANGED ownerVars
    BY <2>1 DEF ShownInv, ownerVars
  <2>2. ASSUME NEW p \in Owners, OwnerStep(p) PROVE \A o \in Owners : showing'[o] \subseteq shown'
    <3>1. CASE Show(p)
      BY <3>1 DEF Show, ShownInv, TypeInv, DeskTyped
    <3>2. CASE ConsumeShown(p)
      BY <3>2 DEF ConsumeShown, ShownInv, TypeInv, DeskTyped
    <3>3. CASE OwnerUnanswered(p)
      BY <3>3 DEF OwnerUnanswered, ShownInv, TypeInv, DeskTyped
    <3>4. CASE \E i \in Ids : ConsumeOne(p, i)
      BY <3>4, Lasting DEF ConsumeOne, ShownInv
    <3>5. CASE \E c \in CallsOf(p) : OwnerHears(p, c)
      BY <2>1, <3>5 DEF OwnerHears
    <3> QED BY <2>2, <3>1, <3>2, <3>3, <3>4, <3>5 DEF OwnerStep
  <2>3. ASSUME NEW w \in Workers, WorkerStep(w) \/ Unreachable(w) \/ Crash(w) PROVE UNCHANGED ownerVars
    BY <2>3 DEF WorkerStep, Start, ListRunning, MarkFailed, Tick, Claim, ScanEnds, Begin, Busy, End,
                Marked, Claimed, Reported, Unreachable, Crash
  <2> QED BY <2>1, <2>2, <2>3 DEF Next, StoreStep, vars
<1>3. ASSUME NEW d \in calls', d.op = "consume", ~IsCommand(d.id)', d.id \notin shown'
      PROVE  row'[d.id].status # "recorded"
  <2>1. d.id \notin shown /\ \A o \in Owners : d.id \notin showing[o]
    BY <1>3, Lasting DEF ShownInv
  <2>2. CASE \E c \in calls : d.id = c.id /\ d.op = c.op
    <3>1. d.id \in Ids /\ ~IsCommand(d.id)
      BY <1>3, <2>2, CallsTyped, RowsStay DEF CallRecord
    <3>2. row[d.id].status # "recorded"
      BY <1>3, <2>1, <2>2, <3>1 DEF ShownInv
    <3> QED BY <3>1, <3>2, RowsForward
  <2>3. CASE d.id \in Ids /\ (row[d.id].status # "recorded" \/ IsCommand(d.id))
    <3>1. row[d.id].status # "recorded"
      BY <1>3, <2>3, RowsStay
    <3> QED BY <2>3, <3>1, RowsForward
  <2> QED BY <1>3, <2>1, <2>2, <2>3, CallsComeFrom
<1> QED BY <1>1, <1>2, <1>3 DEF ShownInv

LEMMA WorkInvariant == Spec => [](TypeInv /\ WorkInv /\ DoneInv /\ ShownInv)
<1>1. Init => TypeInv /\ WorkInv /\ DoneInv /\ ShownInv
  <2>1. Init => DoneInv /\ ShownInv
    BY DEF Init, InitStore, Ids, DoneInv, DoneMeansDone, ShownInv, ConsumedWasShown
  <2> QED BY <2>1, InitTyped, InitWorks
<1>2. TypeInv /\ WorkInv /\ DoneInv /\ ShownInv /\ [Next]_vars
        => (TypeInv /\ WorkInv /\ DoneInv /\ ShownInv)'
  BY NextTyped, WorkStep, DoneStep, ShownStep
<1> QED BY <1>1, <1>2, PTL DEF Spec

(***************************************************************************)
(* A command is run at most once, and only after it left the queue,        *)
(* whatever answers are lost and whichever worker dies or is restarted     *)
(* (claim, on_start).                                                      *)
(***************************************************************************)
THEOREM RunsOnce == Spec => []RunOnce
<1>1. WorkInv => RunOnce
  BY DEF WorkInv, RunFits, Begun, RunOnce
<1> QED BY <1>1, WorkInvariant, PTL

(***************************************************************************)
(* No two commands run at the same time, however many workers are started  *)
(* (worker_lock).                                                          *)
(***************************************************************************)
THEOREM RunsAlone == Spec => []OneAtATime
<1>1. WorkInv => OneAtATime
  BY DEF WorkInv, WorkerFits, OneAtATime
<1> QED BY <1>1, WorkInvariant, PTL

(***************************************************************************)
(* A row says done only of a command whose verb ended without an error,    *)
(* and a validate's only may have found the story wanting: no late report  *)
(* and no restart's sweep says otherwise (run_command, RESULT_COMMAND).    *)
(***************************************************************************)
THEOREM DoneIsTrue == Spec => []DoneMeansDone
<1>1. DoneInv => DoneMeansDone
  BY DEF DoneInv
<1> QED BY <1>1, WorkInvariant, PTL

(***************************************************************************)
(* No response is consumed that was not shown, also by a consume that      *)
(* arrives long after its terminal gave it up (show_and_consume).          *)
(***************************************************************************)
THEOREM ShownFirst == Spec => []ConsumedWasShown
<1>1. ShownInv => ConsumedWasShown
  BY DEF ShownInv
<1> QED BY <1>1, WorkInvariant, PTL

===============================================================================
