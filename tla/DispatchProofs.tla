--------------------------- MODULE DispatchProofs ---------------------------
(***************************************************************************)
(* Proofs about Dispatch, for every number of engines, workers, workflows  *)
(* and every value of the bounds.                                          *)
(***************************************************************************)
EXTENDS Dispatch, FiniteSetTheorems, TLAPS

-----------------------------------------------------------------------------
(* The operators of Store                                                  *)

(* A poll returns rows of the table that are pending and due.              *)
LEMMA DueRows ==
  ASSUME NEW due \in ListSchedulable(Limit)
  PROVE  /\ due \in Seq(Workflows)
         /\ \A i \in DOMAIN due : due[i] \in Workflows /\ Schedulable(due[i])
<1>1. Limit \in Nat
  BY BoundsAssumption
<1> DEFINE Due == {w \in Workflows : Schedulable(w)}
<1>2. PICK n \in 0..Limit : due \in [1..n -> Due]
  BY DEF ListSchedulable
<1>3. n \in Nat
  BY <1>1
<1>4. due \in Seq(Workflows)
  BY <1>2, <1>3
<1>5. \A i \in DOMAIN due : due[i] \in Workflows /\ Schedulable(due[i])
  BY <1>2
<1> QED
  BY <1>4, <1>5

(* Copying the rows of a poll gives a sequence of copies.                  *)
LEMMA CopiesOfDue ==
  ASSUME TypeOK, NEW due \in ListSchedulable(Limit)
  PROVE  /\ [i \in DOMAIN due |-> CopyOf(due[i])] \in Seq(Copy)
         /\ \A i \in DOMAIN due : CopyOf(due[i]) \in Copy
<1>1. /\ due \in Seq(Workflows)
      /\ \A i \in DOMAIN due : due[i] \in Workflows
  BY DueRows
<1>2. \A w \in Workflows : CopyOf(w) \in Copy
  BY DEF TypeOK, Row, CopyOf, Copy
<1>3. DOMAIN due = 1..Len(due) /\ Len(due) \in Nat
  BY <1>1
<1> QED
  BY <1>1, <1>2, <1>3

(* A clipped time is a time of the model.                                  *)
LEMMA AtType == ASSUME NEW t PROVE At(t) \in 0..Horizon
BY HorizonAssumption DEF At, NoTime

(* A promoted row is a row.                                                *)
LEMMA PromotedType ==
  ASSUME NEW row \in Row
  PROVE  /\ PromotedRow(row) \in Row
         /\ PromotedRow(row).status = "pending"
         /\ PromotedRow(row).occ = row.occ + 1
<1>1. "pending" \in Status /\ NoTime \in 0..Horizon
  BY HorizonAssumption DEF Status, NoTime
<1>2. row.occ + 1 \in Nat
  BY DEF Row
<1>3. PromotedRow(row) = [row EXCEPT !.status = "pending",
                                    !.retryAfter = NoTime,
                                    !.occ = row.occ + 1]
  BY DEF PromotedRow, Row
<1>4. PromotedRow(row) \in Row
  BY <1>1, <1>2, <1>3 DEF Row
<1>5. PromotedRow(row).status = "pending" /\ PromotedRow(row).occ = row.occ + 1
  BY <1>3 DEF Row
<1> QED
  BY <1>4, <1>5

(* An idle worker holds no copy.                                           *)
LEMMA NoTaskIsNoCopy == NoTask \notin Copy
BY WorkflowsAssumption DEF NoTask, Copy

-----------------------------------------------------------------------------
(* What every statement of Store does to the table                         *)

(* The part of TypeOK that is about the table.                             *)
TableOK ==
  /\ wf \in [Workflows -> Row]
  /\ \A w \in Workflows : wf[w].status = "absent" => wf[w] = AbsentRow

(* A statement leaves a row alone, sets its signal, or increments its      *)
(* occ_version.                                                            *)
RowMovesOn(w) ==
  \/ wf'[w] = wf[w]
  \/ \E s \in Signal : wf'[w] = [wf[w] EXCEPT !.signal = s]
  \/ wf'[w].occ = wf[w].occ + 1

RowsMoveOn == \A w \in Workflows : RowMovesOn(w)

(* Writing one row.                                                        *)
LEMMA WriteRow ==
  ASSUME TableOK, NEW w \in Workflows, NEW row \in Row,
         wf' = [wf EXCEPT ![w] = row],
         row.status # "absent",
         \/ \E s \in Signal : row = [wf[w] EXCEPT !.signal = s]
         \/ row.occ = wf[w].occ + 1
  PROVE  TableOK' /\ RowsMoveOn
<1>1. /\ wf'[w] = row
      /\ \A v \in Workflows : v # w => wf'[v] = wf[v]
      /\ wf' \in [Workflows -> Row]
  BY DEF TableOK
<1>2. TableOK'
  BY <1>1 DEF TableOK
<1>3. RowsMoveOn
  BY <1>1 DEF RowsMoveOn, RowMovesOn
<1> QED
  BY <1>2, <1>3

LEMMA CreateWrites ==
  ASSUME TableOK, now \in 1..Horizon, NEW w \in Workflows, Create(w)
  PROVE  TableOK' /\ RowsMoveOn
<1>1. NewRow \in Row
  <2>1. "pending" \in Status /\ "none" \in Signal
    BY DEF Status, Signal
  <2>2. now \in 0..Horizon /\ NoTime \in 0..Horizon
    BY HorizonAssumption DEF NoTime
  <2> QED
    BY <2>1, <2>2 DEF NewRow, Row
<1>2. wf[w].occ = 0
  <2>1. wf[w] = AbsentRow
    BY DEF Create, TableOK
  <2> QED
    BY <2>1 DEF AbsentRow
<1>3. NewRow.occ = wf[w].occ + 1 /\ NewRow.status # "absent"
  BY <1>2 DEF NewRow
<1>4. wf' = [wf EXCEPT ![w] = NewRow]
  BY DEF Create
<1> QED
  BY <1>1, <1>3, <1>4, WriteRow

LEMMA SetSignalWrites ==
  ASSUME TableOK, NEW w \in Workflows, SetSignal(w, "cancel_requested")
  PROVE  TableOK' /\ RowsMoveOn
<1> DEFINE row == [wf[w] EXCEPT !.signal = "cancel_requested"]
<1>1. wf[w] \in Row /\ "cancel_requested" \in Signal
  BY DEF TableOK, Signal
<1>2. row \in Row /\ row.status = wf[w].status
  BY <1>1 DEF Row
<1>3. wf' = [wf EXCEPT ![w] = row] /\ row.status # "absent"
  BY <1>2 DEF SetSignal
<1>4. \E s \in Signal : row = [wf[w] EXCEPT !.signal = s]
  BY <1>1
<1> HIDE DEF row
<1> QED
  BY <1>2, <1>3, <1>4, WriteRow

(* UpdateStatus and SetError.                                              *)
LEMMA StatusWrites ==
  ASSUME TableOK, NEW w \in Workflows, NEW s \in Terminal, NEW occ,
         UpdateStatus(w, s, occ) \/ SetError(w, s, occ)
  PROVE  TableOK' /\ RowsMoveOn
<1> DEFINE row == [wf[w] EXCEPT !.status = s, !.occ = wf[w].occ + 1]
<1>1. wf[w] \in Row /\ s \in Status /\ s # "absent"
  BY DEF TableOK, Terminal, Status
<1>2. wf[w].occ + 1 \in Nat
  BY <1>1 DEF Row
<1>3. row \in Row /\ row.status = s /\ row.occ = wf[w].occ + 1
  BY <1>1, <1>2 DEF Row
<1>4. wf' = [wf EXCEPT ![w] = row]
  BY DEF UpdateStatus, SetError, TableOK
<1> HIDE DEF row
<1> QED
  BY <1>1, <1>3, <1>4, WriteRow

LEMMA SetRetryWrites ==
  ASSUME TableOK, NEW w \in Workflows, NEW t, NEW occ, SetRetry(w, t, occ)
  PROVE  TableOK' /\ RowsMoveOn
<1> DEFINE row == [wf[w] EXCEPT !.status = "pending", !.retryAfter = At(t),
                                !.attempts = wf[w].attempts + 1,
                                !.occ = wf[w].occ + 1]
<1>1. wf[w] \in Row /\ "pending" \in Status
  BY DEF TableOK, Status
<1>2. wf[w].occ + 1 \in Nat /\ wf[w].attempts + 1 \in Nat
  BY <1>1 DEF Row
<1>3. row \in Row /\ row.status = "pending" /\ row.occ = wf[w].occ + 1
  BY <1>1, <1>2, AtType DEF Row
<1>4. wf' = [wf EXCEPT ![w] = row]
  BY DEF SetRetry, TableOK
<1> HIDE DEF row
<1> QED
  BY <1>3, <1>4, WriteRow

LEMMA SuspendWrites ==
  ASSUME TableOK, NEW w \in Workflows, NEW t, NEW occ, Suspend(w, t, occ)
  PROVE  TableOK' /\ RowsMoveOn
<1> DEFINE row == [wf[w] EXCEPT !.status = "suspended", !.retryAfter = At(t),
                                !.occ = wf[w].occ + 1]
<1>1. wf[w] \in Row /\ "suspended" \in Status
  BY DEF TableOK, Status
<1>2. wf[w].occ + 1 \in Nat
  BY <1>1 DEF Row
<1>3. row \in Row /\ row.status = "suspended" /\ row.occ = wf[w].occ + 1
  BY <1>1, <1>2, AtType DEF Row
<1>4. wf' = [wf EXCEPT ![w] = row]
  BY DEF Suspend, TableOK
<1> HIDE DEF row
<1> QED
  BY <1>3, <1>4, WriteRow

(* Both promotions: every row stays or is promoted from suspended.         *)
LEMMA PromotionWrites ==
  ASSUME TableOK,
         wf' = [w \in Workflows |-> wf'[w]],
         \A w \in Workflows : wf'[w] = wf[w] \/ wf'[w] = PromotedRow(wf[w])
  PROVE  TableOK' /\ RowsMoveOn
<1>1. \A w \in Workflows : wf[w] \in Row
  BY DEF TableOK
<1>2. \A w \in Workflows : /\ PromotedRow(wf[w]) \in Row
                           /\ PromotedRow(wf[w]).status = "pending"
                           /\ PromotedRow(wf[w]).occ = wf[w].occ + 1
  BY <1>1, PromotedType
<1>3. wf' \in [Workflows -> Row]
  BY <1>1, <1>2
<1>4. TableOK'
  BY <1>2, <1>3 DEF TableOK
<1>5. RowsMoveOn
  BY <1>2 DEF RowsMoveOn, RowMovesOn
<1> QED
  BY <1>4, <1>5

-----------------------------------------------------------------------------
(* Type correctness                                                        *)

LEMMA TypeGivesTable == TypeOK => TableOK
BY DEF TypeOK, TableOK

(* A worker that is not idle holds a copy of a row.                        *)
LEMMA TaskOfWorker ==
  ASSUME TypeOK, NEW p \in Workers, pc[p] # "idle"
  PROVE  task[p] \in Copy /\ task[p].id \in Workflows
<1>1. task[p] \in Copy
  BY DEF TypeOK
<1> QED
  BY <1>1 DEF Copy

(* The steps that write the table.                                         *)
Records(p) ==
  \/ RecordCancelled(p) \/ RecordPermanent(p) \/ RecordSuspend(p)
  \/ RecordExhausted(p) \/ RecordRetry(p) \/ RecordCompleted(p)

TableStep ==
  \/ ClientStep
  \/ \E e \in Engines : Promote(e)
  \/ \E p \in Workers : Records(p)

LEMMA RecordsWrite ==
  ASSUME TypeOK, NEW p \in Workers, Records(p)
  PROVE  TableOK' /\ RowsMoveOn
<1>1. TableOK
  BY TypeGivesTable
<1>2. task[p].id \in Workflows
  BY TaskOfWorker DEF Records, RecordCancelled, RecordPermanent, RecordSuspend,
     RecordExhausted, RecordRetry, RecordCompleted, Resolving
<1>3. {"cancelled", "failed", "completed"} \subseteq Terminal
  BY DEF Terminal
<1>4. CASE RecordCancelled(p)
  BY <1>1, <1>2, <1>3, <1>4, StatusWrites DEF RecordCancelled
<1>5. CASE RecordPermanent(p)
  BY <1>1, <1>2, <1>3, <1>5, StatusWrites DEF RecordPermanent
<1>6. CASE RecordSuspend(p)
  BY <1>1, <1>2, <1>6, SuspendWrites DEF RecordSuspend
<1>7. CASE RecordExhausted(p)
  BY <1>1, <1>2, <1>3, <1>7, StatusWrites DEF RecordExhausted
<1>8. CASE RecordRetry(p)
  BY <1>1, <1>2, <1>8, SetRetryWrites DEF RecordRetry
<1>9. CASE RecordCompleted(p)
  BY <1>1, <1>2, <1>3, <1>9, StatusWrites DEF RecordCompleted
<1> QED
  BY <1>4, <1>5, <1>6, <1>7, <1>8, <1>9 DEF Records

LEMMA TableStepWrites ==
  ASSUME TypeOK, TableStep
  PROVE  TableOK' /\ RowsMoveOn
<1>1. TableOK
  BY TypeGivesTable
<1>2. ASSUME NEW w \in Workflows, Submit(w)
      PROVE  TableOK' /\ RowsMoveOn
  BY <1>1, <1>2, CreateWrites DEF Submit, TypeOK
<1>3. ASSUME NEW w \in Workflows, RequestCancel(w)
      PROVE  TableOK' /\ RowsMoveOn
  BY <1>1, <1>3, SetSignalWrites DEF RequestCancel
<1>4. ASSUME NEW S \in SUBSET Workflows, Wake(S)
      PROVE  TableOK' /\ RowsMoveOn
  BY <1>1, <1>4, PromotionWrites DEF Wake, PromoteSubscribers
<1>5. ASSUME NEW e \in Engines, Promote(e)
      PROVE  TableOK' /\ RowsMoveOn
  BY <1>1, <1>5, PromotionWrites DEF Promote, PromoteSuspended
<1> QED
  BY <1>2, <1>3, <1>4, <1>5, RecordsWrite DEF TableStep, ClientStep

LEMMA TypeInit == Init => TypeOK
<1> SUFFICES ASSUME Init PROVE TypeOK
  OBVIOUS
<1>1. AbsentRow \in Row
  <2>1. "absent" \in Status /\ "none" \in Signal
    BY DEF Status, Signal
  <2>2. NoTime \in 0..Horizon
    BY HorizonAssumption DEF NoTime
  <2> QED
    BY <2>1, <2>2 DEF AbsentRow, Row
<1>2. NoOutcome \in Outcome /\ NoOutcome.kind = "none"
  BY HorizonAssumption DEF NoOutcome, OutcomeOf, Outcome, NoTime
<1>3. now \in 1..Horizon /\ faults \in 0..MaxFaults
  BY HorizonAssumption, BoundsAssumption DEF Init, StoreInit
<1> QED
  BY <1>1, <1>2, <1>3 DEF Init, StoreInit, TypeOK, Phase, Pc

(* The part of TypeOK that is about the engines.                           *)
MemoryOK ==
  /\ phase \in [Engines -> Phase]
  /\ queue \in [Engines -> Seq(Copy)]
  /\ wg \in [Engines -> Int]
  /\ leases \in [Engines -> SUBSET Workflows]
  /\ pc \in [Workers -> Pc]
  /\ task \in [Workers -> Copy \cup {NoTask}]
  /\ outcome \in [Workers -> Outcome]
  /\ faults \in 0..MaxFaults
  /\ \A p \in Workers :
       /\ task[p] = NoTask <=> pc[p] = "idle"
       /\ outcome[p].kind # "none" => pc[p] \in {"resolve", "release"}

LEMMA TypeParts == TypeOK <=> TableOK /\ MemoryOK /\ now \in 1..Horizon
BY DEF TypeOK, TableOK, MemoryOK

LEMMA OutcomeTypes ==
  /\ \A k \in {"none", "completed", "cancelled", "permanent", "transient"} :
       OutcomeOf(k) \in Outcome
  /\ \A t \in ResumeTimes : [kind |-> "suspend", resumeAt |-> t] \in Outcome
  /\ NoOutcome \in Outcome /\ NoOutcome.kind = "none"
<1>1. NoTime \in 0..Horizon /\ ResumeTimes \subseteq 0..Horizon
  BY HorizonAssumption, BoundsAssumption DEF NoTime
<1> QED
  BY <1>1 DEF NoOutcome, OutcomeOf, Outcome

LEMMA TakeTypes ==
  ASSUME MemoryOK, NEW p \in Workers, Take(p)
  PROVE  /\ NextTask(p) \in Copy /\ NextTask(p).id \in Workflows
         /\ queue' \in [Engines -> Seq(Copy)]
<1>1. EngineOf[p] \in Engines
  BY EnginesAssumption
<1>2. queue[EngineOf[p]] \in Seq(Copy) /\ queue[EngineOf[p]] # <<>>
  BY <1>1 DEF Take, MemoryOK
<1>3. Head(queue[EngineOf[p]]) \in Copy /\ Tail(queue[EngineOf[p]]) \in Seq(Copy)
  BY <1>2
<1>4. queue' \in [Engines -> Seq(Copy)]
  BY <1>3 DEF Take, MemoryOK
<1>5. NextTask(p) \in Copy
  BY <1>3 DEF NextTask
<1>6. NextTask(p).id \in Workflows
  BY <1>5 DEF Copy
<1> QED
  BY <1>4, <1>5, <1>6

(* A worker of Run changes the memory of its engine only.                  *)
LEMMA WorkerTypes ==
  ASSUME TypeOK, NEW p \in Workers, WorkerStep(p)
  PROVE  MemoryOK'
<1>1. MemoryOK
  BY TypeParts
<1>2. EngineOf[p] \in Engines
  BY EnginesAssumption
<1>0. TaskDone(p) => wg' \in [Engines -> Int]
  BY <1>1, <1>2 DEF TaskDone, MemoryOK
<1>3. CASE DropUnregistered(p) \/ DropHeld(p)
  BY <1>0, <1>1, <1>3, TakeTypes DEF DropUnregistered, DropHeld, MemoryOK
<1>4. CASE Acquire(p)
  <2>1. /\ NextTask(p) \in Copy /\ NextTask(p).id \in Workflows
        /\ queue' \in [Engines -> Seq(Copy)]
    BY <1>1, <1>4, TakeTypes DEF Acquire
  <2>2. NextTask(p) # NoTask
    BY <2>1, NoTaskIsNoCopy
  <2>3. leases' \in [Engines -> SUBSET Workflows]
    BY <1>1, <1>4, <2>1 DEF Acquire, MemoryOK
  <2>4. /\ pc' \in [Workers -> Pc] /\ pc'[p] = "signal"
        /\ task' \in [Workers -> Copy \cup {NoTask}] /\ task'[p] = NextTask(p)
        /\ \A q \in Workers : q # p => pc'[q] = pc[q] /\ task'[q] = task[q]
    BY <1>1, <1>4, <2>1 DEF Acquire, MemoryOK, Pc
  <2>5. pc[p] = "idle"
    BY <1>4 DEF Acquire, Take
  <2> QED
    BY <1>1, <1>4, <2>1, <2>2, <2>3, <2>4, <2>5 DEF Acquire, MemoryOK
<1>5. ASSUME NEW o \in Outcome, Return(p, o), pc[p] \in {"signal", "execute"}
      PROVE  MemoryOK'
  <2>1. /\ pc' \in [Workers -> Pc] /\ pc'[p] = "resolve"
        /\ outcome' \in [Workers -> Outcome]
        /\ \A q \in Workers : q # p => pc'[q] = pc[q] /\ outcome'[q] = outcome[q]
    BY <1>1, <1>5 DEF Return, MemoryOK, Pc
  <2> QED
    BY <1>1, <1>5, <2>1 DEF Return, MemoryOK
<1>6. CASE ObserveCancel(p)
  BY <1>5, <1>6, OutcomeTypes DEF ObserveCancel
<1>7. CASE Execute(p)
  <2>1. \E o \in Outcome : Return(p, o)
    BY <1>7, OutcomeTypes DEF Execute
  <2> QED
    BY <1>5, <1>7, <2>1 DEF Execute
<1>8. CASE BeginExecute(p)
  <2>1. /\ pc' \in [Workers -> Pc] /\ pc'[p] = "execute"
        /\ \A q \in Workers : q # p => pc'[q] = pc[q]
    BY <1>1, <1>8 DEF BeginExecute, MemoryOK, Pc
  <2> QED
    BY <1>1, <1>8, <2>1 DEF BeginExecute, MemoryOK
<1>9. ASSUME pc[p] \in {"signal", "resolve"},
             pc' = [pc EXCEPT ![p] = "release"],
             UNCHANGED <<phase, queue, wg, leases, task, outcome>>,
             faults' \in 0..MaxFaults
      PROVE  MemoryOK'
  <2>1. /\ pc' \in [Workers -> Pc] /\ pc'[p] = "release"
        /\ \A q \in Workers : q # p => pc'[q] = pc[q]
    BY <1>1, <1>9 DEF MemoryOK, Pc
  <2> QED
    BY <1>1, <1>9, <2>1 DEF MemoryOK
<1>10. CASE Resolving(p)
  BY <1>1, <1>9, <1>10 DEF Resolving, MemoryOK
<1>11. CASE StoreFails(p)
  <2>1. faults' \in 0..MaxFaults
    BY <1>1, <1>11, BoundsAssumption DEF StoreFails, MemoryOK
  <2> QED
    BY <1>9, <1>11, <2>1 DEF StoreFails
<1>12. CASE Release(p)
  <2>1. /\ pc' \in [Workers -> Pc] /\ pc'[p] = "idle"
        /\ task' \in [Workers -> Copy \cup {NoTask}] /\ task'[p] = NoTask
        /\ outcome' \in [Workers -> Outcome] /\ outcome'[p].kind = "none"
        /\ \A q \in Workers : q # p => /\ pc'[q] = pc[q]
                                       /\ task'[q] = task[q]
                                       /\ outcome'[q] = outcome[q]
    BY <1>1, <1>12, OutcomeTypes DEF Release, MemoryOK, Pc
  <2>2. leases' \in [Engines -> SUBSET Workflows]
    BY <1>1, <1>12 DEF Release, MemoryOK
  <2> QED
    BY <1>0, <1>1, <1>12, <2>1, <2>2 DEF Release, MemoryOK
<1> QED
  BY <1>3, <1>4, <1>6, <1>7, <1>8, <1>10, <1>11, <1>12
     DEF WorkerStep, RecordCancelled, RecordPermanent, RecordSuspend,
         RecordExhausted, RecordRetry, RecordCompleted, Conflict

LEMMA PollTypes ==
  ASSUME TypeOK, NEW e \in Engines, Poll(e)
  PROVE  MemoryOK'
<1>1. MemoryOK
  BY TypeParts
<1>2. PICK due \in ListSchedulable(Limit) :
        /\ queue' = [queue EXCEPT ![e] =
                       @ \o [i \in DOMAIN due |-> CopyOf(due[i])]]
        /\ wg' = [wg EXCEPT ![e] = @ + Len(due)]
  BY DEF Poll
<1> DEFINE copies == [i \in DOMAIN due |-> CopyOf(due[i])]
<1>3. copies \in Seq(Copy) /\ Len(due) \in Nat
  BY CopiesOfDue, DueRows
<1> HIDE DEF copies
<1>4. queue[e] \o copies \in Seq(Copy)
  BY <1>1, <1>3 DEF MemoryOK
<1>5. queue' \in [Engines -> Seq(Copy)] /\ wg' \in [Engines -> Int]
  BY <1>1, <1>2, <1>3, <1>4 DEF MemoryOK, copies
<1> QED
  BY <1>1, <1>5 DEF Poll, MemoryOK

LEMMA EngineTypes ==
  ASSUME TypeOK, NEW e \in Engines, EngineStep(e)
  PROVE  MemoryOK'
<1>1. MemoryOK
  BY TypeParts
<1>2. CASE Promote(e)
  BY <1>1, <1>2 DEF Promote, memoryVars, MemoryOK
<1>3. CASE Poll(e)
  BY <1>3, PollTypes
<1>4. CASE Stop(e)
  BY <1>1, <1>4, BoundsAssumption DEF Stop, Enter, Phase, MemoryOK
<1>5. CASE DrainTimeout(e) \/ StartReturns(e) \/ Restart(e)
  BY <1>1, <1>5 DEF DrainTimeout, StartReturns, Restart, Enter, Phase, MemoryOK
<1>6. CASE Crash(e)
  <2>1. /\ phase' \in [Engines -> Phase]
        /\ queue' \in [Engines -> Seq(Copy)]
        /\ wg' \in [Engines -> Int]
        /\ leases' \in [Engines -> SUBSET Workflows]
        /\ faults' \in 0..MaxFaults
    BY <1>1, <1>6, BoundsAssumption DEF Crash, Enter, Phase, MemoryOK
  <2>2. /\ pc' \in [Workers -> Pc]
        /\ task' \in [Workers -> Copy \cup {NoTask}]
        /\ outcome' \in [Workers -> Outcome]
    BY <1>1, <1>6, OutcomeTypes DEF Crash, Pc, MemoryOK
  <2>3. \A p \in Workers :
          /\ task'[p] = NoTask <=> pc'[p] = "idle"
          /\ outcome'[p].kind # "none" => pc'[p] \in {"resolve", "release"}
    BY <1>1, <1>6, OutcomeTypes DEF Crash, MemoryOK
  <2> QED
    BY <2>1, <2>2, <2>3 DEF MemoryOK
<1> QED
  BY <1>2, <1>3, <1>4, <1>5, <1>6 DEF EngineStep

(* Every other step leaves the table alone.                                *)
LEMMA OtherSteps ==
  ASSUME [Next]_vars
  PROVE  TableStep \/ UNCHANGED wf
BY DEF Next, EngineStep, WorkerStep, Records, TableStep, PassTime, Tick, Poll,
   Stop, DrainTimeout, StartReturns, Crash, Restart, DropUnregistered, DropHeld,
   Acquire, ObserveCancel, BeginExecute, Execute, Return, Conflict, OCCConflict,
   StoreFails, Release, vars

LEMMA TypeNext ==
  ASSUME TypeOK, [Next]_vars
  PROVE  TypeOK'
<1>1. TableOK'
  BY TypeGivesTable, TableStepWrites, OtherSteps DEF TableOK
<1>2. now' \in 1..Horizon
  <2>1. now \in 1..Horizon
    BY DEF TypeOK
  <2>2. CASE PassTime
    BY <2>1, <2>2, HorizonAssumption DEF PassTime, Tick
  <2>3. CASE UNCHANGED now
    BY <2>1, <2>3
  <2> QED
    BY <2>2, <2>3 DEF Next, ClientStep, Submit, RequestCancel, Wake, EngineStep,
       WorkerStep, Promote, Poll, Stop, DrainTimeout, StartReturns, Crash, Restart,
       DropUnregistered, DropHeld, Acquire, ObserveCancel, BeginExecute, Execute,
       Return, Conflict, StoreFails, Release, RecordCancelled, RecordPermanent,
       RecordSuspend, RecordExhausted, RecordRetry, RecordCompleted, Resolving, vars
<1>3. MemoryOK'
  <2>1. MemoryOK
    BY TypeParts
  <2>2. ASSUME UNCHANGED <<memoryVars, faults>> PROVE MemoryOK'
    BY <2>1, <2>2 DEF MemoryOK, memoryVars
  <2>3. CASE ClientStep \/ PassTime \/ UNCHANGED vars
    <3>1. UNCHANGED <<memoryVars, faults>>
      BY <2>3 DEF ClientStep, Submit, RequestCancel, Wake, PassTime, vars
    <3> QED
      BY <2>2, <3>1
  <2>4. ASSUME NEW e \in Engines, EngineStep(e) PROVE MemoryOK'
    BY <2>4, EngineTypes
  <2>5. ASSUME NEW p \in Workers, WorkerStep(p) PROVE MemoryOK'
    BY <2>5, WorkerTypes
  <2> QED
    BY <2>3, <2>4, <2>5 DEF Next
<1> QED
  BY <1>1, <1>2, <1>3 DEF TypeOK, TableOK, MemoryOK

(* Every behaviour of the engines keeps every variable in its type: in     *)
(* particular no engine hands a worker a task that is not a copy of a row. *)
THEOREM TypeCorrect == Spec => []TypeOK
<1>1. Init => TypeOK
  BY TypeInit
<1>2. TypeOK /\ [Next]_vars => TypeOK'
  BY TypeNext
<1> QED
  BY <1>1, <1>2, PTL DEF Spec

-----------------------------------------------------------------------------
(* Copies in flight                                                        *)

LEMMA TailRange ==
  ASSUME NEW S, NEW s \in Seq(S), s # <<>>
  PROVE  Range(Tail(s)) \subseteq Range(s) /\ Head(s) \in Range(s)
<1>1. Len(s) \in Nat /\ Len(s) > 0 /\ DOMAIN s = 1..Len(s)
  OBVIOUS
<1>2. Head(s) = s[1] /\ 1 \in DOMAIN s
  BY <1>1
<1>3. /\ DOMAIN Tail(s) = 1..(Len(s) - 1)
      /\ \A i \in 1..(Len(s) - 1) : Tail(s)[i] = s[i + 1] /\ i + 1 \in DOMAIN s
  BY <1>1
<1> QED
  BY <1>2, <1>3 DEF Range

LEMMA ConcatRange ==
  ASSUME NEW S, NEW s \in Seq(S), NEW t \in Seq(S)
  PROVE  Range(s \o t) \subseteq Range(s) \cup Range(t)
<1>1. /\ Len(s) \in Nat /\ Len(t) \in Nat
      /\ DOMAIN s = 1..Len(s) /\ DOMAIN t = 1..Len(t)
      /\ DOMAIN (s \o t) = 1..(Len(s) + Len(t))
  OBVIOUS
<1>2. ASSUME NEW i \in 1..(Len(s) + Len(t))
      PROVE  (s \o t)[i] \in Range(s) \cup Range(t)
  <2>1. CASE i <= Len(s)
    <3>1. (s \o t)[i] = s[i] /\ i \in DOMAIN s
      BY <1>1, <2>1
    <3> QED
      BY <3>1 DEF Range
  <2>2. CASE i > Len(s)
    <3>1. (s \o t)[i] = t[i - Len(s)] /\ i - Len(s) \in DOMAIN t
      BY <1>1, <2>2
    <3> QED
      BY <3>1 DEF Range
  <2> QED
    BY <1>1, <2>1, <2>2
<1> QED
  BY <1>1, <1>2 DEF Range

LEMMA InFlightMembers ==
  \A c : c \in InFlight <=> \/ \E e \in Engines : c \in Range(queue[e])
                           \/ \E p \in Workers : pc[p] # "idle" /\ c = task[p]
<1>1. \A c : c \in Queued <=> \E e \in Engines : c \in Range(queue[e])
  BY DEF Queued
<1>2. \A p : p \in Busy <=> p \in Workers /\ pc[p] # "idle"
  BY DEF Busy
<1>3. \A c : c \in {task[p] : p \in Busy} <=> \E p \in Busy : c = task[p]
  OBVIOUS
<1> QED
  BY <1>1, <1>2, <1>3 DEF InFlight

(* The same after a step.                                                  *)
LEMMA InFlightMembersNext ==
  \A c : c \in InFlight' <=> \/ \E e \in Engines : c \in Range(queue'[e])
                            \/ \E p \in Workers : pc'[p] # "idle" /\ c = task'[p]
<1>1. \A c : c \in Queued' <=> \E e \in Engines : c \in Range(queue'[e])
  BY DEF Queued
<1>2. \A p : p \in Busy' <=> p \in Workers /\ pc'[p] # "idle"
  BY DEF Busy
<1>3. \A c : c \in {task'[p] : p \in Busy'} <=> \E p \in Busy' : c = task'[p]
  OBVIOUS
<1> QED
  BY <1>1, <1>2, <1>3 DEF InFlight

LEMMA InFlightCopies ==
  ASSUME TypeOK, NEW c \in InFlight
  PROVE  c \in Copy /\ c.id \in Workflows /\ c.occ \in Nat
<1>1. CASE \E e \in Engines : c \in Range(queue[e])
  <2>1. PICK e \in Engines : c \in Range(queue[e])
    BY <1>1
  <2>2. queue[e] \in Seq(Copy)
    BY DEF TypeOK
  <2>3. c \in Copy
    BY <2>1, <2>2 DEF Range
  <2> QED
    BY <2>3 DEF Copy
<1>2. CASE \E p \in Workers : pc[p] # "idle" /\ c = task[p]
  <2>1. c \in Copy
    BY <1>2, TaskOfWorker
  <2> QED
    BY <2>1 DEF Copy
<1> QED
  BY <1>1, <1>2, InFlightMembers

LEMMA MultipleHasNoRemainder ==
  ASSUME NEW s \in Nat, NEW k \in Nat, k > 0
  PROVE  (s * k) % k = 0
BY SMT

LEMMA NextMultiple ==
  ASSUME NEW u \in Nat, NEW k \in Nat, k > 0, u % k = 0
  PROVE  (u + k) % k = 0
<1>1. PICK s \in Nat : u = s * k
  BY SMT
<1>2. s + 1 \in Nat /\ u + k = (s + 1) * k
  BY <1>1, SMT
<1>3. ((s + 1) * k) % k = 0
  BY <1>2, MultipleHasNoRemainder
<1> QED
  BY <1>2, <1>3

(* The order of the texts of two times is wrong by less than a second.     *)
LEMMA TextOrderIsClose ==
  ASSUME NEW t \in Nat, NEW u \in Nat, NotAfter(t, u)
  PROVE  t < u + Second
<1>1. Second \in Nat /\ Second > 0
  BY SecondAssumption
<1>2. CASE t % Second = 0
  BY <1>1, <1>2 DEF NotAfter, TextRank
<1>3. CASE t % Second # 0 /\ u % Second # 0
  BY <1>1, <1>3 DEF NotAfter, TextRank
<1>4. CASE t % Second # 0 /\ u % Second = 0
  <2>1. t <= u + Second
    BY <1>1, <1>4 DEF NotAfter, TextRank
  <2>2. (u + Second) % Second = 0
    BY <1>1, <1>4, NextMultiple
  <2>3. t # u + Second
    BY <1>4, <2>2
  <2> QED
    BY <1>1, <2>1, <2>3
<1> QED
  BY <1>2, <1>3, <1>4

(* A row that a poll returns is due, to within a second.                   *)
LEMMA DueIsClose ==
  ASSUME TypeOK, NEW w \in Workflows, Schedulable(w)
  PROVE  DueWithinSecond(w)
<1>1. wf[w].retryAfter \in Nat /\ now \in Nat /\ now > 0
  BY HorizonAssumption DEF TypeOK, Row
<1>2. CASE wf[w].retryAfter = NoTime
  BY <1>1, <1>2, SecondAssumption DEF Schedulable, DueWithinSecond, NoTime
<1>3. CASE NotAfter(wf[w].retryAfter, now)
  BY <1>1, <1>3, TextOrderIsClose DEF Schedulable, DueWithinSecond
<1> QED
  BY <1>2, <1>3 DEF Schedulable

(* A copy stays valid, or falls behind, whatever happens to its row.       *)
LEMMA CopiesKept ==
  ASSUME TypeOK, CopiesCurrent, RowsMoveOn, InFlight' \subseteq InFlight,
         now' = now \/ now' = now + 1, TypeOK'
  PROVE  CopiesCurrent'
<1> SUFFICES ASSUME NEW c \in InFlight'
             PROVE  /\ c.occ <= wf'[c.id].occ
                    /\ c.occ = wf'[c.id].occ => /\ DueWithinSecond(c.id)'
                                                /\ c.attempts = wf'[c.id].attempts
  BY DEF CopiesCurrent
<1>1. c \in InFlight /\ c.id \in Workflows /\ c.occ \in Nat
  BY InFlightCopies
<1>2. /\ c.occ <= wf[c.id].occ
      /\ c.occ = wf[c.id].occ => /\ DueWithinSecond(c.id)
                                 /\ c.attempts = wf[c.id].attempts
  BY <1>1 DEF CopiesCurrent
<1>3. wf[c.id] \in Row /\ wf'[c.id] \in Row /\ now \in Nat /\ now' >= now
  BY <1>1, HorizonAssumption DEF TypeOK
<1>4. RowMovesOn(c.id)
  BY <1>1 DEF RowsMoveOn
<1>5. CASE \/ wf'[c.id] = wf[c.id]
           \/ \E s \in Signal : wf'[c.id] = [wf[c.id] EXCEPT !.signal = s]
  <2>1. /\ wf'[c.id].occ = wf[c.id].occ
        /\ wf'[c.id].status = wf[c.id].status
        /\ wf'[c.id].attempts = wf[c.id].attempts
        /\ wf'[c.id].retryAfter = wf[c.id].retryAfter
    BY <1>3, <1>5 DEF Row
  <2>2. wf[c.id].retryAfter \in Nat
    BY <1>3, HorizonAssumption DEF Row
  <2> QED
    BY <1>2, <1>3, <2>1, <2>2, SecondAssumption DEF DueWithinSecond
<1>6. CASE wf'[c.id].occ = wf[c.id].occ + 1
  <2>1. wf[c.id].occ \in Nat
    BY <1>3 DEF Row
  <2> QED
    BY <1>1, <1>2, <1>6, <2>1
<1> QED
  BY <1>4, <1>5, <1>6 DEF RowMovesOn

(* Nothing but a poll puts a copy in flight.                               *)
LEMMA InFlightSame ==
  ASSUME UNCHANGED queue,
         \A p \in Workers : pc'[p] # "idle" => pc[p] # "idle" /\ task'[p] = task[p]
  PROVE  InFlight' \subseteq InFlight
BY InFlightMembers, InFlightMembersNext

LEMMA InFlightTake ==
  ASSUME TypeOK, NEW p \in Workers, Take(p),
         \A q \in Workers : pc'[q] # "idle" =>
            \/ pc[q] # "idle" /\ task'[q] = task[q]
            \/ task'[q] = NextTask(p)
  PROVE  InFlight' \subseteq InFlight
<1> DEFINE e == EngineOf[p]
<1>1. e \in Engines
  BY EnginesAssumption
<1>2. queue[e] \in Seq(Copy) /\ queue[e] # <<>>
  BY <1>1 DEF TypeOK, Take
<1>3. Range(Tail(queue[e])) \subseteq Range(queue[e]) /\ NextTask(p) \in Range(queue[e])
  BY <1>2, TailRange DEF NextTask
<1>4. \A f \in Engines : Range(queue'[f]) \subseteq Range(queue[f])
  BY <1>1, <1>3 DEF TypeOK, Take
<1> QED
  BY <1>1, <1>3, <1>4, InFlightMembers, InFlightMembersNext

LEMMA InFlightCrash ==
  ASSUME TypeOK, NEW e \in Engines, Crash(e)
  PROVE  InFlight' \subseteq InFlight
<1>1. \A f \in Engines : Range(queue'[f]) \subseteq Range(queue[f])
  <2>1. Range(<<>>) = {}
    BY DEF Range
  <2> QED
    BY <2>1 DEF Crash, TypeOK
<1>2. \A p \in Workers : pc'[p] # "idle" => pc[p] # "idle" /\ task'[p] = task[p]
  BY DEF Crash
<1> QED
  BY <1>1, <1>2, InFlightMembers, InFlightMembersNext

LEMMA CopiesPoll ==
  ASSUME TypeOK, CopiesCurrent, NEW e \in Engines, Poll(e)
  PROVE  CopiesCurrent'
<1>1. PICK due \in ListSchedulable(Limit) :
        queue' = [queue EXCEPT ![e] = @ \o [i \in DOMAIN due |-> CopyOf(due[i])]]
  BY DEF Poll
<1> DEFINE copies == [i \in DOMAIN due |-> CopyOf(due[i])]
<1>2. copies \in Seq(Copy)
  BY CopiesOfDue
<1>3. \A c \in Range(copies) : \E w \in Workflows : Schedulable(w) /\ c = CopyOf(w)
  BY DueRows DEF Range
<1>4. \A f \in Engines : Range(queue'[f]) \subseteq Range(queue[f]) \cup Range(copies)
  <2>1. queue[e] \in Seq(Copy)
    BY DEF TypeOK
  <2>2. Range(queue[e] \o copies) \subseteq Range(queue[e]) \cup Range(copies)
    BY <1>2, <2>1, ConcatRange
  <2> QED
    BY <1>1, <2>2 DEF TypeOK
<1>5. UNCHANGED <<wf, now, pc, task>>
  BY DEF Poll
<1>6. \A c \in InFlight' : c \in InFlight \/ c \in Range(copies)
  BY <1>4, <1>5, InFlightMembers, InFlightMembersNext
<1>7. ASSUME NEW c \in InFlight'
      PROVE  /\ c.occ <= wf[c.id].occ
             /\ c.occ = wf[c.id].occ => /\ DueWithinSecond(c.id)
                                        /\ c.attempts = wf[c.id].attempts
  <2>1. CASE c \in InFlight
    BY <2>1 DEF CopiesCurrent
  <2>2. CASE c \in Range(copies)
    <3>1. PICK w \in Workflows : Schedulable(w) /\ c = CopyOf(w)
      BY <1>3, <2>2
    <3>2. c.id = w /\ c.occ = wf[w].occ /\ c.attempts = wf[w].attempts
      BY <3>1 DEF CopyOf
    <3>3. wf[w].occ \in Nat
      BY DEF TypeOK, Row
    <3>4. DueWithinSecond(w)
      BY <3>1, DueIsClose
    <3> QED
      BY <3>2, <3>3, <3>4
  <2> QED
    BY <1>6, <2>1, <2>2
<1> QED
  BY <1>5, <1>7 DEF CopiesCurrent, DueWithinSecond

LEMMA RowsSame == ASSUME UNCHANGED wf PROVE RowsMoveOn
BY DEF RowsMoveOn, RowMovesOn

(* No step but a poll adds a copy.                                         *)
LEMMA InFlightStep ==
  ASSUME TypeOK, [Next]_vars
  PROVE  InFlight' \subseteq InFlight \/ \E e \in Engines : Poll(e)
<1>1. CASE ClientStep \/ PassTime \/ UNCHANGED vars
  BY <1>1, InFlightSame DEF ClientStep, Submit, RequestCancel, Wake, PassTime,
     memoryVars, vars
<1>2. ASSUME NEW e \in Engines, EngineStep(e)
      PROVE  InFlight' \subseteq InFlight \/ Poll(e)
  <2>1. CASE Promote(e) \/ Stop(e) \/ DrainTimeout(e) \/ StartReturns(e) \/ Restart(e)
    BY <2>1, InFlightSame DEF Promote, Stop, DrainTimeout, StartReturns, Restart,
       memoryVars
  <2>2. CASE Crash(e)
    BY <2>2, InFlightCrash
  <2> QED
    BY <1>2, <2>1, <2>2 DEF EngineStep
<1>3. ASSUME NEW p \in Workers, WorkerStep(p)
      PROVE  InFlight' \subseteq InFlight
  <2>1. CASE DropUnregistered(p) \/ DropHeld(p)
    BY <2>1, InFlightTake DEF DropUnregistered, DropHeld
  <2>2. CASE Acquire(p)
    <3>1. \A q \in Workers : q # p => pc'[q] = pc[q] /\ task'[q] = task[q]
      BY <2>2 DEF Acquire, TypeOK
    <3>2. task'[p] = NextTask(p)
      BY <2>2 DEF Acquire, TypeOK
    <3> QED
      BY <2>2, <3>1, <3>2, InFlightTake DEF Acquire
  <2>3. CASE Release(p)
    <3>1. \A q \in Workers : q # p => pc'[q] = pc[q] /\ task'[q] = task[q]
      BY <2>3 DEF Release, TypeOK
    <3>2. pc'[p] = "idle"
      BY <2>3 DEF Release, TypeOK
    <3> QED
      BY <2>3, <3>1, <3>2, InFlightSame DEF Release
  <2>4. ASSUME UNCHANGED <<queue, task>>, pc[p] # "idle",
               \A q \in Workers : q # p => pc'[q] = pc[q]
        PROVE  InFlight' \subseteq InFlight
    BY <2>4, InFlightSame
  <2>5. CASE Resolving(p) \/ StoreFails(p)
    BY <2>4, <2>5 DEF Resolving, StoreFails, TypeOK
  <2>6. CASE ObserveCancel(p) \/ BeginExecute(p) \/ Execute(p)
    BY <2>4, <2>6 DEF ObserveCancel, BeginExecute, Execute, Return, TypeOK
  <2> QED
    BY <1>3, <2>1, <2>2, <2>3, <2>5, <2>6
       DEF WorkerStep, RecordCancelled, RecordPermanent, RecordSuspend,
           RecordExhausted, RecordRetry, RecordCompleted, Conflict
<1> QED
  BY <1>1, <1>2, <1>3 DEF Next

LEMMA ClockStep ==
  ASSUME [Next]_vars
  PROVE  now' = now \/ PassTime
BY DEF Next, ClientStep, Submit, RequestCancel, Wake, EngineStep,
   WorkerStep, Promote, Poll, Stop, DrainTimeout, StartReturns, Crash, Restart,
   DropUnregistered, DropHeld, Acquire, ObserveCancel, BeginExecute, Execute,
   Return, Conflict, StoreFails, Release, RecordCancelled, RecordPermanent,
   RecordSuspend, RecordExhausted, RecordRetry, RecordCompleted, Resolving, vars

LEMMA CopiesNext ==
  ASSUME TypeOK, CopiesCurrent, [Next]_vars
  PROVE  CopiesCurrent'
<1>1. TypeOK'
  BY TypeNext
<1>2. RowsMoveOn
  BY OtherSteps, TableStepWrites, RowsSame
<1>3. now' = now \/ now' = now + 1
  BY ClockStep DEF PassTime, Tick
<1>4. CASE InFlight' \subseteq InFlight
  BY <1>1, <1>2, <1>3, <1>4, CopiesKept
<1>5. CASE \E e \in Engines : Poll(e)
  BY <1>5, CopiesPoll
<1> QED
  BY <1>4, <1>5, InFlightStep

LEMMA CopiesInit == Init => CopiesCurrent
<1> SUFFICES ASSUME Init PROVE InFlight = {}
  BY DEF CopiesCurrent
<1>1. \A e \in Engines : Range(queue[e]) = {}
  BY DEF Init, Range
<1>2. \A p \in Workers : pc[p] = "idle"
  BY DEF Init
<1> QED
  BY <1>1, <1>2, InFlightMembers

(* Whatever the interleaving, a queued or executing copy either describes  *)
(* its row exactly or has a smaller occ_version than the row.              *)
THEOREM CopiesCorrect == Spec => []CopiesCurrent
<1>1. TypeOK /\ CopiesCurrent /\ [Next]_vars => CopiesCurrent'
  BY CopiesNext
<1> QED
  BY <1>1, CopiesInit, TypeCorrect, PTL DEF Spec

-----------------------------------------------------------------------------
(* What one step may do to one row                                         *)

(* The outcome of a worker is recorded in the row of its task.             *)
RowRecorded(w, p) ==
  /\ wf[w].status = "pending"
  /\ pc[p] = "resolve" /\ task[p].id = w /\ task[p].occ = wf[w].occ
  /\ \/ /\ outcome[p].kind = "completed"
        /\ wf'[w] = [wf[w] EXCEPT !.status = "completed", !.occ = @ + 1]
     \/ /\ outcome[p].kind = "cancelled"
        /\ wf'[w] = [wf[w] EXCEPT !.status = "cancelled", !.occ = @ + 1]
     \/ /\ outcome[p].kind \in {"permanent", "transient"}
        /\ wf'[w] = [wf[w] EXCEPT !.status = "failed", !.occ = @ + 1]
     \/ /\ outcome[p].kind = "suspend"
        /\ wf'[w] = [wf[w] EXCEPT !.status = "suspended",
                                  !.retryAfter = At(outcome[p].resumeAt),
                                  !.occ = @ + 1]
     \/ /\ outcome[p].kind = "transient"
        /\ wf[w].attempts + 1 < MaxAttempts
        /\ wf'[w] = [wf[w] EXCEPT !.retryAfter = At(now + Delay(wf[w].attempts)),
                                  !.attempts = @ + 1,
                                  !.occ = @ + 1]

RowStep(w) ==
  \/ wf'[w] = wf[w]
  \/ wf[w].status = "absent" /\ wf'[w] = NewRow
  \/ /\ wf[w].status # "absent"
     /\ wf'[w] = [wf[w] EXCEPT !.signal = "cancel_requested"]
  \/ \E p \in Workers : RowRecorded(w, p)
  \/ wf[w].status = "suspended" /\ wf'[w] = PromotedRow(wf[w])

(* The copy decides as the row would: it is current whenever the guarded   *)
(* statement finds its row.                                                *)
LEMMA CurrentWorker ==
  ASSUME TypeOK, CopiesCurrent, NEW p \in Workers, pc[p] # "idle",
         wf[task[p].id].occ = task[p].occ
  PROVE  /\ wf[task[p].id].status = "pending"
         /\ wf[task[p].id].attempts = task[p].attempts
<1>1. task[p] \in InFlight
  BY InFlightMembers
<1>2. DueWithinSecond(task[p].id) /\ task[p].attempts = wf[task[p].id].attempts
  BY <1>1 DEF CopiesCurrent
<1> QED
  BY <1>2 DEF DueWithinSecond

LEMMA RecordsRow ==
  ASSUME TypeOK, CopiesCurrent, NEW p \in Workers, Records(p)
  PROVE  /\ RowRecorded(task[p].id, p)
         /\ task[p].id \in Workflows
         /\ wf' = [wf EXCEPT ![task[p].id] = wf'[task[p].id]]
<1> DEFINE w == task[p].id
<1>1. pc[p] = "resolve" /\ w \in Workflows
  BY TaskOfWorker DEF Records, RecordCancelled, RecordPermanent, RecordSuspend,
     RecordExhausted, RecordRetry, RecordCompleted, Resolving
<1>2. wf[w].occ = task[p].occ
  BY DEF Records, RecordCancelled, RecordPermanent, RecordSuspend,
     RecordExhausted, RecordRetry, RecordCompleted, UpdateStatus, SetError,
     SetRetry, Suspend
<1>3. wf[w].status = "pending" /\ wf[w].attempts = task[p].attempts
  BY <1>1, <1>2, CurrentWorker
<1>4. wf \in [Workflows -> Row] /\ wf[w] \in Row
  BY <1>1 DEF TypeOK
<1>5. CASE RecordCancelled(p)
  BY <1>1, <1>2, <1>3, <1>4, <1>5 DEF RecordCancelled, UpdateStatus, RowRecorded
<1>6. CASE RecordCompleted(p)
  BY <1>1, <1>2, <1>3, <1>4, <1>6 DEF RecordCompleted, UpdateStatus, RowRecorded
<1>7. CASE RecordPermanent(p)
  BY <1>1, <1>2, <1>3, <1>4, <1>7 DEF RecordPermanent, SetError, RowRecorded
<1>8. CASE RecordExhausted(p)
  BY <1>1, <1>2, <1>3, <1>4, <1>8 DEF RecordExhausted, SetError, RowRecorded
<1>9. CASE RecordSuspend(p)
  BY <1>1, <1>2, <1>3, <1>4, <1>9 DEF RecordSuspend, Suspend, RowRecorded
<1>10. CASE RecordRetry(p)
  <2>1. wf[w].attempts + 1 < MaxAttempts
    <3>1. wf[w].attempts \in Nat /\ MaxAttempts \in Nat
      BY <1>4, BoundsAssumption DEF Row
    <3> QED
      BY <1>3, <1>10, <3>1 DEF RecordRetry, Exhausted
  <2>2. wf' = [wf EXCEPT ![w].status = "pending",
                         ![w].retryAfter = At(now + Delay(wf[w].attempts)),
                         ![w].attempts = @ + 1,
                         ![w].occ = @ + 1]
    BY <1>3, <1>10 DEF RecordRetry, SetRetry
  <2>3. wf'[w] = [wf[w] EXCEPT !.status = "pending",
                         !.retryAfter = At(now + Delay(wf[w].attempts)),
                         !.attempts = @ + 1,
                         !.occ = @ + 1]
    BY <1>1, <1>4, <2>2
  <2>4. wf'[w] = [wf[w] EXCEPT
                         !.retryAfter = At(now + Delay(wf[w].attempts)),
                         !.attempts = @ + 1,
                         !.occ = @ + 1]
    BY <1>3, <1>4, <2>3 DEF Row
  <2>5. wf' = [wf EXCEPT ![w] = wf'[w]]
    BY <1>1, <1>4, <2>2
  <2> QED
    BY <1>1, <1>2, <1>3, <1>10, <2>1, <2>4, <2>5 DEF RecordRetry, RowRecorded
<1> QED
  BY <1>5, <1>6, <1>7, <1>8, <1>9, <1>10 DEF Records

LEMMA RowSteps ==
  ASSUME TypeOK, CopiesCurrent, [Next]_vars
  PROVE  \A w \in Workflows : RowStep(w)
<1>1. wf \in [Workflows -> Row]
  BY DEF TypeOK
<1>2. CASE UNCHANGED wf
  BY <1>2 DEF RowStep
<1>3. ASSUME NEW v \in Workflows, Submit(v)
      PROVE  \A w \in Workflows : RowStep(w)
  BY <1>1, <1>3 DEF Submit, Create, RowStep
<1>4. ASSUME NEW v \in Workflows, RequestCancel(v)
      PROVE  \A w \in Workflows : RowStep(w)
  BY <1>1, <1>4 DEF RequestCancel, SetSignal, RowStep
<1>5. ASSUME NEW S \in SUBSET Workflows, Wake(S)
      PROVE  \A w \in Workflows : RowStep(w)
  BY <1>1, <1>5 DEF Wake, PromoteSubscribers, RowStep
<1>6. ASSUME NEW e \in Engines, Promote(e)
      PROVE  \A w \in Workflows : RowStep(w)
  BY <1>1, <1>6 DEF Promote, PromoteSuspended, Promotable, RowStep
<1>7. ASSUME NEW p \in Workers, Records(p)
      PROVE  \A w \in Workflows : RowStep(w)
  <2>1. /\ RowRecorded(task[p].id, p)
        /\ wf' = [wf EXCEPT ![task[p].id] = wf'[task[p].id]]
    BY <1>7, RecordsRow
  <2>2. \A w \in Workflows : w # task[p].id => wf'[w] = wf[w]
    BY <1>1, <2>1
  <2> QED
    BY <2>1, <2>2 DEF RowStep
<1> QED
  BY <1>2, <1>3, <1>4, <1>5, <1>6, <1>7, OtherSteps DEF TableStep, ClientStep

-----------------------------------------------------------------------------
(* Consequences for the rows                                               *)

LEMMA RowTypes ==
  ASSUME TypeOK, NEW w \in Workflows
  PROVE  /\ wf[w] \in Row /\ wf[w].attempts \in Nat /\ wf[w].occ \in Nat
         /\ wf[w].status \in Status /\ wf[w].signal \in Signal
         /\ wf[w].status = "absent" => wf[w] = AbsentRow
<1>1. wf[w] \in Row
  BY DEF TypeOK
<1> QED
  BY <1>1 DEF TypeOK, Row

(* A terminal row is never written again, except for its signal.           *)
THEOREM TerminalCorrect == Spec => TerminalIsFinal
<1>1. TypeOK /\ CopiesCurrent /\ [Next]_vars =>
        [\A w \in Workflows :
           wf[w].status \in Terminal =>
             wf'[w] = [wf[w] EXCEPT !.signal = wf'[w].signal]]_vars
  <2> SUFFICES ASSUME TypeOK, CopiesCurrent, [Next]_vars,
                      NEW w \in Workflows, wf[w].status \in Terminal
               PROVE  wf'[w] = [wf[w] EXCEPT !.signal = wf'[w].signal]
    OBVIOUS
  <2>1. RowStep(w)
    BY RowSteps
  <2>2. wf[w] \in Row
    BY RowTypes
  <2>3. wf'[w] = wf[w] \/ wf'[w] = [wf[w] EXCEPT !.signal = "cancel_requested"]
    BY <2>1 DEF RowStep, RowRecorded, Terminal
  <2> QED
    BY <2>2, <2>3 DEF Row
<1> QED
  BY <1>1, TypeCorrect, CopiesCorrect, PTL DEF Spec, TerminalIsFinal

(* What a step does to the attempts of a row.                              *)
LEMMA AttemptsStep ==
  ASSUME TypeOK, CopiesCurrent, [Next]_vars, NEW w \in Workflows
  PROVE  \/ wf'[w].attempts = wf[w].attempts
         \/ /\ wf[w].attempts + 1 < MaxAttempts
            /\ wf'[w].attempts = wf[w].attempts + 1
            /\ wf'[w].retryAfter = At(now + Delay(wf[w].attempts))
<1>1. RowStep(w)
  BY RowSteps
<1>2. wf[w] \in Row /\ (wf[w].status = "absent" => wf[w].attempts = 0)
  BY RowTypes DEF AbsentRow
<1>3. CASE wf[w].status = "absent" /\ wf'[w] = NewRow
  BY <1>2, <1>3 DEF NewRow
<1>4. CASE \E p \in Workers : RowRecorded(w, p)
  BY <1>2, <1>4 DEF RowRecorded, Row
<1>5. CASE wf'[w] = PromotedRow(wf[w])
  BY <1>2, <1>5 DEF PromotedRow, Row
<1>6. CASE wf'[w] = [wf[w] EXCEPT !.signal = "cancel_requested"]
  BY <1>2, <1>6 DEF Row
<1> QED
  BY <1>1, <1>3, <1>4, <1>5, <1>6 DEF RowStep

(* No workflow is retried beyond its policy, whichever engines execute it. *)
THEOREM AttemptsCorrect == Spec => []AttemptsBounded
<1>1. Init => AttemptsBounded
  BY DEF Init, StoreInit, AbsentRow, AttemptsBounded
<1>2. TypeOK /\ CopiesCurrent /\ AttemptsBounded /\ [Next]_vars => AttemptsBounded'
  <2> SUFFICES ASSUME TypeOK, CopiesCurrent, AttemptsBounded, [Next]_vars,
                      NEW w \in Workflows
               PROVE  wf'[w].attempts = 0 \/ wf'[w].attempts < MaxAttempts
    BY DEF AttemptsBounded
  <2>1. wf[w].attempts = 0 \/ wf[w].attempts < MaxAttempts
    BY DEF AttemptsBounded
  <2> QED
    BY <2>1, AttemptsStep
<1> QED
  BY <1>1, <1>2, TypeCorrect, CopiesCorrect, PTL DEF Spec

(* The powers of two count subsets, and so are natural numbers.            *)
LEMMA PowerNat == ASSUME NEW n \in Nat PROVE 2^n \in Nat
<1>1. IsFiniteSet(1..n) /\ Cardinality(1..n) = n
  BY FS_Interval
<1>2. IsFiniteSet(SUBSET (1..n)) /\ Cardinality(SUBSET (1..n)) = 2^n
  BY <1>1, FS_SUBSET
<1> QED
  BY <1>2, FS_CardinalityType

(* Where the doubled delay is a duration nothing of it is lost.            *)
LEMMA DelayBacksOff ==
  ASSUME NEW n \in Nat, 2 * Doubled(n) < 2^DurationBits
  PROVE  Delay(n) = Backoff(n)
<1> DEFINE d == Doubled(n)
           m == 2^DurationBits
<1>1. DurationBits \in Nat /\ BaseDelay \in Nat
  BY BoundsAssumption
<1>2. m \in Nat /\ 2^n \in Nat
  BY <1>1, PowerNat
<1>3. d = BaseDelay * 2^n
  BY DEF Doubled
<1>4. d \in Nat
  <2> DEFINE k == 2^n
  <2>1. k \in Nat /\ d = BaseDelay * k
    BY <1>2, <1>3
  <2> HIDE DEF k, d
  <2> QED
    BY <1>1, <2>1
<1>5. 2 * d < m
  OBVIOUS
<1>6. Duration(BaseDelay * 2^n) =
        IF 2 * (d % m) < m THEN d % m ELSE (d % m) - m
  BY <1>3 DEF Duration
<1>7. Delay(n) = IF Duration(BaseDelay * 2^n) > MaxDelay THEN MaxDelay
                 ELSE Duration(BaseDelay * 2^n)
  BY DEF Delay
<1>8. Backoff(n) = IF d > MaxDelay THEN MaxDelay ELSE d
  BY DEF Backoff
<1> HIDE DEF d, m
<1>9. d % m = d
  BY <1>2, <1>4, <1>5
<1>10. Duration(BaseDelay * 2^n) = d
  BY <1>5, <1>6, <1>9
<1> QED
  BY <1>7, <1>8, <1>10

(* A retry waits the exponential backoff of the row's own attempts.        *)
THEOREM BackoffCorrect == Spec => BackoffOfRow
<1>1. TypeOK /\ CopiesCurrent /\ [Next]_vars =>
        [\A w \in Workflows :
           wf'[w].attempts # wf[w].attempts =>
             /\ wf'[w].attempts = wf[w].attempts + 1
             /\ 2 * Doubled(wf[w].attempts) < 2^DurationBits =>
                  wf'[w].retryAfter = At(now + Backoff(wf[w].attempts))]_vars
  <2> SUFFICES ASSUME TypeOK, CopiesCurrent, [Next]_vars, NEW w \in Workflows,
                      wf'[w].attempts # wf[w].attempts
               PROVE  /\ wf'[w].attempts = wf[w].attempts + 1
                      /\ 2 * Doubled(wf[w].attempts) < 2^DurationBits =>
                           wf'[w].retryAfter = At(now + Backoff(wf[w].attempts))
    OBVIOUS
  <2>1. /\ wf'[w].attempts = wf[w].attempts + 1
        /\ wf'[w].retryAfter = At(now + Delay(wf[w].attempts))
    BY AttemptsStep
  <2>2. wf[w].attempts \in Nat
    BY RowTypes DEF Row
  <2> QED
    BY <2>1, <2>2, DelayBacksOff
<1> QED
  BY <1>1, TypeCorrect, CopiesCorrect, PTL DEF Spec, BackoffOfRow

(* A request to cancel is never taken back.                                *)
LEMMA SignalKept ==
  ASSUME TypeOK, CopiesCurrent, [Next]_vars, NEW w \in Workflows,
         wf[w].signal = "cancel_requested"
  PROVE  wf'[w].signal = "cancel_requested"
<1>1. RowStep(w)
  BY RowSteps
<1>2. wf[w] \in Row /\ wf[w].status # "absent"
  BY RowTypes DEF AbsentRow
<1>3. CASE \E p \in Workers : RowRecorded(w, p)
  BY <1>2, <1>3 DEF RowRecorded, Row
<1>4. CASE wf'[w] = PromotedRow(wf[w])
  BY <1>2, <1>4 DEF PromotedRow, Row
<1>5. CASE wf'[w] = [wf[w] EXCEPT !.signal = "cancel_requested"]
  BY <1>2, <1>5 DEF Row
<1> QED
  BY <1>1, <1>2, <1>3, <1>4, <1>5 DEF RowStep

-----------------------------------------------------------------------------
(* The engines implement the abstract life cycle                           *)

(* The steps that change nothing the life cycle shows.                     *)
LEMMA AbstractStutter == ASSUME UNCHANGED wf PROVE UNCHANGED L!vars
BY DEF L!vars

(* Writing one row changes the three abstract functions at that row.       *)
LEMMA AbstractRow ==
  ASSUME TypeOK, NEW w \in Workflows, wf' = [wf EXCEPT ![w] = wf'[w]]
  PROVE  /\ [v \in Workflows |-> wf'[v].status] =
              [[v \in Workflows |-> wf[v].status] EXCEPT ![w] = wf'[w].status]
         /\ [v \in Workflows |-> wf'[v].attempts] =
              [[v \in Workflows |-> wf[v].attempts] EXCEPT ![w] = wf'[w].attempts]
         /\ [v \in Workflows |-> wf'[v].signal] =
              [[v \in Workflows |-> wf[v].signal] EXCEPT ![w] = wf'[w].signal]
<1>1. \A v \in Workflows : v # w => wf'[v] = wf[v]
  BY DEF TypeOK
<1> QED
  BY <1>1

(* A row that keeps a field keeps the abstract function of that field.     *)
LEMMA AbstractSame ==
  ASSUME TypeOK, NEW w \in Workflows, wf' = [wf EXCEPT ![w] = wf'[w]]
  PROVE  /\ wf'[w].status = wf[w].status =>
              [v \in Workflows |-> wf'[v].status] = [v \in Workflows |-> wf[v].status]
         /\ wf'[w].attempts = wf[w].attempts =>
              [v \in Workflows |-> wf'[v].attempts] = [v \in Workflows |-> wf[v].attempts]
         /\ wf'[w].signal = wf[w].signal =>
              [v \in Workflows |-> wf'[v].signal] = [v \in Workflows |-> wf[v].signal]
<1>1. \A v \in Workflows : v # w => wf'[v] = wf[v]
  BY DEF TypeOK
<1> QED
  BY <1>1

(* Recording an outcome is one of the life cycle's steps from pending.     *)
LEMMA AbstractRecord ==
  ASSUME TypeOK, CopiesCurrent, NEW p \in Workers, Records(p)
  PROVE  L!Next
<1>1. PICK w \in Workflows : /\ task[p].id = w /\ RowRecorded(w, p)
                             /\ wf' = [wf EXCEPT ![w] = wf'[w]]
  BY RecordsRow
<1>2. wf[w] \in Row
  BY RowTypes
<1>3. [v \in Workflows |-> wf[v].status][w] = "pending"
  BY <1>1 DEF RowRecorded
<1>4. ASSUME NEW s, wf'[w].status = s, wf'[w].attempts = wf[w].attempts,
             wf'[w].signal = wf[w].signal
      PROVE  L!Become(w, s)
  BY <1>1, <1>3, <1>4, AbstractRow, AbstractSame DEF L!Become
<1>5. CASE wf'[w] = [wf[w] EXCEPT !.status = "completed", !.occ = @ + 1]
  <2>0. /\ wf'[w].status = "completed"
        /\ wf'[w].attempts = wf[w].attempts /\ wf'[w].signal = wf[w].signal
    BY <1>2, <1>5 DEF Row
  <2>1. L!Complete(w)
    BY <1>4, <2>0 DEF L!Complete
  <2> QED
    BY <1>1, <2>1 DEF L!Next
<1>6. CASE wf'[w] = [wf[w] EXCEPT !.status = "failed", !.occ = @ + 1]
  <2>0. /\ wf'[w].status = "failed"
        /\ wf'[w].attempts = wf[w].attempts /\ wf'[w].signal = wf[w].signal
    BY <1>2, <1>6 DEF Row
  <2>1. L!Fail(w)
    BY <1>4, <2>0 DEF L!Fail
  <2> QED
    BY <1>1, <2>1 DEF L!Next
<1>7. CASE wf'[w] = [wf[w] EXCEPT !.status = "suspended",
                                  !.retryAfter = At(outcome[p].resumeAt),
                                  !.occ = @ + 1]
  <2>0. /\ wf'[w].status = "suspended"
        /\ wf'[w].attempts = wf[w].attempts /\ wf'[w].signal = wf[w].signal
    BY <1>2, <1>7 DEF Row
  <2>1. L!Park(w)
    BY <1>4, <2>0 DEF L!Park
  <2> QED
    BY <1>1, <2>1 DEF L!Next
<1>8. CASE /\ outcome[p].kind = "cancelled"
           /\ wf'[w] = [wf[w] EXCEPT !.status = "cancelled", !.occ = @ + 1]
  <2>0. /\ wf'[w].status = "cancelled"
        /\ wf'[w].attempts = wf[w].attempts /\ wf'[w].signal = wf[w].signal
    BY <1>2, <1>8 DEF Row
  <2>1. L!Cancel(w)
    BY <1>4, <2>0 DEF L!Cancel
  <2> QED
    BY <1>1, <2>1 DEF L!Next
<1>9. CASE /\ wf[w].attempts + 1 < MaxAttempts
           /\ wf'[w] = [wf[w] EXCEPT !.retryAfter = At(now + Delay(wf[w].attempts)),
                                     !.attempts = @ + 1,
                                     !.occ = @ + 1]
  <2>1. /\ wf'[w].status = wf[w].status /\ wf'[w].signal = wf[w].signal
        /\ wf'[w].attempts = wf[w].attempts + 1
    BY <1>2, <1>9 DEF Row
  <2>2. [v \in Workflows |-> wf[v].attempts][w] = wf[w].attempts
    OBVIOUS
  <2>3. [v \in Workflows |-> wf'[v].attempts] =
          [[v \in Workflows |-> wf[v].attempts] EXCEPT ![w] = @ + 1]
    <3> DEFINE before == [v \in Workflows |-> wf[v].attempts]
               after  == [v \in Workflows |-> wf'[v].attempts]
    <3>1. after = [before EXCEPT ![w] = wf'[w].attempts]
      BY <1>1, AbstractRow
    <3>2. before[w] = wf[w].attempts
      BY <2>2
    <3> HIDE DEF before, after
    <3>3. after = [before EXCEPT ![w] = @ + 1]
      BY <2>1, <3>1, <3>2
    <3> QED
      BY <3>3 DEF before, after
  <2>4. /\ [v \in Workflows |-> wf'[v].status] = [v \in Workflows |-> wf[v].status]
        /\ [v \in Workflows |-> wf'[v].signal] = [v \in Workflows |-> wf[v].signal]
    BY <1>1, <2>1, AbstractSame
  <2>5. L!Retry(w)
    BY <1>3, <1>9, <2>2, <2>3, <2>4 DEF L!Retry
  <2> QED
    BY <2>5 DEF L!Next
<1> QED
  BY <1>1, <1>5, <1>6, <1>7, <1>8, <1>9 DEF RowRecorded

(* Promoting any set of suspended rows.                                    *)
LEMMA AbstractPromotion ==
  ASSUME TypeOK, NEW S \in SUBSET Workflows,
         \A w \in S : wf[w].status = "suspended",
         wf' = [w \in Workflows |-> IF w \in S THEN PromotedRow(wf[w]) ELSE wf[w]]
  PROVE  L!Next \/ UNCHANGED L!vars
<1>1. CASE S = {}
  <2>1. wf' = wf
    BY <1>1 DEF TypeOK
  <2> QED
    BY <2>1, AbstractStutter
<1>2. CASE S # {}
  <2>1. \A w \in S : /\ wf'[w].status = "pending"
                     /\ wf'[w].attempts = wf[w].attempts
                     /\ wf'[w].signal = wf[w].signal
    <3> SUFFICES ASSUME NEW w \in S
                 PROVE  /\ wf'[w].status = "pending"
                        /\ wf'[w].attempts = wf[w].attempts
                        /\ wf'[w].signal = wf[w].signal
      OBVIOUS
    <3>1. wf[w] \in Row /\ wf'[w] = PromotedRow(wf[w])
      BY RowTypes
    <3> QED
      BY <3>1 DEF PromotedRow, Row
  <2>2. \A w \in Workflows \ S : wf'[w] = wf[w]
    OBVIOUS
  <2>3. [w \in Workflows |-> wf'[w].status] =
          [w \in Workflows |-> IF w \in S THEN "pending"
                               ELSE [v \in Workflows |-> wf[v].status][w]]
    BY <2>1, <2>2
  <2>4. /\ [w \in Workflows |-> wf'[w].attempts] = [w \in Workflows |-> wf[w].attempts]
        /\ [w \in Workflows |-> wf'[w].signal] = [w \in Workflows |-> wf[w].signal]
    BY <2>1, <2>2
  <2>5. L!Resume(S)
    BY <1>2, <2>3, <2>4 DEF L!Resume
  <2> QED
    BY <2>5 DEF L!Next
<1> QED
  BY <1>1, <1>2

LEMMA AbstractStep ==
  ASSUME TypeOK, CopiesCurrent, [Next]_vars
  PROVE  L!Next \/ UNCHANGED L!vars
<1>1. wf \in [Workflows -> Row]
  BY DEF TypeOK
<1>2. CASE UNCHANGED wf
  BY <1>2, AbstractStutter
<1>3. ASSUME NEW w \in Workflows, Submit(w)
      PROVE  L!Next
  <2>1. wf[w] = AbsentRow /\ wf' = [wf EXCEPT ![w] = NewRow]
    BY <1>3, RowTypes DEF Submit, Create
  <2>2. /\ wf' = [wf EXCEPT ![w] = wf'[w]] /\ wf'[w].status = "pending"
        /\ wf'[w].attempts = wf[w].attempts /\ wf'[w].signal = wf[w].signal
    BY <1>1, <2>1 DEF AbsentRow, NewRow
  <2>3. [v \in Workflows |-> wf[v].status][w] = "absent"
    BY <2>1 DEF AbsentRow
  <2>4. L!Submit(w)
    BY <2>2, <2>3, AbstractRow, AbstractSame DEF L!Submit
  <2> QED
    BY <2>4 DEF L!Next
<1>4. ASSUME NEW w \in Workflows, RequestCancel(w)
      PROVE  L!Next
  <2>1. /\ wf[w].status # "absent"
        /\ wf' = [wf EXCEPT ![w].signal = "cancel_requested"]
    BY <1>4 DEF RequestCancel, SetSignal
  <2>2. /\ wf' = [wf EXCEPT ![w] = wf'[w]] /\ wf'[w].signal = "cancel_requested"
        /\ wf'[w].attempts = wf[w].attempts /\ wf'[w].status = wf[w].status
    BY <1>1, <2>1 DEF Row
  <2>3. [v \in Workflows |-> wf[v].status][w] # "absent"
    BY <2>1
  <2>4. L!RequestCancel(w)
    BY <2>2, <2>3, AbstractRow, AbstractSame DEF L!RequestCancel
  <2> QED
    BY <2>4 DEF L!Next
<1>5. ASSUME NEW S \in SUBSET Workflows, Wake(S)
      PROVE  L!Next \/ UNCHANGED L!vars
  <2> DEFINE T == {w \in S : wf[w].status = "suspended"}
  <2>1. wf' = [w \in Workflows |-> IF w \in T THEN PromotedRow(wf[w]) ELSE wf[w]]
    BY <1>5 DEF Wake, PromoteSubscribers
  <2>2. T \in SUBSET Workflows /\ \A w \in T : wf[w].status = "suspended"
    OBVIOUS
  <2> HIDE DEF T
  <2> QED
    BY <2>1, <2>2, AbstractPromotion
<1>6. ASSUME NEW e \in Engines, Promote(e)
      PROVE  L!Next \/ UNCHANGED L!vars
  <2> DEFINE T == {w \in Workflows : Promotable(w)}
  <2>1. wf' = [w \in Workflows |-> IF w \in T THEN PromotedRow(wf[w]) ELSE wf[w]]
    BY <1>6 DEF Promote, PromoteSuspended
  <2>2. T \in SUBSET Workflows /\ \A w \in T : wf[w].status = "suspended"
    BY DEF Promotable
  <2> HIDE DEF T
  <2> QED
    BY <2>1, <2>2, AbstractPromotion
<1> QED
  BY <1>2, <1>3, <1>4, <1>5, <1>6, OtherSteps, AbstractRecord
     DEF TableStep, ClientStep

(* Any number of engines over one store, with their crashes, stale copies  *)
(* and conflicting writes, look to the outside like the life cycle.        *)
THEOREM LifecycleImplemented == Spec => Implements
<1>1. Init => L!Init
  BY DEF Init, StoreInit, AbsentRow, L!Init
<1>2. TypeOK /\ CopiesCurrent /\ [Next]_vars => [L!Next]_L!vars
  BY AbstractStep
<1> QED
  BY <1>1, <1>2, TypeCorrect, CopiesCorrect, PTL DEF Spec, Implements, L!Spec

-----------------------------------------------------------------------------
(* Leases                                                                  *)

BusyAt(p, e) == EngineOf[p] = e /\ pc[p] # "idle"

(* LeasesMatchWorkers, element by element.                                 *)
LeaseForm ==
  \A e \in Engines :
    /\ \A x : x \in leases[e] <=> \E p \in Workers : BusyAt(p, e) /\ task[p].id = x
    /\ \A p, q \in Workers :
         BusyAt(p, e) /\ BusyAt(q, e) /\ task[p].id = task[q].id => p = q

LEMMA LeaseFormEquivalent == LeaseForm <=> LeasesMatchWorkers
<1>1. \A e, p : p \in Running(e) <=> p \in Workers /\ BusyAt(p, e)
  BY DEF Running, BusyAt
<1>2. \A e, x : x \in {task[p].id : p \in Running(e)} <=>
                  \E p \in Running(e) : task[p].id = x
  OBVIOUS
<1>3. ASSUME LeaseForm PROVE LeasesMatchWorkers
  <2> SUFFICES ASSUME NEW e \in Engines
               PROVE  /\ leases[e] = {task[p].id : p \in Running(e)}
                      /\ \A p, q \in Running(e) : task[p].id = task[q].id => p = q
    BY DEF LeasesMatchWorkers
  <2>1. \A x : x \in leases[e] <=> x \in {task[p].id : p \in Running(e)}
    BY <1>1, <1>2, <1>3 DEF LeaseForm
  <2>2. leases[e] = {task[p].id : p \in Running(e)}
    BY <2>1
  <2> QED
    BY <1>1, <1>3, <2>2 DEF LeaseForm
<1>4. ASSUME LeasesMatchWorkers PROVE LeaseForm
  BY <1>1, <1>2, <1>4 DEF LeasesMatchWorkers, LeaseForm
<1> QED
  BY <1>3, <1>4

LEMMA LeasesSame ==
  ASSUME LeaseForm, UNCHANGED <<leases, task>>,
         \A p \in Workers : pc'[p] = "idle" <=> pc[p] = "idle"
  PROVE  LeaseForm'
BY DEF LeaseForm, BusyAt

LEMMA LeasesAcquire ==
  ASSUME TypeOK, LeaseForm, NEW p \in Workers, Acquire(p)
  PROVE  LeaseForm'
<1> DEFINE id == NextTask(p).id
<1>1. EngineOf[p] \in Engines /\ pc[p] = "idle"
  BY EnginesAssumption DEF Acquire, Take
<1>2. /\ id \notin leases[EngineOf[p]]
      /\ leases'[EngineOf[p]] = leases[EngineOf[p]] \cup {id}
      /\ \A e \in Engines : e # EngineOf[p] => leases'[e] = leases[e]
  BY <1>1 DEF Acquire, TypeOK
<1>3. /\ pc'[p] # "idle" /\ task'[p].id = id
      /\ \A q \in Workers : q # p => pc'[q] = pc[q] /\ task'[q] = task[q]
  BY DEF Acquire, TypeOK
<1> HIDE DEF id
<1> SUFFICES ASSUME NEW e \in Engines
             PROVE  /\ \A x : x \in leases'[e] <=>
                           \E q \in Workers : BusyAt(q, e)' /\ task'[q].id = x
                    /\ \A q, r \in Workers :
                         BusyAt(q, e)' /\ BusyAt(r, e)' /\ task'[q].id = task'[r].id
                           => q = r
  BY DEF LeaseForm
<1>4. \A q \in Workers : q # p => (BusyAt(q, e)' <=> BusyAt(q, e))
  BY <1>3 DEF BusyAt
<1>5. ~BusyAt(p, e) /\ (BusyAt(p, e)' <=> e = EngineOf[p])
  BY <1>1, <1>3 DEF BusyAt
<1>6. /\ \A x : x \in leases[e] <=> \E q \in Workers : BusyAt(q, e) /\ task[q].id = x
      /\ \A q, r \in Workers :
           BusyAt(q, e) /\ BusyAt(r, e) /\ task[q].id = task[r].id => q = r
  BY DEF LeaseForm
<1>7. CASE e = EngineOf[p]
  <2>1. \A q \in Workers : BusyAt(q, e) => task[q].id # id
    BY <1>2, <1>6, <1>7
  <2> QED
    BY <1>2, <1>3, <1>4, <1>5, <1>6, <1>7, <2>1
<1>8. CASE e # EngineOf[p]
  BY <1>2, <1>3, <1>4, <1>5, <1>6, <1>8
<1> QED
  BY <1>7, <1>8

LEMMA LeasesRelease ==
  ASSUME TypeOK, LeaseForm, NEW p \in Workers, Release(p)
  PROVE  LeaseForm'
<1>1. EngineOf[p] \in Engines /\ pc[p] # "idle"
  BY EnginesAssumption DEF Release
<1>2. /\ leases'[EngineOf[p]] = leases[EngineOf[p]] \ {task[p].id}
      /\ \A e \in Engines : e # EngineOf[p] => leases'[e] = leases[e]
  BY <1>1 DEF Release, TypeOK
<1>3. /\ pc'[p] = "idle"
      /\ \A q \in Workers : q # p => pc'[q] = pc[q] /\ task'[q] = task[q]
  BY DEF Release, TypeOK
<1> SUFFICES ASSUME NEW e \in Engines
             PROVE  /\ \A x : x \in leases'[e] <=>
                           \E q \in Workers : BusyAt(q, e)' /\ task'[q].id = x
                    /\ \A q, r \in Workers :
                         BusyAt(q, e)' /\ BusyAt(r, e)' /\ task'[q].id = task'[r].id
                           => q = r
  BY DEF LeaseForm
<1>4. \A q \in Workers : BusyAt(q, e)' <=> q # p /\ BusyAt(q, e)
  BY <1>3 DEF BusyAt
<1>5. BusyAt(p, e) <=> e = EngineOf[p]
  BY <1>1 DEF BusyAt
<1>6. /\ \A x : x \in leases[e] <=> \E q \in Workers : BusyAt(q, e) /\ task[q].id = x
      /\ \A q, r \in Workers :
           BusyAt(q, e) /\ BusyAt(r, e) /\ task[q].id = task[r].id => q = r
  BY DEF LeaseForm
<1>7. CASE e = EngineOf[p]
  <2>1. \A q \in Workers : BusyAt(q, e) /\ task[q].id = task[p].id => q = p
    BY <1>5, <1>6, <1>7
  <2> QED
    BY <1>2, <1>3, <1>4, <1>5, <1>6, <1>7, <2>1
<1>8. CASE e # EngineOf[p]
  BY <1>2, <1>3, <1>4, <1>5, <1>6, <1>8
<1> QED
  BY <1>7, <1>8

LEMMA LeasesCrash ==
  ASSUME TypeOK, LeaseForm, NEW f \in Engines, Crash(f)
  PROVE  LeaseForm'
<1>1. leases'[f] = {} /\ \A e \in Engines : e # f => leases'[e] = leases[e]
  BY DEF Crash, TypeOK
<1>2. \A e \in Engines, q \in Workers :
        /\ BusyAt(q, e)' <=> e # f /\ BusyAt(q, e)
        /\ BusyAt(q, e)' => task'[q] = task[q]
  BY DEF Crash, BusyAt, TypeOK
<1> SUFFICES ASSUME NEW e \in Engines
             PROVE  /\ \A x : x \in leases'[e] <=>
                           \E q \in Workers : BusyAt(q, e)' /\ task'[q].id = x
                    /\ \A q, r \in Workers :
                         BusyAt(q, e)' /\ BusyAt(r, e)' /\ task'[q].id = task'[r].id
                           => q = r
  BY DEF LeaseForm
<1>3. CASE e = f
  BY <1>1, <1>2, <1>3
<1>4. CASE e # f
  BY <1>1, <1>2, <1>4 DEF LeaseForm
<1> QED
  BY <1>3, <1>4

LEMMA LeasesNext ==
  ASSUME TypeOK, LeaseForm, [Next]_vars
  PROVE  LeaseForm'
<1>1. CASE ClientStep \/ PassTime \/ UNCHANGED vars
  BY <1>1, LeasesSame DEF ClientStep, Submit, RequestCancel, Wake, PassTime,
     memoryVars, vars
<1>2. ASSUME NEW e \in Engines, EngineStep(e) PROVE LeaseForm'
  <2>1. CASE Crash(e)
    BY <2>1, LeasesCrash
  <2> QED
    BY <1>2, <2>1, LeasesSame DEF EngineStep, Promote, Poll, Stop, DrainTimeout,
       StartReturns, Restart, memoryVars
<1>3. ASSUME NEW p \in Workers, WorkerStep(p) PROVE LeaseForm'
  <2>1. CASE Acquire(p) \/ Release(p)
    BY <2>1, LeasesAcquire, LeasesRelease
  <2>2. CASE DropUnregistered(p) \/ DropHeld(p)
    BY <2>2, LeasesSame DEF DropUnregistered, DropHeld
  <2>3. ASSUME UNCHANGED <<leases, task>>, pc[p] # "idle", pc'[p] # "idle",
               \A q \in Workers : q # p => pc'[q] = pc[q]
        PROVE  LeaseForm'
    BY <2>3, LeasesSame
  <2>4. CASE Resolving(p) \/ StoreFails(p)
    BY <2>3, <2>4 DEF Resolving, StoreFails, TypeOK
  <2>5. CASE ObserveCancel(p) \/ BeginExecute(p) \/ Execute(p)
    BY <2>3, <2>5 DEF ObserveCancel, BeginExecute, Execute, Return, TypeOK
  <2> QED
    BY <1>3, <2>1, <2>2, <2>4, <2>5
       DEF WorkerStep, RecordCancelled, RecordPermanent, RecordSuspend,
           RecordExhausted, RecordRetry, RecordCompleted, Conflict
<1> QED
  BY <1>1, <1>2, <1>3 DEF Next

(* No lease is lost or leaked, and within one engine no workflow is        *)
(* executed by two workers at once.                                        *)
THEOREM LeasesCorrect == Spec => []LeasesMatchWorkers
<1>1. Init => LeaseForm
  BY DEF Init, LeaseForm, BusyAt
<1>2. TypeOK /\ LeaseForm /\ [Next]_vars => LeaseForm'
  BY LeasesNext
<1> QED
  BY <1>1, <1>2, TypeCorrect, LeaseFormEquivalent, PTL DEF Spec

-----------------------------------------------------------------------------
(* Cancellation is irrevocable                                             *)

(* How a worker gets to, or stays in, the execution of its task.           *)
LEMMA WorkerMoves ==
  ASSUME TypeOK, [Next]_vars, NEW q \in Workers, pc'[q] \in {"execute", "resolve"}
  PROVE  /\ task'[q] = task[q] /\ pc[q] # "idle"
         /\ \/ pc'[q] = pc[q] /\ outcome'[q] = outcome[q]
            \/ pc[q] = "signal" /\ wf[task[q].id].signal # "cancel_requested"
            \/ pc'[q] = "resolve" /\ outcome'[q].kind = "cancelled"
            \/ pc[q] = "execute"
<1>1. CASE UNCHANGED <<pc, task, outcome>>
  BY <1>1
<1>2. CASE \E e \in Engines : Crash(e)
  BY <1>2 DEF Crash
<1>3. ASSUME NEW p \in Workers, q # p, WorkerStep(p)
      PROVE  pc'[q] = pc[q] /\ outcome'[q] = outcome[q] /\ task'[q] = task[q]
  BY <1>3 DEF TypeOK, WorkerStep, DropUnregistered, DropHeld, Acquire,
     ObserveCancel, BeginExecute, Execute, Return, RecordCancelled,
     RecordPermanent, RecordSuspend, RecordExhausted, RecordRetry,
     RecordCompleted, Resolving, Conflict, StoreFails, Release
<1>4. CASE ObserveCancel(q)
  <2>1. /\ task' = task /\ pc[q] = "signal" /\ pc'[q] = "resolve"
        /\ outcome'[q] = OutcomeOf("cancelled")
    BY <1>4 DEF ObserveCancel, Return, TypeOK
  <2> QED
    BY <2>1 DEF OutcomeOf
<1>5. CASE BeginExecute(q)
  BY <1>5 DEF BeginExecute
<1>6. CASE Execute(q)
  BY <1>6 DEF Execute, Return
<1>7. CASE \/ Acquire(q) \/ Resolving(q) \/ StoreFails(q) \/ Release(q)
  BY <1>7 DEF Acquire, Resolving, StoreFails, Release, TypeOK
<1>8. CASE DropUnregistered(q) \/ DropHeld(q)
  BY <1>1, <1>8 DEF DropUnregistered, DropHeld
<1>9. CASE WorkerStep(q)
  BY <1>4, <1>5, <1>6, <1>7, <1>8, <1>9
     DEF WorkerStep, RecordCancelled, RecordPermanent, RecordSuspend,
         RecordExhausted, RecordRetry, RecordCompleted, Conflict
<1>10. CASE \E p \in Workers : WorkerStep(p)
  BY <1>3, <1>9, <1>10
<1>11. CASE ClientStep \/ PassTime \/ UNCHANGED vars
  BY <1>1, <1>11 DEF ClientStep, Submit, RequestCancel, Wake, PassTime,
     memoryVars, vars
<1>12. CASE \E e \in Engines : EngineStep(e)
  BY <1>1, <1>2, <1>12 DEF EngineStep, Promote, Poll, Stop, DrainTimeout,
     StartReturns, Restart, memoryVars
<1> QED
  BY <1>10, <1>11, <1>12 DEF Next

LEMMA OccMonotone ==
  ASSUME TypeOK, CopiesCurrent, [Next]_vars, NEW w \in Workflows
  PROVE  wf'[w].occ \in Nat /\ wf[w].occ \in Nat /\ wf[w].occ <= wf'[w].occ
<1>1. TypeOK'
  BY TypeNext
<1>2. wf'[w] \in Row /\ wf[w] \in Row /\ wf'[w].occ \in Nat /\ wf[w].occ \in Nat
  BY <1>1 DEF TypeOK, Row
<1>3. RowMovesOn(w)
  BY OtherSteps, TableStepWrites, RowsSame DEF RowsMoveOn
<1>4. CASE \E s \in Signal : wf'[w] = [wf[w] EXCEPT !.signal = s]
  BY <1>2, <1>4 DEF Row
<1> QED
  BY <1>2, <1>3, <1>4 DEF RowMovesOn

LEMMA DoomedNext ==
  ASSUME TypeOK, CopiesCurrent, [Next]_vars, NEW w \in Workflows, Doomed(w)
  PROVE  Doomed(w)'
<1>1. wf'[w].signal = "cancel_requested"
  BY SignalKept DEF Doomed
<1>2. wf'[w].status \in {"pending", "suspended", "cancelled"}
  <2>1. RowStep(w) /\ wf[w] \in Row
    BY RowSteps, RowTypes
  <2>2. ASSUME NEW p \in Workers, RowRecorded(w, p)
        PROVE  wf'[w].status = "cancelled"
    <3>1. outcome[p].kind = "cancelled"
      BY <2>2 DEF Doomed, RowRecorded
    <3>2. wf'[w] = [wf[w] EXCEPT !.status = "cancelled", !.occ = @ + 1]
      BY <2>2, <3>1 DEF RowRecorded
    <3> QED
      BY <2>1, <3>2 DEF Row
  <2>3. CASE wf'[w] = PromotedRow(wf[w])
    BY <2>1, <2>3, PromotedType
  <2>4. CASE wf'[w] = [wf[w] EXCEPT !.signal = "cancel_requested"]
    BY <2>1, <2>4 DEF Row, Doomed
  <2> QED
    BY <2>1, <2>2, <2>3, <2>4 DEF RowStep, Doomed
<1>3. ASSUME NEW q \in Workers, pc'[q] \in {"execute", "resolve"},
             task'[q].id = w, task'[q].occ = wf'[w].occ
      PROVE  pc'[q] = "resolve" /\ outcome'[q].kind = "cancelled"
  <2>1. /\ task'[q] = task[q] /\ pc[q] # "idle"
        /\ \/ pc'[q] = pc[q] /\ outcome'[q] = outcome[q]
           \/ pc[q] = "signal" /\ wf[task[q].id].signal # "cancel_requested"
           \/ pc'[q] = "resolve" /\ outcome'[q].kind = "cancelled"
           \/ pc[q] = "execute"
    BY <1>3, WorkerMoves
  <2>2. task[q].occ = wf[w].occ
    <3>1. task[q] \in InFlight
      BY <2>1, InFlightMembers
    <3>2. task[q].occ <= wf[w].occ
      BY <1>3, <2>1, <3>1 DEF CopiesCurrent
    <3> QED
      BY <1>3, <2>1, <3>2, OccMonotone
  <2> QED
    BY <1>3, <2>1, <2>2 DEF Doomed
<1> QED
  BY <1>1, <1>2, <1>3 DEF Doomed

(* Once no current worker can record anything else, a workflow asked to    *)
(* cancel can only end cancelled, however stale the copies that still run. *)
THEOREM CancelCorrect == Spec => CancelIsIrrevocable
<1>1. TypeOK /\ CopiesCurrent /\ [Next]_vars =>
        [\A w \in Workflows : Doomed(w) => Doomed(w)']_vars
  BY DoomedNext
<1> QED
  BY <1>1, TypeCorrect, CopiesCorrect, PTL DEF Spec, CancelIsIrrevocable

=============================================================================
