---------------------------- MODULE HandlesProofs ----------------------------
(***************************************************************************)
(* Proofs about the counters of the engines, the WaitGroup of Dispatch and *)
(* the gauge of Handles, and about what the handles tell an application.   *)
(***************************************************************************)
EXTENDS Handles, DispatchProofs, FiniteSetTheorems

-----------------------------------------------------------------------------
(* Sets of workers                                                         *)

LEMMA RunningFinite ==
  ASSUME NEW e \in Engines
  PROVE  IsFiniteSet(Running(e)) /\ Cardinality(Running(e)) \in Nat
<1>1. Running(e) \in SUBSET Workers
  BY DEF Running
<1> QED
  BY <1>1, WorkersAssumption, FS_Subset, FS_CardinalityType

LEMMA RunningSame ==
  ASSUME \A p \in Workers : pc'[p] = "idle" <=> pc[p] = "idle", NEW e
  PROVE  Running(e)' = Running(e)
BY DEF Running

(* A worker begins, or ends.                                               *)
LEMMA RunningMore ==
  ASSUME NEW p \in Workers, pc[p] = "idle", pc'[p] # "idle",
         \A q \in Workers : q # p => pc'[q] = pc[q], NEW e \in Engines
  PROVE  Cardinality(Running(e)') = IF EngineOf[p] = e
                                    THEN Cardinality(Running(e)) + 1
                                    ELSE Cardinality(Running(e))
<1>1. CASE EngineOf[p] = e
  <2>1. Running(e)' = Running(e) \cup {p} /\ p \notin Running(e)
    BY <1>1 DEF Running
  <2> QED
    BY <1>1, <2>1, RunningFinite, FS_AddElement
<1>2. CASE EngineOf[p] # e
  <2>1. Running(e)' = Running(e)
    BY <1>2 DEF Running
  <2> QED
    BY <1>2, <2>1
<1> QED
  BY <1>1, <1>2

LEMMA RunningLess ==
  ASSUME NEW p \in Workers, pc[p] # "idle", pc'[p] = "idle",
         \A q \in Workers : q # p => pc'[q] = pc[q], NEW e \in Engines
  PROVE  Cardinality(Running(e)') = IF EngineOf[p] = e
                                    THEN Cardinality(Running(e)) - 1
                                    ELSE Cardinality(Running(e))
<1>1. CASE EngineOf[p] = e
  <2>1. p \in Running(e)
    BY <1>1 DEF Running
  <2>2. \A q \in Workers : q \in Running(e)' <=> q \in Running(e) /\ q # p
    BY <1>1 DEF Running
  <2>3. Running(e) \subseteq Workers /\ Running(e)' \subseteq Workers
    BY DEF Running
  <2>4. Running(e)' = Running(e) \ {p}
    BY <2>2, <2>3
  <2>5. IsFiniteSet(Running(e)) /\ p \in Running(e)
    BY <2>1, RunningFinite
  <2>6. Cardinality(Running(e) \ {p}) = Cardinality(Running(e)) - 1
    BY <2>5, FS_RemoveElement
  <2> QED
    BY <1>1, <2>4, <2>6
<1>2. CASE EngineOf[p] # e
  <2>1. Running(e)' = Running(e)
    BY <1>2 DEF Running
  <2> QED
    BY <1>2, <2>1
<1> QED
  BY <1>1, <1>2

-----------------------------------------------------------------------------
(* The WaitGroup                                                           *)

LEMMA WaitGroupSame ==
  ASSUME WaitGroupCounts, UNCHANGED <<queue, wg>>,
         \A p \in Workers : pc'[p] = "idle" <=> pc[p] = "idle"
  PROVE  WaitGroupCounts'
BY RunningSame DEF WaitGroupCounts

(* A task leaves the queue.                                                *)
LEMMA TakeShortens ==
  ASSUME TypeOK, NEW p \in Workers, Take(p), NEW e \in Engines
  PROVE  /\ Len(queue[e]) \in Nat
         /\ Len(queue'[e]) = IF EngineOf[p] = e THEN Len(queue[e]) - 1
                                                ELSE Len(queue[e])
<1>1. queue[e] \in Seq(Copy) /\ Len(queue[e]) \in Nat
  BY DEF TypeOK
<1>2. CASE EngineOf[p] = e
  <2>1. queue'[e] = Tail(queue[e]) /\ queue[e] # <<>>
    BY <1>2 DEF Take, TypeOK
  <2> QED
    BY <1>1, <1>2, <2>1
<1>3. CASE EngineOf[p] # e
  BY <1>1, <1>3 DEF Take, TypeOK
<1> QED
  BY <1>2, <1>3

LEMMA TaskDoneCounts ==
  ASSUME TypeOK, NEW p \in Workers, TaskDone(p), NEW e \in Engines
  PROVE  /\ wg[e] \in Int
         /\ wg'[e] = IF EngineOf[p] = e THEN wg[e] - 1 ELSE wg[e]
BY DEF TypeOK, TaskDone

LEMMA WaitGroupDrop ==
  ASSUME TypeOK, WaitGroupCounts, NEW p \in Workers,
         DropUnregistered(p) \/ DropHeld(p)
  PROVE  WaitGroupCounts'
<1> SUFFICES ASSUME NEW e \in Engines
             PROVE  wg'[e] = Len(queue'[e]) + Cardinality(Running(e)')
  BY DEF WaitGroupCounts
<1>1. Take(p) /\ TaskDone(p) /\ UNCHANGED pc
  BY DEF DropUnregistered, DropHeld
<1>2. Running(e)' = Running(e)
  BY <1>1, RunningSame
<1>3. wg[e] = Len(queue[e]) + Cardinality(Running(e))
  BY DEF WaitGroupCounts
<1> QED
  BY <1>1, <1>2, <1>3, TakeShortens, TaskDoneCounts, RunningFinite

LEMMA WaitGroupAcquire ==
  ASSUME TypeOK, WaitGroupCounts, NEW p \in Workers, Acquire(p)
  PROVE  WaitGroupCounts'
<1> SUFFICES ASSUME NEW e \in Engines
             PROVE  wg'[e] = Len(queue'[e]) + Cardinality(Running(e)')
  BY DEF WaitGroupCounts
<1>1. /\ Take(p) /\ UNCHANGED wg
      /\ pc[p] = "idle" /\ pc'[p] # "idle"
      /\ \A q \in Workers : q # p => pc'[q] = pc[q]
  BY DEF Acquire, Take, TypeOK
<1>2. wg[e] = Len(queue[e]) + Cardinality(Running(e))
  BY DEF WaitGroupCounts
<1> QED
  BY <1>1, <1>2, TakeShortens, RunningMore, RunningFinite

LEMMA WaitGroupRelease ==
  ASSUME TypeOK, WaitGroupCounts, NEW p \in Workers, Release(p)
  PROVE  WaitGroupCounts'
<1> SUFFICES ASSUME NEW e \in Engines
             PROVE  wg'[e] = Len(queue'[e]) + Cardinality(Running(e)')
  BY DEF WaitGroupCounts
<1>1. /\ TaskDone(p) /\ UNCHANGED queue
      /\ pc[p] # "idle" /\ pc'[p] = "idle"
      /\ \A q \in Workers : q # p => pc'[q] = pc[q]
  BY DEF Release, TypeOK
<1>2. wg[e] = Len(queue[e]) + Cardinality(Running(e)) /\ Len(queue[e]) \in Nat
  BY DEF WaitGroupCounts, TypeOK
<1> QED
  BY <1>1, <1>2, TaskDoneCounts, RunningLess, RunningFinite

(* Every row of a poll is counted, in whatever order and number they come. *)
LEMMA WaitGroupPoll ==
  ASSUME TypeOK, WaitGroupCounts, NEW f \in Engines, Poll(f)
  PROVE  WaitGroupCounts'
<1> SUFFICES ASSUME NEW e \in Engines
             PROVE  wg'[e] = Len(queue'[e]) + Cardinality(Running(e)')
  BY DEF WaitGroupCounts
<1>1. PICK due \in ListSchedulable(Limit) :
        /\ queue' = [queue EXCEPT ![f] =
                       @ \o [i \in DOMAIN due |-> CopyOf(due[i])]]
        /\ wg' = [wg EXCEPT ![f] = @ + Len(due)]
  BY DEF Poll
<1> DEFINE copies == [i \in DOMAIN due |-> CopyOf(due[i])]
<1>2. copies \in Seq(Copy) /\ Len(copies) = Len(due) /\ Len(due) \in Nat
  BY CopiesOfDue, DueRows
<1> HIDE DEF copies
<1>3. queue[e] \in Seq(Copy) /\ wg[e] \in Int /\ Len(queue[e]) \in Nat
  BY DEF TypeOK
<1>4. Len(queue'[e]) = IF e = f THEN Len(queue[e]) + Len(due) ELSE Len(queue[e])
  <2>1. queue'[e] = IF e = f THEN queue[e] \o copies ELSE queue[e]
    BY <1>1 DEF TypeOK, copies
  <2>2. Len(queue[e] \o copies) = Len(queue[e]) + Len(copies)
    BY <1>2, <1>3
  <2> QED
    BY <1>2, <2>1, <2>2
<1>5. wg'[e] = IF e = f THEN wg[e] + Len(due) ELSE wg[e]
  BY <1>1, <1>3 DEF TypeOK
<1>6. Running(e)' = Running(e)
  BY RunningSame DEF Poll
<1>7. wg[e] = Len(queue[e]) + Cardinality(Running(e))
  BY DEF WaitGroupCounts
<1>8. Cardinality(Running(e)) \in Nat
  BY RunningFinite
<1>9. CASE e = f
  <2> DEFINE length == Len(queue[e])
             running == Cardinality(Running(e))
             added == Len(due)
  <2>1. Cardinality(Running(e)') = running
    BY <1>6
  <2>2. wg'[e] = length + running + added
    BY <1>5, <1>7, <1>9
  <2>3. Len(queue'[e]) = length + added
    BY <1>4, <1>9
  <2>4. length \in Nat /\ running \in Nat /\ added \in Nat
    BY <1>2, <1>3, <1>8
  <2> HIDE DEF length, running, added
  <2> QED
    BY <2>1, <2>2, <2>3, <2>4
<1>10. CASE e # f
  BY <1>4, <1>5, <1>6, <1>7, <1>10
<1> QED
  BY <1>9, <1>10

LEMMA WaitGroupCrash ==
  ASSUME TypeOK, WaitGroupCounts, NEW f \in Engines, Crash(f)
  PROVE  WaitGroupCounts'
<1> SUFFICES ASSUME NEW e \in Engines
             PROVE  wg'[e] = Len(queue'[e]) + Cardinality(Running(e)')
  BY DEF WaitGroupCounts
<1>1. CASE e = f
  <2>1. wg'[e] = 0 /\ queue'[e] = <<>> /\ Running(e)' = {}
    BY <1>1 DEF Crash, Running, TypeOK
  <2> QED
    BY <2>1, FS_EmptySet
<1>2. CASE e # f
  <2>1. wg'[e] = wg[e] /\ queue'[e] = queue[e] /\ Running(e)' = Running(e)
    BY <1>2 DEF Crash, Running, TypeOK
  <2> QED
    BY <2>1 DEF WaitGroupCounts
<1> QED
  BY <1>1, <1>2

LEMMA WaitGroupNext ==
  ASSUME TypeOK, WaitGroupCounts, [Next]_vars
  PROVE  WaitGroupCounts'
<1>1. CASE ClientStep \/ PassTime \/ UNCHANGED vars
  BY <1>1, WaitGroupSame DEF ClientStep, Submit, RequestCancel, Wake, PassTime,
     memoryVars, vars
<1>2. ASSUME NEW e \in Engines, EngineStep(e) PROVE WaitGroupCounts'
  <2>1. CASE Crash(e) \/ Poll(e)
    BY <2>1, WaitGroupCrash, WaitGroupPoll
  <2> QED
    BY <1>2, <2>1, WaitGroupSame DEF EngineStep, Promote, Stop, DrainTimeout,
       StartReturns, Restart, memoryVars
<1>3. ASSUME NEW p \in Workers, WorkerStep(p) PROVE WaitGroupCounts'
  <2>1. CASE Acquire(p) \/ Release(p) \/ DropUnregistered(p) \/ DropHeld(p)
    BY <2>1, WaitGroupAcquire, WaitGroupRelease, WaitGroupDrop
  <2>2. ASSUME UNCHANGED <<queue, wg>>, pc[p] # "idle", pc'[p] # "idle",
               \A q \in Workers : q # p => pc'[q] = pc[q]
        PROVE  WaitGroupCounts'
    BY <2>2, WaitGroupSame
  <2>3. CASE Resolving(p) \/ StoreFails(p)
    BY <2>2, <2>3 DEF Resolving, StoreFails, TypeOK
  <2>4. CASE ObserveCancel(p) \/ BeginExecute(p) \/ Execute(p)
    BY <2>2, <2>4 DEF ObserveCancel, BeginExecute, Execute, Return, TypeOK
  <2> QED
    BY <1>3, <2>1, <2>3, <2>4
       DEF WorkerStep, RecordCancelled, RecordPermanent, RecordSuspend,
           RecordExhausted, RecordRetry, RecordCompleted, Conflict
<1> QED
  BY <1>1, <1>2, <1>3 DEF Next

(* Engine.wg counts the tasks queued and running, so that Start returns    *)
(* neither before they are done nor waits for a task that does not exist.  *)
THEOREM WaitGroupCorrect == Spec => []WaitGroupCounts
<1>1. Init => WaitGroupCounts
  <2> SUFFICES ASSUME Init, NEW e \in Engines
               PROVE  wg[e] = Len(queue[e]) + Cardinality(Running(e))
    BY DEF WaitGroupCounts
  <2>1. wg[e] = 0 /\ queue[e] = <<>> /\ Running(e) = {}
    BY DEF Init, Running
  <2> QED
    BY <2>1, FS_EmptySet
<1>2. TypeOK /\ WaitGroupCounts /\ [Next]_vars => WaitGroupCounts'
  BY WaitGroupNext
<1> QED
  BY <1>1, <1>2, TypeCorrect, PTL DEF Spec
-----------------------------------------------------------------------------
(* The steps of Handles are steps of Dispatch                              *)

LEMMA HandlesStep == [HandlesNext]_allVars => [Next]_vars
BY DEF HandlesNext, allVars, Ask, CountedAcquire, CountedReturn,
   CountedFailure, CountedCrash, Next, WorkerStep, EngineStep

(* What is shown of the engines holds beside an application that asks      *)
(* handles about them.                                                     *)
THEOREM HandlesImplementDispatch == HandlesSpec => Spec
<1>1. HandlesInit => Init
  BY DEF HandlesInit
<1> QED
  BY <1>1, HandlesStep, PTL DEF HandlesSpec, Spec

-----------------------------------------------------------------------------
(* The gauge                                                               *)

Counted(pcs, p) == pcs[p] \in {"signal", "execute"}

Executing(e) == {p \in Running(e) : pc[p] \in {"signal", "execute"}}

ActiveInv == active \in [Engines -> Int] /\ ActiveCounts

LEMMA ExecutingFinite ==
  ASSUME NEW e \in Engines
  PROVE  IsFiniteSet(Executing(e)) /\ Cardinality(Executing(e)) \in Nat
<1>1. Executing(e) \in SUBSET Workers
  BY DEF Running, Executing
<1> QED
  BY <1>1, WorkersAssumption, FS_Subset, FS_CardinalityType

LEMMA ActiveSame ==
  ASSUME ActiveInv, UNCHANGED active,
         \A p \in Workers : Counted(pc', p) <=> Counted(pc, p)
  PROVE  ActiveInv'
<1>1. \A e \in Engines : Executing(e)' = Executing(e)
  BY DEF Executing, Running, Counted
<1>2. \A e \in Engines : active'[e] = Cardinality(Executing(e)')
  BY <1>1 DEF ActiveInv, ActiveCounts, Executing
<1> QED
  BY <1>2 DEF ActiveInv, ActiveCounts, Executing

(* The gauge goes up with a worker that starts to execute, and down with   *)
(* one that is done.                                                       *)
LEMMA ActiveMore ==
  ASSUME ActiveInv, NEW p \in Workers, Adjust(p, 1),
         ~Counted(pc, p), Counted(pc', p),
         \A q \in Workers : q # p => pc'[q] = pc[q]
  PROVE  ActiveInv'
<1>1. active' \in [Engines -> Int]
  BY EnginesAssumption DEF ActiveInv, Adjust
<1> SUFFICES ASSUME NEW e \in Engines
             PROVE  active'[e] = Cardinality(Executing(e)')
  BY <1>1 DEF ActiveInv, ActiveCounts, Executing
<1>2. active[e] = Cardinality(Executing(e)) /\ active[e] \in Int
  BY DEF ActiveInv, ActiveCounts, Executing
<1>3. CASE EngineOf[p] = e
  <2>1. Executing(e)' = Executing(e) \cup {p} /\ p \notin Executing(e)
    BY <1>3 DEF Executing, Running, Counted
  <2>2. Cardinality(Executing(e)') = Cardinality(Executing(e)) + 1
    BY <2>1, ExecutingFinite, FS_AddElement
  <2>3. active'[e] = active[e] + 1
    BY <1>3 DEF Adjust, ActiveInv
  <2> QED
    BY <1>2, <2>2, <2>3
<1>4. CASE EngineOf[p] # e
  <2>1. Executing(e)' = Executing(e) /\ active'[e] = active[e]
    BY <1>4 DEF Executing, Running, Counted, Adjust, ActiveInv
  <2> QED
    BY <1>2, <2>1
<1> QED
  BY <1>3, <1>4

LEMMA ActiveLess ==
  ASSUME ActiveInv, NEW p \in Workers, Adjust(p, -1),
         Counted(pc, p), ~Counted(pc', p),
         \A q \in Workers : q # p => pc'[q] = pc[q]
  PROVE  ActiveInv'
<1>1. active' \in [Engines -> Int]
  BY EnginesAssumption DEF ActiveInv, Adjust
<1> SUFFICES ASSUME NEW e \in Engines
             PROVE  active'[e] = Cardinality(Executing(e)')
  BY <1>1 DEF ActiveInv, ActiveCounts, Executing
<1>2. active[e] = Cardinality(Executing(e)) /\ active[e] \in Int
  BY DEF ActiveInv, ActiveCounts, Executing
<1>3. CASE EngineOf[p] = e
  <2>1. Executing(e)' = Executing(e) \ {p} /\ p \in Executing(e)
    BY <1>3 DEF Executing, Running, Counted
  <2>2. Cardinality(Executing(e)') = Cardinality(Executing(e)) - 1
    BY <2>1, ExecutingFinite, FS_RemoveElement
  <2>3. active'[e] = active[e] - 1
    BY <1>3 DEF Adjust, ActiveInv
  <2> QED
    BY <1>2, <2>2, <2>3
<1>4. CASE EngineOf[p] # e
  <2>1. Executing(e)' = Executing(e) /\ active'[e] = active[e]
    BY <1>4 DEF Executing, Running, Counted, Adjust, ActiveInv
  <2> QED
    BY <1>2, <2>1
<1> QED
  BY <1>3, <1>4

LEMMA ActiveFailure ==
  ASSUME TypeOK, ActiveInv, NEW p \in Workers, CountedFailure(p)
  PROVE  ActiveInv'
<1>1. /\ pc[p] \in {"signal", "resolve"} /\ pc'[p] = "release"
      /\ \A q \in Workers : q # p => pc'[q] = pc[q]
  BY DEF CountedFailure, StoreFails, TypeOK
<1>2. CASE pc[p] = "signal"
  <2>1. Adjust(p, -1)
    BY <1>2 DEF CountedFailure
  <2> QED
    BY <1>1, <1>2, <2>1, ActiveLess DEF Counted
<1>3. CASE pc[p] # "signal"
  <2>1. Adjust(p, 0)
    BY <1>3 DEF CountedFailure
  <2>2. UNCHANGED active
    BY <2>1, EnginesAssumption DEF Adjust, ActiveInv
  <2> QED
    BY <1>1, <1>3, <2>2, ActiveSame DEF Counted
<1> QED
  BY <1>2, <1>3

LEMMA ActiveCrash ==
  ASSUME TypeOK, ActiveInv, NEW f \in Engines, CountedCrash(f)
  PROVE  ActiveInv'
<1>1. active' \in [Engines -> Int]
  BY DEF CountedCrash, ActiveInv
<1> SUFFICES ASSUME NEW e \in Engines
             PROVE  active'[e] = Cardinality(Executing(e)')
  BY <1>1 DEF ActiveInv, ActiveCounts, Executing
<1>2. CASE e = f
  <2>1. active'[e] = 0 /\ Executing(e)' = {}
    BY <1>2 DEF CountedCrash, Crash, ActiveInv, Executing, Running
  <2> QED
    BY <2>1, FS_EmptySet
<1>3. CASE e # f
  <2>1. active'[e] = active[e] /\ Executing(e)' = Executing(e)
    BY <1>3 DEF CountedCrash, Crash, ActiveInv, Executing, Running
  <2> QED
    BY <2>1 DEF ActiveInv, ActiveCounts, Executing
<1> QED
  BY <1>2, <1>3

(* The steps that leave the gauge alone.                                   *)
LEMMA ActiveWorkerSame ==
  ASSUME TypeOK, ActiveInv, NEW p \in Workers, UNCHANGED handleVars,
         \/ DropUnregistered(p) \/ DropHeld(p) \/ BeginExecute(p)
         \/ RecordCancelled(p) \/ RecordPermanent(p) \/ RecordSuspend(p)
         \/ RecordExhausted(p) \/ RecordRetry(p) \/ RecordCompleted(p)
         \/ Conflict(p) \/ Release(p)
  PROVE  ActiveInv'
<1>1. UNCHANGED active
  BY DEF handleVars
<1>2. ASSUME Counted(pc', p) <=> Counted(pc, p),
             \A q \in Workers : q # p => pc'[q] = pc[q]
      PROVE  ActiveInv'
  BY <1>1, <1>2, ActiveSame DEF Counted
<1>3. CASE DropUnregistered(p) \/ DropHeld(p)
  BY <1>2, <1>3 DEF DropUnregistered, DropHeld
<1>4. CASE BeginExecute(p) \/ Release(p)
  BY <1>2, <1>4 DEF BeginExecute, Release, Counted, TypeOK
<1>5. CASE Resolving(p)
  BY <1>2, <1>5 DEF Resolving, Counted, TypeOK
<1> QED
  BY <1>3, <1>4, <1>5 DEF RecordCancelled, RecordPermanent, RecordSuspend,
     RecordExhausted, RecordRetry, RecordCompleted, Conflict

LEMMA ActiveNext ==
  ASSUME TypeOK, ActiveInv, [HandlesNext]_allVars
  PROVE  ActiveInv'
<1>1. ASSUME UNCHANGED <<pc, active>> PROVE ActiveInv'
  BY <1>1, ActiveSame
<1>2. CASE UNCHANGED allVars \/ \E e \in Engines, w \in Workflows : Ask(e, w)
  BY <1>1, <1>2 DEF allVars, handleVars, vars, memoryVars, Ask
<1>3. CASE (ClientStep \/ PassTime) /\ UNCHANGED handleVars
  BY <1>1, <1>3 DEF ClientStep, Submit, RequestCancel, Wake, PassTime,
     memoryVars, handleVars
<1>4. ASSUME NEW e \in Engines, UNCHANGED handleVars,
             \/ Promote(e) \/ Poll(e)
             \/ Stop(e) \/ DrainTimeout(e) \/ StartReturns(e) \/ Restart(e)
      PROVE  ActiveInv'
  BY <1>1, <1>4 DEF Promote, Poll, Stop, DrainTimeout, StartReturns, Restart,
     memoryVars, handleVars
<1>5. ASSUME NEW p \in Workers, CountedAcquire(p) PROVE ActiveInv'
  <2>1. /\ Adjust(p, 1) /\ pc[p] = "idle" /\ pc'[p] = "signal"
        /\ \A q \in Workers : q # p => pc'[q] = pc[q]
    BY <1>5 DEF CountedAcquire, Acquire, Take, TypeOK
  <2> QED
    BY <2>1, ActiveMore DEF Counted
<1>6. ASSUME NEW p \in Workers, CountedReturn(p) PROVE ActiveInv'
  <2>1. /\ Adjust(p, -1) /\ pc[p] \in {"signal", "execute"} /\ pc'[p] = "resolve"
        /\ \A q \in Workers : q # p => pc'[q] = pc[q]
    BY <1>6 DEF CountedReturn, ObserveCancel, Execute, Return, TypeOK
  <2> QED
    BY <2>1, ActiveLess DEF Counted
<1> QED
  BY <1>2, <1>3, <1>4, <1>5, <1>6, ActiveFailure, ActiveCrash, ActiveWorkerSame
     DEF HandlesNext

LEMMA ActiveInvCorrect == HandlesSpec => []ActiveInv
<1>1. HandlesInit => ActiveInv
  <2> SUFFICES ASSUME HandlesInit, NEW e \in Engines
               PROVE  active[e] = Cardinality(Executing(e))
    BY DEF HandlesInit, ActiveInv, ActiveCounts, Executing
  <2>1. active[e] = 0 /\ Executing(e) = {}
    BY DEF HandlesInit, Init, Executing, Running
  <2> QED
    BY <2>1, FS_EmptySet
<1>2. TypeOK /\ ActiveInv /\ [HandlesNext]_allVars => ActiveInv'
  BY ActiveNext
<1> QED
  BY <1>1, <1>2, HandlesImplementDispatch, TypeCorrect, PTL DEF HandlesSpec

(* The gauge of executing workflows counts the workers that execute one,   *)
(* whichever way out of Run each execution took.                           *)
THEOREM ActiveCorrect == HandlesSpec => []ActiveCounts
<1>1. ActiveInv => ActiveCounts
  BY DEF ActiveInv
<1> QED
  BY <1>1, ActiveInvCorrect, PTL

-----------------------------------------------------------------------------
(* The answers                                                             *)

(* What was told is what the table still says: the terminal status the     *)
(* thread was told of a workflow is the one of its row.                    *)
AnswersInv ==
  /\ told \in [Workflows -> {"open"} \cup Terminal]
  /\ \A w \in Workflows : told[w] \in Terminal => wf[w].status = told[w]

LEMMA TerminalKept ==
  ASSUME TypeOK, CopiesCurrent, [Next]_vars, NEW w \in Workflows,
         wf[w].status \in Terminal
  PROVE  wf'[w].status = wf[w].status
<1>1. RowStep(w) /\ wf[w] \in Row
  BY RowSteps, RowTypes
<1> QED
  BY <1>1 DEF RowStep, RowRecorded, Terminal, Row

LEMMA AnswersStep ==
  ASSUME TypeOK, CopiesCurrent, AnswersInv, [HandlesNext]_allVars
  PROVE  /\ AnswersInv'
         /\ \A w \in Workflows : told[w] \in Terminal => told'[w] = told[w]
<1>1. CASE UNCHANGED told
  <2>1. \A w \in Workflows : wf[w].status \in Terminal => wf'[w].status = wf[w].status
    BY HandlesStep, TerminalKept
  <2> QED
    BY <1>1, <2>1 DEF AnswersInv
<1>2. ASSUME NEW e \in Engines, NEW w \in Workflows, Ask(e, w)
      PROVE  /\ AnswersInv'
             /\ \A v \in Workflows : told[v] \in Terminal => told'[v] = told[v]
  <2>1. UNCHANGED wf
    BY <1>2 DEF Ask, vars
  <2>2. AnswerOf(wf[w].status) \in {"open"} \cup Terminal
    BY DEF AnswerOf
  <2>3. AnswerOf(wf[w].status) \in Terminal => AnswerOf(wf[w].status) = wf[w].status
    BY DEF AnswerOf, Terminal
  <2>4. told[w] \in Terminal => AnswerOf(wf[w].status) = told[w]
    BY DEF AnswersInv, AnswerOf
  <2> QED
    BY <1>2, <2>1, <2>2, <2>3, <2>4 DEF Ask, AnswersInv
<1>3. UNCHANGED told \/ \E e \in Engines, w \in Workflows : Ask(e, w)
  BY DEF HandlesNext, CountedAcquire, CountedReturn, CountedFailure, CountedCrash,
     Adjust, handleVars, allVars
<1> QED
  BY <1>1, <1>2, <1>3

LEMMA AnswersCorrect == HandlesSpec => []AnswersInv
<1>1. HandlesInit => AnswersInv
  BY DEF HandlesInit, AnswersInv, Terminal
<1>2. TypeOK /\ CopiesCurrent /\ AnswersInv /\ [HandlesNext]_allVars => AnswersInv'
  BY AnswersStep
<1> QED
  BY <1>1, <1>2, HandlesImplementDispatch, TypeCorrect, CopiesCorrect, PTL
     DEF HandlesSpec

(* Whatever an application was told of a workflow that had ended, no       *)
(* handle of any engine takes it back.                                     *)
THEOREM AnswersStand == HandlesSpec => TerminalAnswerStands
<1>1. TypeOK /\ CopiesCurrent /\ AnswersInv /\ [HandlesNext]_allVars =>
        [\A w \in Workflows : told[w] \in Terminal => told'[w] = told[w]]_allVars
  BY AnswersStep
<1> QED
  BY <1>1, AnswersCorrect, HandlesImplementDispatch, TypeCorrect, CopiesCorrect, PTL
     DEF HandlesSpec, TerminalAnswerStands

(* The handles and the gauge have their types beside the engines; in       *)
(* particular the gauge is never negative.                                 *)
THEOREM HandlesTypeCorrect == HandlesSpec => []HandlesTypeOK
<1>1. ActiveInv => active \in [Engines -> Nat]
  BY ExecutingFinite DEF ActiveInv, ActiveCounts, Executing
<1>2. TypeOK /\ AnswersInv /\ ActiveInv => HandlesTypeOK
  BY <1>1 DEF HandlesTypeOK, AnswersInv
<1> QED
  BY <1>2, ActiveInvCorrect, AnswersCorrect, HandlesImplementDispatch,
     TypeCorrect, PTL
=============================================================================
