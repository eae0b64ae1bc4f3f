------------------------------ MODULE Dispatch ------------------------------
(***************************************************************************)
(* Engines of flicker over one store: scheduler.go, engine.go, pool.go,    *)
(* lease.go and runner.go.  Each engine is a process of its own: it polls  *)
(* the store for schedulable rows, queues a copy of each row on its worker *)
(* pool, and a worker executes the copy under an in-memory lease and       *)
(* writes the outcome back guarded by the occ_version it read.             *)
(*                                                                         *)
(* What a workflow does is abstracted to its outcome; module Steps gives   *)
(* the steps.  wc, telemetry, logging and results are left out.            *)
(***************************************************************************)
EXTENDS Store, Functions

CONSTANTS
  Engines,      \* engine processes sharing the store
  Workers,      \* the workers of all pools
  EngineOf,     \* the engine each worker belongs to
  Registry,     \* per engine, the workflows whose type it has registered
  Limit,        \* rows per poll (Engine.workers)
  MaxAttempts,  \* RetryPolicy
  BaseDelay,
  MaxDelay,
  DurationBits, \* width of time.Duration: 64
  ResumeTimes,  \* what a SuspendError may hold; NoTime is the zero time
  SuspendBound, \* bound: a workflow suspends only below this occ_version
                \* (0: no bound)
  MaxQueue,     \* bound: tasks in the queue of one pool
  MaxFaults     \* bound: crashes, shutdowns and failing store calls

ASSUME WorkflowsAssumption == "none" \notin Workflows
ASSUME EnginesAssumption == EngineOf \in [Workers -> Engines]
ASSUME WorkersAssumption == IsFiniteSet(Workers)
ASSUME RegistryAssumption == Registry \in [Engines -> SUBSET Workflows]
ASSUME BoundsAssumption ==
  /\ MaxAttempts \in Nat /\ BaseDelay \in Nat /\ MaxDelay \in Nat
  /\ ResumeTimes \subseteq 0..Horizon
  /\ Limit \in Nat /\ MaxQueue \in Nat /\ MaxFaults \in Nat
  /\ SuspendBound \in Nat /\ DurationBits \in Nat \ {0}

VARIABLES
  phase,    \* where each engine is in Engine.Start
  queue,    \* the tasks waiting in each engine's pool, oldest first
  wg,       \* Engine.wg: tasks submitted and not done
  leases,   \* memoryLeaseStore of each engine
  pc,       \* how far each worker is in LocalRunner.Run
  task,     \* the record that Run was called with
  outcome,  \* what executing the workflow returned
  faults    \* crashes, shutdowns and store errors so far

memoryVars == <<phase, queue, wg, leases, pc, task, outcome>>
vars == <<wf, now, memoryVars, faults>>

Phase == {"up", "draining", "cancelled", "down"}
Pc    == {"idle", "signal", "execute", "resolve", "release"}

Copy == [id : Workflows, occ : Nat, attempts : Nat]
NoTask == [id |-> "none", occ |-> 0, attempts |-> 0]

Outcome == [kind : {"none", "completed", "cancelled", "permanent",
                    "suspend", "transient"},
            resumeAt : 0..Horizon]
OutcomeOf(kind) == [kind |-> kind, resumeAt |-> NoTime]
NoOutcome == OutcomeOf("none")

Init ==
  /\ StoreInit
  /\ phase = [e \in Engines |-> "up"]
  /\ queue = [e \in Engines |-> <<>>]
  /\ wg = [e \in Engines |-> 0]
  /\ leases = [e \in Engines |-> {}]
  /\ pc = [p \in Workers |-> "idle"]
  /\ task = [p \in Workers |-> NoTask]
  /\ outcome = [p \in Workers |-> NoOutcome]
  /\ faults = 0

-----------------------------------------------------------------------------
(* Clients and the clock                                                   *)

Submit(w) == Create(w) /\ UNCHANGED <<now, memoryVars, faults>>

(* Nobody in the repository sets another signal.                           *)
RequestCancel(w) ==
  /\ SetSignal(w, "cancel_requested")
  /\ UNCHANGED <<now, memoryVars, faults>>

(* SendEvent, or a subscription timeout cycle, promotes its workflows.     *)
Wake(S) ==
  /\ \E w \in S : wf[w].status = "suspended"
  /\ PromoteSubscribers(S)
  /\ UNCHANGED <<now, memoryVars, faults>>

PassTime == Tick /\ UNCHANGED <<memoryVars, faults>>

-----------------------------------------------------------------------------
(* The promoter and the scheduler of an engine                             *)

Promote(e) ==
  /\ phase[e] = "up"
  /\ PromoteSuspended
  /\ UNCHANGED <<now, memoryVars, faults>>

CopyOf(w) == [id |-> w, occ |-> wf[w].occ, attempts |-> wf[w].attempts]

(* One poll and the dispatch of all it returned: rows whose workflow is    *)
(* queued or running already are returned again.                           *)
Poll(e) ==
  /\ phase[e] = "up"
  /\ \E due \in ListSchedulable(Limit) :
       /\ due # <<>>
       /\ Len(queue[e]) + Len(due) <= MaxQueue
       /\ queue' = [queue EXCEPT ![e] =
                      @ \o [i \in DOMAIN due |-> CopyOf(due[i])]]
       /\ wg' = [wg EXCEPT ![e] = @ + Len(due)]
  /\ UNCHANGED <<wf, now, phase, leases, pc, task, outcome, faults>>

-----------------------------------------------------------------------------
(* LocalRunner.Run                                                         *)

(* The pool hands the oldest task to an idle worker.                       *)
NextTask(p) == Head(queue[EngineOf[p]])

Take(p) ==
  /\ pc[p] = "idle"
  /\ queue[EngineOf[p]] # <<>>
  /\ queue' = [queue EXCEPT ![EngineOf[p]] = Tail(@)]

(* Mutants of TaskDone: no call at all; not deferred, so that a run that   *)
(* fails skips it.                                                         *)
TaskNotDone(p) == UNCHANGED wg

TaskDoneOnSuccess(p) ==
  wg' = [wg EXCEPT ![EngineOf[p]] =
           IF pc[p] = "release" /\ outcome[p] = NoOutcome THEN @ ELSE @ - 1]

(* The deferred wg.Done of the dispatched closure.                         *)
TaskDone(p) == wg' = [wg EXCEPT ![EngineOf[p]] = @ - 1]

DropUnregistered(p) ==
  /\ Take(p)
  /\ NextTask(p).id \notin Registry[EngineOf[p]]
  /\ TaskDone(p)
  /\ UNCHANGED <<wf, now, phase, leases, pc, task, outcome, faults>>

(* Mutant of DropHeld: Release is deferred before acquired is looked at.   *)
DropHeldReleasing(p) ==
  /\ Take(p)
  /\ NextTask(p).id \in leases[EngineOf[p]]
  /\ leases' = [leases EXCEPT ![EngineOf[p]] = @ \ {NextTask(p).id}]
  /\ TaskDone(p)
  /\ UNCHANGED <<wf, now, phase, pc, task, outcome, faults>>

DropHeld(p) ==
  /\ Take(p)
  /\ NextTask(p).id \in Registry[EngineOf[p]]
  /\ NextTask(p).id \in leases[EngineOf[p]]
  /\ TaskDone(p)
  /\ UNCHANGED <<wf, now, phase, leases, pc, task, outcome, faults>>

(* Mutant of Acquire: the answer of LeaseStore.Acquire is not looked at.   *)
AcquireUnchecked(p) ==
  /\ Take(p)
  /\ NextTask(p).id \in Registry[EngineOf[p]]
  /\ leases' = [leases EXCEPT ![EngineOf[p]] = @ \cup {NextTask(p).id}]
  /\ task' = [task EXCEPT ![p] = NextTask(p)]
  /\ pc' = [pc EXCEPT ![p] = "signal"]
  /\ UNCHANGED <<wf, now, phase, wg, outcome, faults>>

Acquire(p) ==
  /\ Take(p)
  /\ NextTask(p).id \in Registry[EngineOf[p]]
  /\ NextTask(p).id \notin leases[EngineOf[p]]
  /\ leases' = [leases EXCEPT ![EngineOf[p]] = @ \cup {NextTask(p).id}]
  /\ task' = [task EXCEPT ![p] = NextTask(p)]
  /\ pc' = [pc EXCEPT ![p] = "signal"]
  /\ UNCHANGED <<wf, now, phase, wg, outcome, faults>>

(* After the drain timeout every store call of the engine's workers fails. *)
StoreReachable(p) == phase[EngineOf[p]] # "cancelled"

Return(p, o) ==
  /\ outcome' = [outcome EXCEPT ![p] = o]
  /\ pc' = [pc EXCEPT ![p] = "resolve"]
  /\ UNCHANGED <<wf, now, phase, queue, wg, leases, task, faults>>

(* Mutant of ObserveCancel: the signal that was read is not looked at.     *)
ObserveCancelUnasked(p) ==
  /\ pc[p] = "signal"
  /\ StoreReachable(p)
  /\ Return(p, OutcomeOf("cancelled"))

ObserveCancel(p) ==
  /\ pc[p] = "signal"
  /\ StoreReachable(p)
  /\ wf[task[p].id].signal = "cancel_requested"
  /\ Return(p, OutcomeOf("cancelled"))

BeginExecute(p) ==
  /\ pc[p] = "signal"
  /\ StoreReachable(p)
  /\ wf[task[p].id].signal # "cancel_requested"
  /\ pc' = [pc EXCEPT ![p] = "execute"]
  /\ UNCHANGED <<wf, now, phase, queue, wg, leases, task, outcome, faults>>

(* executeWorkflow under panicToError: a workflow may return what it likes, *)
(* ErrCancelled included; a panic is transient.                            *)
Execute(p) ==
  /\ pc[p] = "execute"
  /\ \/ \E kind \in {"completed", "cancelled", "permanent", "transient"} :
          Return(p, OutcomeOf(kind))
     \/ /\ SuspendBound = 0 \/ task[p].occ < SuspendBound
        /\ \E t \in ResumeTimes :
             Return(p, [kind |-> "suspend", resumeAt |-> t])

(* resolveOutcome: one guarded statement, then the deferred Release.       *)
Resolving(p) ==
  /\ pc[p] = "resolve"
  /\ StoreReachable(p)
  /\ pc' = [pc EXCEPT ![p] = "release"]
  /\ UNCHANGED <<now, phase, queue, wg, leases, task, outcome, faults>>

(* A duration is a signed integer: the shift drops the bits that do not    *)
(* fit, and what is left may be negative.                                  *)
Duration(n) ==
  LET bits == n % 2^DurationBits
  IN  IF 2 * bits < 2^DurationBits THEN bits ELSE bits - 2^DurationBits

Delay(attempts) ==
  LET delay == Duration(BaseDelay * 2^attempts)
  IN  IF delay > MaxDelay THEN MaxDelay ELSE delay

(* Mutant of Exhausted: one attempt too many.                              *)
ExhaustedLate(p) == task[p].attempts + 1 > MaxAttempts

Exhausted(p) == task[p].attempts + 1 >= MaxAttempts

RecordCancelled(p) ==
  /\ Resolving(p)
  /\ outcome[p].kind = "cancelled"
  /\ UpdateStatus(task[p].id, "cancelled", task[p].occ)

RecordPermanent(p) ==
  /\ Resolving(p)
  /\ outcome[p].kind = "permanent"
  /\ SetError(task[p].id, "failed", task[p].occ)

RecordSuspend(p) ==
  /\ Resolving(p)
  /\ outcome[p].kind = "suspend"
  /\ Suspend(task[p].id, outcome[p].resumeAt, task[p].occ)

RecordExhausted(p) ==
  /\ Resolving(p)
  /\ outcome[p].kind = "transient"
  /\ Exhausted(p)
  /\ SetError(task[p].id, "failed", task[p].occ)

RecordRetry(p) ==
  /\ Resolving(p)
  /\ outcome[p].kind = "transient"
  /\ ~Exhausted(p)
  /\ SetRetry(task[p].id, now + Delay(task[p].attempts), task[p].occ)

RecordCompleted(p) ==
  /\ Resolving(p)
  /\ outcome[p].kind = "completed"
  /\ UpdateStatus(task[p].id, "completed", task[p].occ)

(* The row moved on since the poll: the outcome is dropped.                *)
Conflict(p) ==
  /\ Resolving(p)
  /\ OCCConflict(task[p].id, task[p].occ)

(* Reading the steps or the signal, or writing the outcome, fails.         *)
StoreFails(p) ==
  /\ pc[p] \in {"signal", "resolve"}
  /\ \/ ~StoreReachable(p) /\ UNCHANGED faults
     \/ faults < MaxFaults /\ faults' = faults + 1
  /\ pc' = [pc EXCEPT ![p] = "release"]
  /\ UNCHANGED <<wf, now, phase, queue, wg, leases, task, outcome>>

(* Mutants of Release: the lease is kept; the worker keeps its task.       *)
ReleaseKeepingLease(p) ==
  /\ pc[p] = "release"
  /\ TaskDone(p)
  /\ pc' = [pc EXCEPT ![p] = "idle"]
  /\ task' = [task EXCEPT ![p] = NoTask]
  /\ outcome' = [outcome EXCEPT ![p] = NoOutcome]
  /\ UNCHANGED <<wf, now, phase, queue, leases, faults>>

ReleaseKeepingTask(p) ==
  /\ pc[p] = "release"
  /\ leases' = [leases EXCEPT ![EngineOf[p]] = @ \ {task[p].id}]
  /\ TaskDone(p)
  /\ pc' = [pc EXCEPT ![p] = "idle"]
  /\ outcome' = [outcome EXCEPT ![p] = NoOutcome]
  /\ UNCHANGED <<wf, now, phase, queue, task, faults>>

Release(p) ==
  /\ pc[p] = "release"
  /\ leases' = [leases EXCEPT ![EngineOf[p]] = @ \ {task[p].id}]
  /\ TaskDone(p)
  /\ pc' = [pc EXCEPT ![p] = "idle"]
  /\ task' = [task EXCEPT ![p] = NoTask]
  /\ outcome' = [outcome EXCEPT ![p] = NoOutcome]
  /\ UNCHANGED <<wf, now, phase, queue, faults>>

-----------------------------------------------------------------------------
(* The life of an engine process                                           *)

Enter(e, from, to) ==
  /\ phase[e] \in from
  /\ phase' = [phase EXCEPT ![e] = to]

(* The ctx of Start is cancelled: no poll, no promotion any more.          *)
Stop(e) ==
  /\ Enter(e, {"up"}, "draining")
  /\ faults < MaxFaults
  /\ faults' = faults + 1
  /\ UNCHANGED <<wf, now, queue, wg, leases, pc, task, outcome>>

DrainTimeout(e) ==
  /\ Enter(e, {"draining"}, "cancelled")
  /\ UNCHANGED <<wf, now, queue, wg, leases, pc, task, outcome, faults>>

(* wg.Wait is over and Start returns.                                      *)
StartReturns(e) ==
  /\ wg[e] = 0
  /\ Enter(e, {"draining", "cancelled"}, "down")
  /\ UNCHANGED <<wf, now, queue, wg, leases, pc, task, outcome, faults>>

(* The process dies: everything but the store is gone.                     *)
Crash(e) ==
  /\ Enter(e, Phase \ {"down"}, "down")
  /\ faults < MaxFaults
  /\ faults' = faults + 1
  /\ queue' = [queue EXCEPT ![e] = <<>>]
  /\ wg' = [wg EXCEPT ![e] = 0]
  /\ leases' = [leases EXCEPT ![e] = {}]
  /\ pc' = [p \in Workers |-> IF EngineOf[p] = e THEN "idle" ELSE pc[p]]
  /\ task' = [p \in Workers |-> IF EngineOf[p] = e THEN NoTask ELSE task[p]]
  /\ outcome' = [p \in Workers |->
                   IF EngineOf[p] = e THEN NoOutcome ELSE outcome[p]]
  /\ UNCHANGED <<wf, now>>

Restart(e) ==
  /\ Enter(e, {"down"}, "up")
  /\ UNCHANGED <<wf, now, queue, wg, leases, pc, task, outcome, faults>>

-----------------------------------------------------------------------------
ClientStep ==
  \/ \E w \in Workflows : Submit(w) \/ RequestCancel(w)
  \/ \E S \in SUBSET Workflows : Wake(S)

WorkerStep(p) ==
  \/ DropUnregistered(p) \/ DropHeld(p) \/ Acquire(p)
  \/ ObserveCancel(p) \/ BeginExecute(p) \/ Execute(p)
  \/ RecordCancelled(p) \/ RecordPermanent(p) \/ RecordSuspend(p)
  \/ RecordExhausted(p) \/ RecordRetry(p) \/ RecordCompleted(p)
  \/ Conflict(p) \/ StoreFails(p) \/ Release(p)

EngineStep(e) ==
  \/ Promote(e) \/ Poll(e)
  \/ Stop(e) \/ DrainTimeout(e) \/ StartReturns(e) \/ Crash(e) \/ Restart(e)

Next ==
  \/ ClientStep
  \/ PassTime
  \/ \E e \in Engines : EngineStep(e)
  \/ \E p \in Workers : WorkerStep(p)

Spec == Init /\ [][Next]_vars

(* The tickers of the scheduler and the promoter fire, every workflow      *)
(* returns, the clock goes on, and a stopped process is started again.     *)
Fairness ==
  /\ WF_vars(PassTime)
  /\ \A e \in Engines : /\ WF_vars(Promote(e))
                        /\ WF_vars(Poll(e))
                        /\ WF_vars(StartReturns(e))
                        /\ WF_vars(Restart(e))
  /\ \A p \in Workers : WF_vars(WorkerStep(p))

FairSpec == Spec /\ Fairness
-----------------------------------------------------------------------------
(* Properties                                                              *)

Running(e) == {p \in Workers : EngineOf[p] = e /\ pc[p] # "idle"}

(* Copies of rows that were read and are not resolved yet.                 *)
Queued   == UNION {Range(queue[e]) : e \in Engines}
Busy     == {p \in Workers : pc[p] # "idle"}
InFlight == Queued \cup {task[p] : p \in Busy}

(* Every variable has its type, a missing row is blank, and an idle worker *)
(* holds nothing.                                                          *)
TypeOK ==
  /\ wf \in [Workflows -> Row]
  /\ now \in 1..Horizon
  /\ phase \in [Engines -> Phase]
  /\ queue \in [Engines -> Seq(Copy)]
  /\ wg \in [Engines -> Int]
  /\ leases \in [Engines -> SUBSET Workflows]
  /\ pc \in [Workers -> Pc]
  /\ task \in [Workers -> Copy \cup {NoTask}]
  /\ outcome \in [Workers -> Outcome]
  /\ faults \in 0..MaxFaults
  /\ \A w \in Workflows : wf[w].status = "absent" => wf[w] = AbsentRow
  /\ \A p \in Workers :
       /\ task[p] = NoTask <=> pc[p] = "idle"
       /\ outcome[p].kind # "none" => pc[p] \in {"resolve", "release"}

DueWithinSecond(w) ==
  wf[w].status = "pending" /\ wf[w].retryAfter < now + Second

(* A copy whose occ_version is still the row's describes the row as it is: *)
(* the row is pending and has the attempts of the copy, and it is due, or  *)
(* less than a second early where texts are not ordered as times are.      *)
(* This is what lets resolveOutcome decide from the copy alone, however    *)
(* long the copy waited in the queue.                                      *)
CopiesCurrent ==
  \A c \in InFlight :
    /\ c.occ <= wf[c.id].occ
    /\ c.occ = wf[c.id].occ => /\ DueWithinSecond(c.id)
                               /\ c.attempts = wf[c.id].attempts

(* Leases are neither lost nor leaked, and no two workers of an engine     *)
(* execute the same workflow at the same time.                             *)
LeasesMatchWorkers ==
  \A e \in Engines :
    /\ leases[e] = {task[p].id : p \in Running(e)}
    /\ \A p, q \in Running(e) : task[p].id = task[q].id => p = q

(* Engine.wg counts the tasks queued and running: Start neither returns    *)
(* before they are done nor waits for a task that does not exist.          *)
WaitGroupCounts ==
  \A e \in Engines : wg[e] = Len(queue[e]) + Cardinality(Running(e))

(* A workflow is never retried beyond the MaxAttempts of its policy.       *)
AttemptsBounded ==
  \A w \in Workflows : wf[w].attempts = 0 \/ wf[w].attempts < MaxAttempts

(* A status resolveOutcome recorded as terminal is never left, and the row *)
(* is not written again, by whatever stale copies are still queued.        *)
TerminalIsFinal ==
  [][\A w \in Workflows :
       wf[w].status \in Terminal =>
         wf'[w] = [wf[w] EXCEPT !.signal = wf'[w].signal]]_vars

(* What a retry should wait: the first delay, doubled for every attempt    *)
(* before it, or the greatest delay where that is less.                    *)
Doubled(n) == BaseDelay * 2^n
Backoff(n) == IF Doubled(n) > MaxDelay THEN MaxDelay ELSE Doubled(n)

(* A retry waits the exponential backoff of the row's own number of        *)
(* attempts, although the delay is computed from a copy read before the    *)
(* workflow ran - as long as the doubled delay is a duration.              *)
BackoffOfRow ==
  [][\A w \in Workflows :
       wf'[w].attempts # wf[w].attempts =>
         /\ wf'[w].attempts = wf[w].attempts + 1
         /\ 2 * Doubled(wf[w].attempts) < 2^DurationBits =>
              wf'[w].retryAfter = At(now + Backoff(wf[w].attempts))]_vars

(* Cancellation was asked for, and no worker that could still record       *)
(* another outcome is past its signal check.                               *)
Doomed(w) ==
  /\ wf[w].signal = "cancel_requested"
  /\ wf[w].status \in {"pending", "suspended", "cancelled"}
  /\ \A p \in Workers :
       /\ pc[p] \in {"execute", "resolve"}
       /\ task[p].id = w
       /\ task[p].occ = wf[w].occ
       => pc[p] = "resolve" /\ outcome[p].kind = "cancelled"

(* Once that is so, the workflow can only end cancelled.                   *)
CancelIsIrrevocable ==
  [][\A w \in Workflows : Doomed(w) => Doomed(w)']_vars

(* Whatever the engines do is a behaviour of the abstract life cycle.      *)
L == INSTANCE Lifecycle WITH
       status   <- [w \in Workflows |-> wf[w].status],
       attempts <- [w \in Workflows |-> wf[w].attempts],
       signal   <- [w \in Workflows |-> wf[w].signal]

Implements == L!Spec

(* Every submitted workflow that some engine has registered reaches a      *)
(* terminal status, across crashes, shutdowns, conflicts and retries, as   *)
(* long as polls have room for every workflow that is due.                 *)
EventuallyTerminal ==
  \A w \in Workflows :
    wf[w].status # "absent" /\ (\E e \in Engines : w \in Registry[e])
      ~> wf[w].status \in Terminal

(* An engine that was told to stop returns from Start.                     *)
StopReturns ==
  \A e \in Engines : phase[e] = "draining" ~> phase[e] = "down"

-----------------------------------------------------------------------------
(* What the documentation says and the code does not do                    *)

(* errors.go: a permanent failure "will not be retried" - the workflow is  *)
(* not executed again once it is recorded.                                 *)
PermanentNotRetried ==
  [][\A p \in Workers : BeginExecute(p) => wf[task[p].id].status # "failed"]_vars

(* engine.go: the engine polls the store for pending workflows and         *)
(* executes them - a workflow it has registered does not stay pending.     *)
RegisteredProgress ==
  \A w \in Workflows :
    wf[w].status = "pending" /\ (\A e \in Engines : w \in Registry[e])
      ~> wf[w].status # "pending"
=============================================================================
