# A verification of flicker in TLA+

flicker is a Go library for durable workflows: a workflow is a row in a store,
an engine polls the store and executes the rows that are due on a pool of
workers, every step a workflow takes is recorded so that it can be replayed,
and failures are retried, suspended, cancelled or recorded.  Beside the engine
there is a static analyser that extracts a contract from every workflow of a
Go module.  This directory holds a model of both, what TLC checks of the model
on small instances, and what TLAPS proves of it for all of them.

    tlc -config Dispatch_fleet.cfg MCHandles      (any run of PROJECT.json)
    tlapm ReplayProofs.tla

## Inventory of the system

| Part | Source | State it keeps | Operations |
| --- | --- | --- | --- |
| Store | `sqlite/sqlite.go`, `store.go` | tables `workflows`, `step_results`, `subscriptions` | one SQL statement or transaction per method; outcomes are guarded by `occ_version` |
| Submission, handles | `registry.go` | none | `Submit` inserts a row; `Status` and `Result` read the row, then the lease |
| Scheduler | `scheduler.go` | none | every interval, or when nudged: `ListSchedulable(limit)`, then dispatch |
| Engine | `engine.go` | `wg`, nudge channel, drain context | `Start` (promoters, scheduler, drain), `SendEvent`, and the synchronous `RunOnce`, `Promote`, `TimeOutSubscriptions` |
| Pool | `pool.go` | queue of closures (pond) | `Submit`, `StopAndWait` |
| Leases | `lease.go` | set of workflow ids, in memory | `Acquire`, `Release`, `IsHeld` |
| Runner | `runner.go`, `panic.go` | the record of the poll, the step cache | `Run`, `resolveOutcome` |
| Time promoter | `promoter.go`, `trigger.go` | none | `PromoteSuspended`, then `TimeOutSubscriptions` |
| Durable steps | `run.go`, `context.go` | `seenSteps`, `stepCache`, counters | `Run`, `SleepUntil`, `WaitForEvent`, `Scope` |
| Providers | `provider.go`, `providers.go` | a counter each | `Get`, a `Run` under a generated name |
| Parallel | `parallel.go` | one goroutine and one child context per branch | `Parallel` |
| Telemetry | `otel.go`, `semconv/` | counters and gauges | spans and instruments around the above |
| Contract | `contract/` | the walkers of a body, the set that stops the walk of a type | `BuildContracts`: `detectDefines`, `resolveFactory`, `findExecuteMethod`, `walkExecuteBody`, `resolveTypeShape` |
| Examples | `examples/`, `workflows/`, `cmd/` | none | clients |

How they interact.  Clients write rows, signals and events into the store; the
promoter moves suspended rows back to pending; the scheduler reads *copies* of
pending rows and queues them; a worker executes a copy under a lease and
writes its outcome with the `occ_version` of the copy.  A row stays pending
while its workflow runs, so the next poll returns it again.  The lease is in
the memory of one process; between processes only `occ_version` protects the
row.  Events and timeouts write the result of a step and promote the workflow
in one transaction, but the subscription they need is saved in a different
statement from the one that suspends the row.  The branches of a `Parallel`
are goroutines that share the step cache and the set of names seen, each with
a scope of its own that prefixes its names.  The analyser shares no state with
the engine; it reads the syntax of the workflows the engine would execute.

What is hard, and what would make each part correct:

* *Stale copies* (scheduler, pool, runner).  A copy waits in a queue, runs and
  is resolved long after it was read.  Its outcome must not reach a row that
  moved on, and attempts and delay, computed from the copy, must be those of
  the row.
* *Leases and the wait group* (engine, leases).  No lease is lost or leaked by
  a worker that did not get it, no workflow runs twice at once in a process,
  and `Start` returns exactly when all its tasks are done.
* *Cancellation*.  A signal never conflicts; whether it wins is decided by
  when a runner reads it.
* *Answers* (handles).  The status an application is told is derived from two
  reads, with stale executions beside it; a terminal one must stand.
* *Crash, shutdown, store errors*.  The row, the steps and the subscriptions
  survive; leases, queue, executions and gauges do not.
* *Numbers*.  A delay is shifted in 64 bits and clamped; times are compared by
  SQL as texts that drop trailing zeros.
* *Durable steps*.  A recorded step is never executed again, and every replay
  sees what was recorded, in whatever order branches run.
* *Events against timeouts against execution*.  Three writers, none of which
  locks out the others; and several branches that wait for one each.
* *Extraction*.  Every recognised call exactly once and in the innermost branch
  that is written out around it, no error of a branch lost, no type taken for
  recursive that is not, and an end.

`PROJECT.json` lists every component with its status and every hazard at its
line.

## Modules

| Module | Models | Written for |
| --- | --- | --- |
| `Store` | the `workflows` table and the clock | TLC and TLAPS |
| `Lifecycle` | what flicker promises of one row: the abstract specification | both |
| `Dispatch` | engines, scheduler, pool, leases, runner, promoter over one store | both |
| `Handles` | `Dispatch` with an application that asks for statuses, and the gauge of executing workflows | both |
| `Steps` | `Run`, `SleepUntil`, `WaitForEvent`, `Get`, `Parallel`, events and timeouts, refining the execution in `Dispatch` | both |
| `TypeShape` | `resolveTypeShape` as the stack of its calls | both |
| `Contract` | `BuildContracts`, which uses `TypeShape` for the types of a workflow | both |
| `DispatchProofs`, `HandlesProofs`, `StepsProofs` | theorems about the module they are named for | TLAPS |
| `EffectProofs`, `ReplayProofs`, `SleepsProofs` | what one step of `Steps` does; what replays are told; how long a workflow is suspended | TLAPS |
| `ShapeProofs`, `ContractProofs` | the walk of a graph of types; the walk of a method, and the scan around both | TLAPS |
| `MCDispatch`, `MCHandles`, `MCSteps`, `MCContract` | small deployments, programs and Go modules | TLC |

`Lifecycle` is implemented by `Dispatch`, which is implemented by `Handles`
and by `Steps`; `Store` is the part of the state they all share.

**Store.**  `wf` is the table, one record per id, with status `"absent"` for a
missing row; `now` is the clock.  Each operator is one statement: its guard is
the `WHERE` clause, its primed variables are the `SET` list.  A guarded
statement that matches no row is `OCCConflict`.  `NoTime` is the empty string
that stands for the zero time; times beyond `Horizon` are clipped to it.
`NotAfter` compares times as their texts: an instant on a whole second has no
fraction, its text ends in `Z` where the others of that second have a dot, and
so it comes after all of them (`TextRank`; `Second` is the number of instants
in a second).  This is the zero fraction only: that `.1` comes after `.15`,
because `Z` does after digits, is the same disorder within a second and is left
out.  `ListSchedulable` is the set of the results the query may give:
rows created at the same instant come in any order.

**Dispatch.**  Per engine: `phase` (where `Start` is), `queue` (the pool's
tasks, copies of rows), `wg`, `leases`.  Per worker: `pc`, `task` (the record
`Run` was called with) and `outcome` (what the workflow returned).  `faults`
counts crashes, shutdowns and failing store calls, for the bound `MaxFaults`.

| Action | Code |
| --- | --- |
| `Submit`, `RequestCancel`, `Wake` | `Factory.Submit`; `SetSignal` with the one signal that the repository ever sets; the promotion in `ResumeSubscription` and `TimeOutSubscriptions` |
| `Promote`, `Poll` | one promotion; one poll with the dispatch of all it returned |
| `DropUnregistered`, `DropHeld`, `Acquire` | the head of `Run` |
| `ObserveCancel`, `BeginExecute`, `Execute` | the signal check; the workflow, abstracted to what it may return: anything, `ErrCancelled` included, whether or not somebody asked for it |
| `RecordCancelled` ... `RecordCompleted`, `Conflict` | the branches of `resolveOutcome` |
| `StoreFails` | a failing `ListStepResults`, `GetSignal` or outcome write: `Run` returns the error |
| `Release` | the deferred `Release` and `wg.Done` |
| `Stop`, `DrainTimeout`, `StartReturns` | cancelled context, cancelled drain context, the end of `wg.Wait` |
| `Crash`, `Restart` | the process dies and its memory with it; a new `NewEngine` |

Every step of a worker that touches the store or memory shared with others is
an action of its own, so that all interleavings of store calls are there.
`Delay` is `BaseDelay << Attempts` in `DurationBits` bits with a sign, clamped
to `MaxDelay` as the code does it, negative delays included; the properties
judge it by `Backoff`, which has no width.

`SetSignal` of `Store` takes any signal, as the statement does; `Lifecycle` and
`CancelIsIrrevocable` rest on nobody writing `SignalNone` over a request, which
nobody in the repository does.  `Lifecycle` does not say that a workflow is
cancelled only when that was asked for: `runner.go` records whatever
`CancelledError` a workflow returns.  For workflows that return none of their
own, `Steps` says it (`CancelledIfAsked`).

**Handles.**  `told` is what the application was told last of each workflow,
`active` the gauge `workflow.active` of each engine.  `Ask` is `Status`, or
one poll of `Result`: it reads the row, and only a pending row sends it to the
leases.  `CountedAcquire`, `CountedReturn`, `CountedFailure` and
`CountedCrash` are the actions of `Dispatch` with the `adjustActive` on their
path; the others are used as they are.

**Steps.**  Replaces `Execute` by the store calls of the step functions.
`results` and `subs` are the two other tables, `tick` is where the promoter of
each engine is in its cycle (its two transactions are two actions), and `run`
is the `WorkflowContext` of each worker: its goroutines, the names seen, the
prefetched cache and, as a history variable, what each call site was told
(`view`).  A goroutine has its scope, its counters, the step it has come to
and how far `Run` is in it.  A workflow is a fixed sequence of steps
(`Program`), some of them a `Parallel` of branches, that treats an event
timeout as a result and returns all other errors.

| Action | Code |
| --- | --- |
| `Prefetch` | `ListStepResults` into the cache, before the signal check |
| `EnterStep` | the name of the step (numbered for sleeps and providers), `trackStep`, the signal check |
| `Lookup` | the cache, then `GetStepResult`; a sleep that is over or not |
| `RunFn`, `FnFails`, `WaitFn` | the function of the step, or the generator of a provider, and any error it returns, a `SuspendError` or `CancelledError` of its own included; for an event `SaveSubscription` and the suspension |
| `SaveStep` | the write-through |
| `StepStoreFails` | a failing call of any of them |
| `Fork`, `Join`, `Finish` | the start of the branches; the end of `wg.Wait` with the error that is returned; the end of the workflow |
| `SendEvent`, `PromoteTick`, `TimeOutTick` | `ResumeSubscription`; the two transactions of the promoter, each of which may fail, the second being tried even if the first did |

**TypeShape and Contract.**  A Go module is given as the input of the scan:
types are graphs (`types`), an `Execute` method is the tree of its nodes in
preorder, each of the kind that `inspectNode` tells apart, and there is a
sequence of `Define` calls.  `stage` is where `BuildContracts` is, `contract`
the one it builds, `walkers` the stack of `executeWalker`s, one per branch, and
`at` the node that `ast.Inspect` comes to next; `frames` and `seen` are the
calls of `resolveTypeShapeImpl` in progress and its map.  For the next part of
the type on top, `Skip` passes a field that is not exported, `Recur` is the
early return for a type in the map, `Descend` a call, and `Ascend` the return
with its deferred delete.  `TypeResolved` goes on to the next of the type
parameters, after which `ResolveFactory` and `FindExecute` look for the factory
and the method.  `VisitFactory` is the walk over the factory for its providers,
one node at a time, and `EnterExecute` the start of the walk of the method, in
which `VisitStep`, `VisitProvider`, `VisitRecorded`, `VisitOther`,
`VisitHelper`, `OpenBranch`, `SkipArgument` and `CloseBranch` are the cases of
`inspectNode`: they differ in what they record and in whether they go on into
the node.

Definitions named in `PROJECT.json` under "mutants" are faulty variants of the
definition that follows them; they are used only to see that each property
fails when the code is wrong.

## What the runs check

| Run | Instance | Shows |
| --- | --- | --- |
| `dispatch_fleet` | 2 engines with 1 worker each, 1 workflow, an application that asks both, seconds of two instants, 1 fault | `HandlesTypeOK`, `CopiesCurrent`, `ActiveCounts`, `TerminalAnswerStands` |
| `dispatch_retries` | 2 engines with 1 worker each, no faults, 3 retries with delays of 1, 2 and the greatest delay 3 | `AttemptsBounded`, `BackoffOfRow`, `CancelIsIrrevocable` |
| `dispatch_live` | 1 engine, 2 workers, 2 workflows of which one is unregistered, queue of 2, 1 fault, fairness | `TypeOK`, `LeasesMatchWorkers`, `WaitGroupCounts`, `TerminalIsFinal`, `Implements`, `EventuallyTerminal`, `StopReturns` |
| `dispatch_stale` | 1 worker, queue of 2 | `PermanentNotRetried` is violated |
| `dispatch_unregistered` | 1 worker, 2 workflows of which one is unregistered, fairness | `RegisteredProgress` is violated |
| `steps` | 1 engine, 2 workers, two branches: a wait beside a longer sleep and an id whose generator may fail or suspend; a promoter that may fail; 1 crash or shutdown | `StepsTypeOK`, `RecordedOnce`, `ReplayAgrees`, `CompletedHasResults`, `SuspendsUntilLatest`, `FailureDecides`, `StepsImplementDispatch` |
| `steps_live` | 1 worker, a wait and two branches of the same name, failing functions and store calls, 1 fault, fairness | `CancelledIfAsked`, `StepsEventuallyTerminal` |
| `steps_wakeup`, `steps_timeout`, `steps_overwrite` | 1 engine, 2 workers, one wait, no faults at all | `EventPromotes`, `WaitIsNoFailure`, `EventIsKept` are violated |
| `steps_branches` | the same with a wait in each of two branches | `WaitIsNoFailure` is violated |
| `contract` | every tree of up to 5 nodes as an `Execute` method, every pair of types that refer to each other, several calls of `Define`, fairness | `ContractTypeOK`, `StepsInScope`, `ErrorsAreTold`, `ShapesUnfold`, `ScanEnds` |

The properties, in words:

* `CopiesCurrent`: a copy whose `occ_version` is still the row's describes the
  row as it is.  Everything `resolveOutcome` decides rests on this.  The row
  may be due up to a second early, because texts are compared.
* `TerminalIsFinal`, `AttemptsBounded`, `BackoffOfRow`: what the code computes
  from a copy is right for the row, on every engine.  The delay of a retry is
  the first one, doubled for each attempt that the row has, and at most
  `MaxDelay`: this is `Backoff`, which knows of no shift and no width, and it
  is claimed as long as the doubled delay is a duration.
* `LeasesMatchWorkers`, `WaitGroupCounts`, `ActiveCounts`: memory of an engine
  that is released on every path out of `Run`, also after a drain timeout and a
  failing store call.
* `CancelIsIrrevocable`: cancellation is decided once no execution that has
  passed its signal check can still write the row.
* `TerminalAnswerStands`: no later question of the application, on whatever
  engine, takes a terminal status back.
* `RecordedOnce`, `ReplayAgrees`, `CompletedHasResults`: durable steps, within
  one engine, with branches in every order.  Across two engines the leases do
  not exclude each other and a step may run twice; the code promises nothing
  else, and the run has one.
* `SuspendsUntilLatest`: among branches that sleep and wait, the row is
  suspended until the last sleep that is recorded, unless an event or a timeout
  wakes it.  This is said of the step that suspends the row and not of every
  suspended row: while the row is suspended, a stale copy of it can come to the
  next sleep and record it, and its own suspension then conflicts.  The
  workflow wakes up once more than it need, which does no harm.
* `FailureDecides`: the error of a branch that failed ends the execution, or
  that of a branch before it does; no suspension and no later branch hides it.
  As `parallel.go` says, the first error by index is the one returned, so that
  a transient error may hide a permanent one or a cancellation behind it.
* `CancelledIfAsked`: where functions return no `CancelledError` of their own,
  a row is cancelled only if its signal asks for it, through whatever branch,
  goroutine or copy the cancellation came.
* `StepsTypeOK`: the goroutines of an execution are the main one and, in a
  `Parallel`, one for each branch of that step, each in the scope of its branch,
  at a step of its code and with its counters; tables, caches and seen names
  hold steps of the program alone.
* `ContractTypeOK`: the walkers are of branches that are nested in each other,
  so that a branch's walker is gone when its next sibling is walked.
* `StepsInScope`, `ErrorsAreTold`: the contract against a definition of what
  the tree contains - each recognised call once, in the innermost branch around
  it that is written out as an argument of `Parallel`, and no error of any
  branch lost.  This is not always the branch it runs in: see below.
* `ShapesUnfold`: the recursive walk against the unfolding of the type graph
  that ends only where a named type meets itself.
* `EventuallyTerminal`, `StepsEventuallyTerminal`, `StopReturns`, `ScanEnds`:
  liveness.

The violations are behaviours of the code that its documentation excludes:

1. *A workflow that failed permanently is executed again* (`dispatch_stale`):
   a second poll queues a copy while the first runs; nothing is re-read
   before the second execution, whose outcome only then is dropped.
2. *Starvation* (`dispatch_unregistered`): rows of unregistered types count
   against the limit of a poll and never leave its head.
3. *A lost wake-up* (`steps_wakeup`): an event between `SaveSubscription` and
   `Suspend` promotes nothing; the workflow sleeps until the deadline.
4. *A timeout that counts as a failure* (`steps_timeout`): a poll between the
   two transactions of a promotion cycle runs into the key of the expired
   subscription.  With one attempt left, the workflow fails.
5. *A delivered event replaced by a timeout* (`steps_overwrite`): an execution
   that missed the event saves its subscription after it.
6. *An event that fails the other branch* (`steps_branches`): the first event
   wakes the workflow, and the replay of the branch that still waits runs into
   the key of its own subscription.

Three more are excluded by the wording of the properties, and are no run:

* *A retry without a delay*: `BaseDelay << Attempts` overflows before it is
  compared with `MaxDelay`, and a negative delay is due at once.  In 64 bits
  this is the 35th retry for a first delay of one second.  `BackoffOfRow`
  claims a delay as long as the doubled one is a duration.
* *Steps that a contract lacks*: a call through a workflow that embeds
  `*WorkflowContext`, as `w.Time.Now(ctx)` in `workflows/greeting/v1`, is not
  recognised and not told as an error (`walk.go:310`).  It is of the kind
  `"embedded"`, which `StepsInScope` does not count as recognised.
* *Steps outside of their branch*: a `NewBranch` that is kept in a variable is
  walked with the statements around it (`walk.go:193`); its steps run under the
  prefix of the branch and are told without it.  `StepsInScope` speaks of
  branches that are written out as arguments of `Parallel`.

### Bounds

`Horizon`, `SuspendBound`, `FnBound`, `MaxQueue`, `MaxFaults`, `MaxAttempts`
and `MaxDepth` are the bounds; each is a guard of one action.

* Horizons of 2 and 3 let a delay, a sleep and a deadline each lie in the
  future and pass; 8 in `dispatch_retries` is room for three delays.
* A queue of one or two next to a running copy gives stale copies; more of the
  same row add nothing, because a copy is characterised by its `occ_version`
  alone.
* One fault puts a crash, a shutdown with its drain timeout, or a failing
  store call in the middle of any other behaviour; two of them in a row (a
  crash while draining) are not checked, but the proofs hold for every number
  of faults.
* `SuspendBound` limits how often a workflow that may return anything
  suspends, 0 standing for no bound; programs of `Steps` end by themselves and
  have none.
* `Second = 2` in `dispatch_fleet` and `dispatch_retries` makes texts and times
  disagree on the order of two instants.
* `MaxAttempts = 4` in `dispatch_retries` gives three retries: of the first
  delay, of one that is doubled, and of one that `MaxDelay` cuts.  Durations
  have 8 bits, so that none overflows.  Elsewhere one retry is enough, as the
  questions are about what happens around it.
* `Values` has two labels, so that a step that ran twice can be told from one
  that did not.  `StepFaults` names what may fail: functions that return a
  `"cancelled"`, `"permanent"` or `"transient"` error or `"suspend"`, `"store"`
  calls of a step, and transactions of the `"promoter"`.  `steps` has a
  cancellation, a suspension and the promoter, and `steps_live` the others; a
  wait that runs into its own subscription gives `steps` a transient error as
  well.
* `FnBound` is the `occ_version` below which a function may suspend of its own
  accord, 0 for no bound; 4 in `steps` lets the execution after a promotion do
  so.
* A branch of a `Program` has no `Parallel` of its own.
* A tree of 5 nodes of the kinds `run`, `parallel` and `branch` nests a branch
  in a branch with a step inside it and one after it; the kinds that differ
  only in what they record get 4, 3 and 2 nodes.  Two types that refer to each
  other, themselves and a basic type have every kind of cycle; a walk of them
  is at most `MaxDepth` calls deep.

Symmetry: the two processes of `dispatch_fleet` and of `dispatch_retries` are
alike up to their names, as are the workers of the engine in `steps`; there is
no symmetry in the runs with liveness.

### Fairness

`WF` of `Poll`, `Promote` and the promoter's two transactions: their tickers
fire for ever while the engine is up.  `WF` of each worker: the Go scheduler
runs every goroutine, and a workflow is assumed to return, which the code
cannot enforce (a workflow that ignores its context keeps `Start` waiting).
In `Steps` a worker is fair with all its goroutines together: they only ever
advance through fixed sequences, so that one cannot keep the others waiting.
`WF` of `PassTime`: clocks go on.  `WF` of `StartReturns`: `wg.Wait` wakes up.
`WF` of `Restart`: somebody starts a dead process again; without it nothing
can be promised.  Crashes, shutdowns, errors, events, submissions and the
drain timeout are not fair: they may happen or not.  A promoter whose
transactions fail for ever promotes nothing, so that liveness is checked
without its failures.  `BuildContracts` is a sequential program that is not
interrupted, hence `WF` of its next step.  No strong fairness.
`EventuallyTerminal` needs room in a poll for every due row,
which the run has and `dispatch_unregistered` has not, and resume times other
than the zero time.

## What is proved

The theorems hold for all sets of engines and workflows, every finite set of
workers, all registries, programs, Go modules and bounds, from the named
assumptions of `Store`, `Dispatch`, `Steps`, `TypeShape` and `Contract` alone.
These give the constants their types and keep the null id out of the
workflows; `ProgramAssumption` says that programs are sequences of steps of
the kinds there are, and `ExecutionAssumption` that `Dispatch` leaves the
executions of `Steps` every resume time and no bound on suspensions;
`FaultsAssumption` lists what may fail.
`SourcesAssumption` says what the type checker and the parser of Go guarantee
of a module: types refer to types of the module, and a method is a tree in
preorder, in which only calls that have a name can have a dynamic one.

| Theorem | States |
| --- | --- |
| `DispatchProofs!TypeCorrect` | `[]TypeOK` |
| `DispatchProofs!CopiesCorrect` | `[]CopiesCurrent` |
| `DispatchProofs!LeasesCorrect` | `[]LeasesMatchWorkers` |
| `DispatchProofs!AttemptsCorrect` | `[]AttemptsBounded` |
| `DispatchProofs!TerminalCorrect` | `TerminalIsFinal` |
| `DispatchProofs!BackoffCorrect` | `BackoffOfRow` |
| `DispatchProofs!CancelCorrect` | `CancelIsIrrevocable` |
| `DispatchProofs!LifecycleImplemented` | `Implements` |
| `HandlesProofs!WaitGroupCorrect` | `[]WaitGroupCounts`, of `Dispatch` |
| `HandlesProofs!HandlesImplementDispatch` | `Spec` of `Dispatch`, of `HandlesSpec` |
| `HandlesProofs!ActiveCorrect` | `[]ActiveCounts` |
| `HandlesProofs!HandlesTypeCorrect` | `[]HandlesTypeOK` |
| `HandlesProofs!AnswersStand` | `TerminalAnswerStands` |
| `StepsProofs!DurableStepsImplementDispatch` | `StepsImplementDispatch` |
| `StepsProofs!StepsTypeCorrect` | `[]StepsTypeOK` |
| `StepsProofs!CancelledOnlyIfAsked` | `[]CancelledIfAsked` |
| `ReplayProofs!CompletedCorrect` | `[]CompletedHasResults` |
| `ReplayProofs!EachRecordedOnce` | `[]RecordedOnce`, if `OneEngine` and `NamesDistinct` |
| `ReplayProofs!ReplaysAgree` | `[]ReplayAgrees`, if `OneEngine` and `NamesDistinct` |
| `SleepsProofs!SuspendsLongEnough` | `SuspendsUntilLatest`, if `OneEngine` and `NamesDistinct` |
| `ContractProofs!ContractTypeCorrect` | `[]ContractTypeOK` |
| `ContractProofs!ContractsInScope` | `[]StepsInScope` |
| `ContractProofs!ContractErrorsTold` | `[]ErrorsAreTold` |
| `ContractProofs!TypesUnfold` | `[]ShapesUnfold` |

**Dispatch.**  All statements of the store share one shape, which the lemmas
`...Writes` capture: an operation changes one row (or promotes suspended
ones), and increments `occ` whenever it changes anything a copy holds.
`TypeOK` is inductive with that.  `CopiesCurrent` is inductive next to
`TypeOK`: a new copy equals its row; a row that is written leaves every copy
behind in `occ`; time only makes more rows due.  The other safety theorems
follow from it, because a guarded statement finds the row exactly as the copy
says.  `AttemptsBounded` is then one step; `TerminalIsFinal` says that a
matching copy would have to be of a pending row; `Implements` maps each record
action to the abstract one.  `BackoffOfRow` needs besides that the shift is the
doubling as long as twice the delay fits its width (`PowerNat`,
`DelayBacksOff`): the code computes in `DurationBits` bits, the property does
not.  `CancelIsIrrevocable` uses that `occ` never decreases.
`LeasesMatchWorkers` is proved in the equivalent form "the lease of every busy
worker is held by it alone".

**Handles.**  The counters are cardinalities of sets of workers, so each
action is reduced to one of three lemmas: the set stays, one worker joins it,
one leaves it (`FiniteSetTheorems`).  A poll adds as many tasks to the queue
as to `wg`, a crash empties both.  `TerminalAnswerStands` needs the invariant
that a terminal answer is still the row's status, which is `TerminalIsFinal`
read as an invariant.

**Steps.**  The inductive invariant is
`TypeOK /\ CopiesCurrent /\ StepsInv`, where `StepsInv` says more of a context
than `StepsTypeOK` does: the main goroutine is at a step of the program or
behind the last; the goroutines of a `Parallel` are exactly those of the
branches of that step; each counter is the number of numbered steps passed, so
that the name a goroutine uses is the name its call site has in the program
(`NameHereForm`); a goroutine that is done has an error; and if that is a
cancellation, there is a request or functions may return one of their own
(`Asked`).  Only then is it clear that tables hold
names of the program alone.  The refinement needs it too: what a `Join`
returns must be one of the outcomes `Execute` allows, and the choice of the
latest resume time is one of a finite nonempty set.  A branch that saw a
request to cancel returns long after it: the error counts only because the
request is never taken back (`SignalKept`).  `CancelledIfAsked` extends this to
the outcomes of workers and the rows they write (`AskedInv`), where a copy that
still matches is what ties an outcome to its row.  `StepsTypeOK` is the part of
`StepsInv` that can be said without counting.

**Replay.**  `Steps` has some twenty actions, but what they do to a context,
to the results and to the subscriptions is one of a few effects
(`EffectProofs!Effect`): a goroutine enters a step, misses it in the store,
computes a result, saves it, learns one and goes on, waits, suspends of its own
accord (`Yields`), or fails; and the rest of the state stays or is that of one
step of `Dispatch` (`StepKinds`).  Every invariant below is shown of the
effects, not of the actions.

* `CompletedHasResults` follows from `WholeInv`: every step a goroutine has
  passed has a result in the store, and so has every name in a cache and in a
  view; results are never removed (`ResultsGrow`); an execution that returned
  a completion and the row it completes have the results of all steps.
  Nothing else is assumed: it holds across engines and if names are shared.
* `RecordedOnce` and `ReplayAgrees` follow from `ReplayInv`: on steps that are
  not waits, the view and the cache of an execution agree with the store, and a
  goroutine inside the function of a step has found no result, and there still
  is none.  The last part is what other executions could break, and what the
  lease forbids: two workers of the same engine have no row in common
  (`LeaseForm`).  Within one execution it takes distinct names.  Subscriptions
  have names of waits, so that neither an event nor a timeout writes the
  result of another kind of step.  Waits are excluded from all of it, as the
  code does replace their results (`steps_overwrite`).
* `SuspendsUntilLatest` follows from `SleepsInv`: a result is a time exactly if
  its step is a sleep; before every step that has been recorded or subscribed,
  in the order of its branch, all sleeps are over; a branch that suspended has
  a resume time that covers the sleeps up to where it stopped and there is none
  recorded beyond; and what the execution returns covers them all.  This is
  where the latest, not the earliest, of the branches' times is needed.

The hypotheses.  `OneEngine` says that there is at most one engine: leases are
memory of a process (`lease.go`), and nothing else keeps two executions apart.
`NamesDistinct` says that the call sites of a workflow have different names,
scopes included; `trackStep` enforces it for the sites one execution comes to,
but a run and a wait that share a name and that two executions come to in
different order are beyond it.  Neither can be dropped: with two engines, or
with a run and a wait of one name in two branches of one name, TLC finds
violations of `RecordedOnce` and `ReplayAgrees` at once.  Both
hold in the instances of `steps`, which has one engine, and of every program
that does not run into a duplicate step error.

**Types.**  `ShapesUnfold` says that a walk with a stack, a map and deletes
on return writes the paths of an unfolding.  The invariant (`ShapeInv`) names
at every moment the set of paths that have been walked: those that leave the
path on the stack at one of its frames, by a part that comes before the next
one of that frame.  `seen` is the set of the named types on the stack, and this
is what the deferred delete is for: a named type cannot be on it twice, so
that the return of a call removes its own mark and none of a call below it.
`Skip` and `Recur` add no path or one that ends, `Descend` moves one, `Ascend`
finds that all paths through the frame it leaves are walked.

**Contracts.**  In a tree in preorder the nodes that are in a node are an
interval (`Interval`), `After` is its end, and two intervals are nested or
disjoint.  The invariant (`WalkOK`) is about the node that is visited next, at
which all nodes around it have been gone into: the walkers are those of the
branches around it, outermost first, and perhaps of some that end just before
it (`Stack`); each has exactly the steps of its scope that come before
(`Told`), the errors of all walkers together are those that come before, and
every branch that was passed is complete in the contract (`Complete`).  A
visit either goes on into the node or jumps behind it, and then nothing in it
is followed (`MoveKeeps`); opening a branch adds a walker (`OpenKeeps`),
closing it hands its errors down (`CloseKeeps`).  When the last walker is at
the end, the interval of the method, nothing is left out (`WalkEnds`).
`ContractInv` adds where `BuildContracts` is.  That the walkers are nested
(`ContractTypeOK`) is read off `Stack`: a branch that begins in the interval of
the one below it on the stack is in it.

Induction over trees, paths and sizes of sets is done without the induction
theorems of the library: a smallest counterexample exists (`Least`, from
`WFMin`) and is refuted.

Model-checked only: liveness, which like `ENABLED` is outside the prover's
reach.  This includes that a scan ends (`ScanEnds`); the safety theorems above
hold at every step of a scan, whether it ends or not, and for every `MaxDepth`.

## What is not modelled

* `RunOnce`, `Engine.Promote` and `Engine.TimeOutSubscriptions`: the same
  calls in a fixed order; every one of their behaviours is one of `Dispatch`.
* Payloads, results, error texts, marshalling, logging, spans, and the
  counters and histograms of the telemetry.  The gauge of suspended workflows
  goes up before the guard of `Suspend` is known to hold and never down when an
  event wakes the workflow; nothing reads it.
* A `Parallel` inside a branch, and branches that use the context around them
  instead of their own.  The latter share `sleepCounter` and the counters of
  providers without a mutex, so that two branches may race for a step name; no
  property here is about such programs.
* `SetSignal` with `SignalNone`, and fractions of a second other than zero in
  the order of time texts (see `Store`).
* A status told as pending of a workflow that has ended since: `Status` reads
  the row and then the lease, and the handles tell terminal answers apart from
  all others only.
* Which branch a variable holds, and fields and methods reached by embedding,
  in contracts: the analyser looks at neither.
* Names of packages, types, workflows and versions in contracts, and with them
  which package `findExecuteMethod` looks into.  Loading and type-checking a
  module is external (`golang.org/x/tools`).
* Custom schedulers, runners, pools, promoters and lease stores.
* `examples`, `workflows`, `cmd`: clients of the library.

## Plan

1. *Done*: `Store`, `Lifecycle`, `Dispatch`, `Steps`, with `DispatchProofs`.
2. *Done*: the width of delays and the order of time texts in `Store` and
   `Dispatch`; `Handles`; `Parallel`, scopes and providers in `Steps`;
   `TypeShape` and `Contract`; `HandlesProofs` and `StepsProofs`.
3. *Done*: `EffectProofs`, `ReplayProofs`, `SleepsProofs`; `ShapeProofs` and
   `ContractProofs`.
4. *Left*: a `Parallel` inside a branch, by goroutines with a parent.
