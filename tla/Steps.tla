------------------------------- MODULE Steps -------------------------------
(***************************************************************************)
(* Durable steps: run.go, context.go, provider.go, parallel.go, promoter.go *)
(* and the step_results and subscriptions tables of sqlite/sqlite.go.  The *)
(* Execute of Dispatch is replaced by what Run, SleepUntil, WaitForEvent,  *)
(* Provider.Get and Parallel do, one store call of one goroutine at a time; *)
(* every step of this module is a step of Dispatch or a stutter.           *)
(*                                                                         *)
(* A workflow is a fixed sequence of steps, some of them parallel          *)
(* branches: it is deterministic, it treats an event timeout as a result   *)
(* and it returns every other error.  Bound: a branch has no Parallel.     *)
(***************************************************************************)
EXTENDS Dispatch

CONSTANTS
  Program,     \* the steps of each workflow, in order
  Keys,        \* correlation keys
  Values,      \* what functions of run steps and generators may return
  StepFaults,  \* what may fail: kinds of errors that functions return,
               \* "store" calls of steps, "promoter" transactions
  FnBound      \* bound: a function suspends only below this occ_version
               \* (0: no bound)

(* The steps numbered in their scope, by kind.                             *)
Numbered == {"sleep", "get"}

Plain(steps) ==
  /\ steps \in Seq(Range(steps))
  /\ \A i \in DOMAIN steps :
       /\ steps[i].kind \in {"run", "wait"} \cup Numbered
       /\ steps[i].span \in Nat
       /\ steps[i].kind = "wait" => steps[i].key \in Keys

Branching(step) ==
  /\ step.kind = "parallel"
  /\ step.branches \in Seq(Range(step.branches))
  /\ \A b \in DOMAIN step.branches : Plain(step.branches[b].steps)

ASSUME ProgramAssumption ==
  \A w \in Workflows :
    /\ Program[w] \in Seq(Range(Program[w]))
    /\ \A i \in DOMAIN Program[w] :
         Plain(<<Program[w][i]>>) \/ Branching(Program[w][i])

(* An error that is neither a CancelledError, a PermanentError nor a        *)
(* SuspendError is transient, and so is a panic.                           *)
Failures == {"cancelled", "permanent", "transient"}

ASSUME FaultsAssumption ==
  /\ StepFaults \subseteq Failures \cup {"suspend", "store", "promoter"}
  /\ FnBound \in Nat

(* What fn returned is a label; when a workflow resumes is computed.       *)
ASSUME ExecutionAssumption ==
  Values \subseteq 0..Horizon /\ ResumeTimes = 0..Horizon /\ SuspendBound = 0

VARIABLES
  results,     \* step_results: the result of each recorded step, by name
  subs,        \* subscriptions, by correlation key
  tick,        \* what the time promoter of each engine does next
  run          \* the WorkflowContext of each worker

stepVars == <<results, subs, tick, run>>
allVars  == <<vars, stepVars>>

Root == ""

(* resolveStepName, and the numbers that SleepUntil and Get put in names.  *)
StepName(scope, step, count) ==
  IF step.kind \in Numbered
  THEN [scope |-> scope, base |-> step.kind, n |-> count[step.kind]]
  ELSE [scope |-> scope, base |-> step.name, n |-> 0]

Result(tag, n) == [tag |-> tag, n |-> n]
NoResult == Result("none", 0)
NoName == [scope |-> Root, base |-> "none", n |-> 0]
NoSub == [id |-> "none", name |-> NoName, deadline |-> NoTime]

(* A goroutine of an execution, in a scope of its own.  at: the step it    *)
(* has come to; loc: how far Run is in it; val: what fn returned; count:   *)
(* sleepCounter and the counter of a provider; err: what it returned.      *)
Thread(scope, loc) ==
  [scope |-> scope, at |-> 1, loc |-> loc, val |-> NoResult,
   count |-> [k \in Numbered |-> 0], err |-> NoOutcome]

(* thread: the main goroutine, then those of the Parallel it is in; cache: *)
(* the prefetched results; view: what each call site was told.             *)
NoRun == [thread |-> <<Thread(Root, "prefetch")>>, seen |-> {},
          cache |-> <<>>, view |-> <<>>]

StepsInit ==
  /\ Init
  /\ results = [w \in Workflows |-> <<>>]
  /\ subs = [k \in Keys |-> NoSub]
  /\ tick = [e \in Engines |-> "promote"]
  /\ run = [p \in Workers |-> NoRun]

(* The entries of g replace those of f.                                    *)
Merge(f, g) ==
  [x \in DOMAIN f \cup DOMAIN g |-> IF x \in DOMAIN g THEN g[x] ELSE f[x]]

Put(f, x, y) == Merge(f, [z \in {x} |-> y])

-----------------------------------------------------------------------------
(* Events and timeouts                                                     *)

(* What the subscriptions of keys K do to the workflows waiting on them.   *)
Deliver(K, result) ==
  /\ results' = [w \in Workflows |->
       Merge(results[w],
             [n \in {subs[k].name : k \in {h \in K : subs[h].id = w}} |-> result])]
  /\ subs' = [k \in Keys |-> IF k \in K THEN NoSub ELSE subs[k]]

(* Mutant of WakeSubscribers: AND status = 'suspended' is missing.         *)
WakeAnyStatus(K) ==
  LET ids == {subs[k].id : k \in K} IN
  /\ wf' = [w \in Workflows |->
              IF w \in ids THEN PromotedRow(wf[w]) ELSE wf[w]]
  /\ UNCHANGED <<now, memoryVars, faults>>

WakeSubscribers(K) ==
  LET ids == {subs[k].id : k \in K} IN
  \/ Wake(ids)
  \/ (\A w \in ids : wf[w].status # "suspended") /\ UNCHANGED vars

(* ResumeSubscription; without a subscription SendEvent is an error.       *)
SendEvent(k) ==
  /\ subs[k] # NoSub
  /\ Deliver({k}, Result("event", 1))
  /\ WakeSubscribers({k})
  /\ UNCHANGED <<tick, run>>

(* One cycle of the promoter: PromoteSuspended, then TimeOutSubscriptions, *)
(* each a transaction of its own, and the second even if the first failed. *)
PromoterFails == "promoter" \in StepFaults /\ UNCHANGED <<vars, results, subs>>

PromoteTick(e) ==
  /\ phase[e] = "up" /\ tick[e] = "promote"
  /\ \/ Promote(e)
     \/ (\A w \in Workflows : ~Promotable(w)) /\ UNCHANGED vars
     \/ PromoterFails
  /\ tick' = [tick EXCEPT ![e] = "timeout"]
  /\ UNCHANGED <<results, subs, run>>

Expired == {k \in Keys : /\ subs[k] # NoSub /\ subs[k].deadline # NoTime
                         /\ NotAfter(subs[k].deadline, now)}

TimeOutTick(e) ==
  /\ phase[e] = "up" /\ tick[e] = "timeout"
  /\ \/ Deliver(Expired, Result("timeout", 0)) /\ WakeSubscribers(Expired)
     \/ PromoterFails
  /\ tick' = [tick EXCEPT ![e] = "promote"]
  /\ UNCHANGED run

-----------------------------------------------------------------------------
(* LocalRunner.Run around the execution                                    *)

(* ListStepResults                                                         *)
Prefetch(p) ==
  /\ pc[p] = "signal" /\ run[p] = NoRun
  /\ StoreReachable(p)
  /\ run' = [run EXCEPT ![p] = [@ EXCEPT !.thread = <<Thread(Root, "enter")>>,
                                         !.cache = results[task[p].id]]]
  /\ UNCHANGED <<vars, results, subs, tick>>

(* The WorkflowContext is a local of Run: it ends with the execution.      *)
Forget(p) == run' = [run EXCEPT ![p] = NoRun]

AfterPrefetch(p) ==
  /\ run[p] # NoRun
  /\ \/ ObserveCancel(p) /\ Forget(p)
     \/ BeginExecute(p) /\ UNCHANGED run
  /\ UNCHANGED <<results, subs, tick>>

StepsStoreFails(p) ==
  /\ StoreFails(p) /\ Forget(p)
  /\ UNCHANGED <<results, subs, tick>>

-----------------------------------------------------------------------------
(* Where a goroutine is                                                    *)

Here(p)   == run[p].thread[1].at
Main(p)   == Program[task[p].id]
Forked(p) == run[p].thread[1].loc = "join"

Code(p, t) == IF t = 1 THEN Main(p) ELSE Main(p)[Here(p)].branches[t - 1].steps

InStep(p, t, loc) ==
  /\ pc[p] = "execute" /\ t \in DOMAIN run[p].thread
  /\ run[p].thread[t].loc = loc
  /\ run[p].thread[t].at \in DOMAIN Code(p, t)

Step(p, t) == Code(p, t)[run[p].thread[t].at]

NameHere(p, t) ==
  StepName(run[p].thread[t].scope, Step(p, t), run[p].thread[t].count)

(* A call site: a main step, or a step of a branch of it.                  *)
Site(p, t) ==
  <<Here(p), t - 1, IF t = 1 THEN 0 ELSE run[p].thread[t].at>>

Continues(p, r) ==
  /\ run' = [run EXCEPT ![p] = r]
  /\ UNCHANGED vars

(* The goroutine returns the error of the step: the outcome of the         *)
(* workflow, or the error of a branch.                                     *)
Raise(p, t, r, o) ==
  IF t = 1
  THEN Return(p, o) /\ Forget(p)
  ELSE Continues(p, [r EXCEPT !.thread[t] = [@ EXCEPT !.loc = "done", !.err = o,
                                                     !.val = NoResult]])

-----------------------------------------------------------------------------
(* Run, SleepUntil, Get and WaitForEvent                                   *)

Count(p, t) ==
  LET count == run[p].thread[t].count
      kind  == Step(p, t).kind
  IN  IF kind \in Numbered THEN [count EXCEPT ![kind] = @ + 1] ELSE count

NextName(p, t) == StepName(run[p].thread[t].scope, Step(p, t), Count(p, t))

(* trackStep: a name used before in this execution is an error.            *)
Tracked(p, t, loc) ==
  [run[p] EXCEPT !.thread[t] = [@ EXCEPT !.count = Count(p, t), !.loc = loc],
                 !.seen = @ \cup {NextName(p, t)}]

EnterStep(p, t) ==
  /\ InStep(p, t, "enter") /\ Step(p, t).kind # "parallel"
  /\ IF NextName(p, t) \in run[p].seen
     THEN Raise(p, t, run[p], OutcomeOf("transient"))
     ELSE /\ StoreReachable(p)
          /\ IF wf[task[p].id].signal = "cancel_requested"
             THEN Raise(p, t, Tracked(p, t, "enter"), OutcomeOf("cancelled"))
             ELSE Continues(p, Tracked(p, t, "lookup"))
  /\ UNCHANGED <<results, subs, tick>>

(* The step has the result r: go on, or sleep on.                          *)
Observe(p, t, r) ==
  LET told == [run[p] EXCEPT
                 !.thread[t] = [@ EXCEPT !.at = run[p].thread[t].at + 1,
                                         !.loc = "enter", !.val = NoResult],
                 !.view = Put(@, Site(p, t), r)]
  IN  IF Step(p, t).kind = "sleep" /\ now < r.n
      THEN Raise(p, t, told, [kind |-> "suspend", resumeAt |-> r.n])
      ELSE Continues(p, told)

Moved(p, t, loc, r) ==
  [run[p] EXCEPT !.thread[t] = [@ EXCEPT !.loc = loc, !.val = r]]

Cached(p, t) == NameHere(p, t) \in DOMAIN run[p].cache

Lookup(p, t) ==
  /\ InStep(p, t, "lookup")
  /\ Cached(p, t) \/ StoreReachable(p)
  /\ LET stored == results[task[p].id]
         found  == IF Cached(p, t) THEN run[p].cache ELSE stored
         name   == NameHere(p, t)
     IN  IF name \in DOMAIN found
         THEN Observe(p, t, found[name])
         ELSE Continues(p, Moved(p, t, "fn", NoResult))
  /\ UNCHANGED <<results, subs, tick>>

(* The function of a step, the closure of SleepUntil, the generator of Get. *)
RunFn(p, t) ==
  /\ InStep(p, t, "fn")
  /\ \E r \in CASE Step(p, t).kind \in {"run", "get"} ->
                   {Result("value", n) : n \in Values}
              [] Step(p, t).kind = "sleep" ->
                   {Result("time", At(now + Step(p, t).span))}
              [] OTHER -> {} :
       Continues(p, Moved(p, t, "save", r))
  /\ UNCHANGED <<results, subs, tick>>

(* A function may return what error it likes, a SuspendError included.     *)
FnErrors(p) ==
  {o \in Outcome :
     /\ o.kind \in StepFaults
     /\ IF o.kind = "suspend" THEN FnBound = 0 \/ task[p].occ < FnBound
                              ELSE o.resumeAt = NoTime}

FnFails(p, t) ==
  /\ InStep(p, t, "fn") /\ Step(p, t).kind \in {"run", "get"}
  /\ \E o \in FnErrors(p) : Raise(p, t, run[p], o)
  /\ UNCHANGED <<results, subs, tick>>

Subscribes(p, t, resumeAt) ==
  IF subs[Step(p, t).key] # NoSub
  THEN /\ Raise(p, t, run[p], OutcomeOf("transient"))
       /\ UNCHANGED <<results, subs, tick>>
  ELSE /\ subs' = [subs EXCEPT ![Step(p, t).key] =
                     [id |-> task[p].id, name |-> NameHere(p, t),
                      deadline |-> At(now + Step(p, t).span)]]
       /\ Raise(p, t, run[p], [kind |-> "suspend", resumeAt |-> resumeAt])
       /\ UNCHANGED <<results, tick>>

(* Mutant of WaitFn: the row has no resume time of its own.                *)
WaitForSubscription(p, t) ==
  /\ InStep(p, t, "fn") /\ Step(p, t).kind = "wait" /\ StoreReachable(p)
  /\ Subscribes(p, t, NoTime)

(* The function of WaitForEvent: SaveSubscription, then suspend.  The key  *)
(* is a primary key.                                                       *)
WaitFn(p, t) ==
  /\ InStep(p, t, "fn") /\ Step(p, t).kind = "wait" /\ StoreReachable(p)
  /\ Subscribes(p, t, At(now + Step(p, t).span))

(* SaveStepResult: INSERT OR REPLACE.                                      *)
SaveStep(p, t) ==
  /\ InStep(p, t, "save") /\ StoreReachable(p)
  /\ results' = [results EXCEPT ![task[p].id] =
                   Put(@, NameHere(p, t), run[p].thread[t].val)]
  /\ Observe(p, t, run[p].thread[t].val)
  /\ UNCHANGED <<subs, tick>>

(* A store call of a step fails; after the drain timeout all of them do.   *)
StepStoreFails(p, t) ==
  /\ "store" \in StepFaults \/ ~StoreReachable(p)
  /\ \/ /\ InStep(p, t, "enter") /\ Step(p, t).kind # "parallel"
        /\ NextName(p, t) \notin run[p].seen
        /\ Raise(p, t, Tracked(p, t, "enter"), OutcomeOf("transient"))
     \/ /\ \/ InStep(p, t, "lookup") /\ ~Cached(p, t)
           \/ InStep(p, t, "fn") /\ Step(p, t).kind = "wait"
           \/ InStep(p, t, "save")
        /\ Raise(p, t, run[p], OutcomeOf("transient"))
  /\ UNCHANGED <<results, subs, tick>>

-----------------------------------------------------------------------------
(* Parallel                                                                *)

(* Mutant of Scope: the child forgets its prefix.                          *)
ScopeUnprefixed(name) == Thread(Root, "enter")

Scope(name) == Thread(name, "enter")

Fork(p) ==
  /\ InStep(p, 1, "enter") /\ Step(p, 1).kind = "parallel"
  /\ LET branches == Step(p, 1).branches IN
     Continues(p, [run[p] EXCEPT
       !.thread = <<[run[p].thread[1] EXCEPT !.loc = "join"]>>
                    \o [b \in DOMAIN branches |-> Scope(branches[b].name)]])
  /\ UNCHANGED <<results, subs, tick>>

Errors(threads, kinds) == {t \in DOMAIN threads : threads[t].err.kind \in kinds}
Failed(threads) == Errors(threads, Failures)
Asleep(threads) == Errors(threads, {"suspend"})

(* Mutant of First: a later error replaces the one before it.              *)
Latest(T) == CHOOSE t \in T : \A u \in T : u <= t

First(T) == CHOOSE t \in T : \A u \in T : t <= u

(* Mutants of Joined: the earliest resume time is returned; a suspension   *)
(* of a branch is no error.                                                *)
JoinedEarliest(threads) ==
  IF Failed(threads) # {} THEN threads[First(Failed(threads))].err
  ELSE IF Asleep(threads) # {}
       THEN threads[CHOOSE t \in Asleep(threads) : \A u \in Asleep(threads) :
              threads[t].err.resumeAt <= threads[u].err.resumeAt].err
       ELSE NoOutcome

JoinedAwake(threads) ==
  IF Failed(threads) # {} THEN threads[First(Failed(threads))].err ELSE NoOutcome

(* The first error that is no suspension, else the latest resume time.     *)
Joined(threads) ==
  IF Failed(threads) # {} THEN threads[First(Failed(threads))].err
  ELSE IF Asleep(threads) # {}
       THEN threads[CHOOSE t \in Asleep(threads) : \A u \in Asleep(threads) :
              threads[t].err.resumeAt >= threads[u].err.resumeAt].err
       ELSE NoOutcome

(* wg.Wait is over: all branches have returned.                            *)
Join(p) ==
  /\ pc[p] = "execute" /\ Forked(p)
  /\ \A t \in 2..Len(run[p].thread) :
       \/ run[p].thread[t].loc = "done"
       \/ run[p].thread[t].at \notin DOMAIN Code(p, t)
  /\ LET err == Joined(run[p].thread) IN
     IF err # NoOutcome
     THEN Return(p, err) /\ Forget(p)
     ELSE Continues(p, [run[p] EXCEPT
            !.thread = <<[run[p].thread[1] EXCEPT !.loc = "enter",
                                                  !.at = Here(p) + 1]>>])
  /\ UNCHANGED <<results, subs, tick>>

Finish(p) ==
  /\ pc[p] = "execute" /\ Here(p) \notin DOMAIN Main(p)
  /\ Return(p, OutcomeOf("completed")) /\ Forget(p)
  /\ UNCHANGED <<results, subs, tick>>

-----------------------------------------------------------------------------
(* A promoter stops in the middle of its cycle.                            *)
StepsStop(e) ==
  /\ Stop(e)
  /\ tick' = [tick EXCEPT ![e] = "promote"]
  /\ UNCHANGED <<results, subs, run>>

StepsCrash(e) ==
  /\ Crash(e)
  /\ tick' = [tick EXCEPT ![e] = "promote"]
  /\ run' = [p \in Workers |-> IF EngineOf[p] = e THEN NoRun ELSE run[p]]
  /\ UNCHANGED <<results, subs>>

Goroutine(p, t) ==
  \/ EnterStep(p, t) \/ Lookup(p, t) \/ RunFn(p, t) \/ FnFails(p, t)
  \/ WaitFn(p, t) \/ SaveStep(p, t) \/ StepStoreFails(p, t)

StepsWorker(p) ==
  \/ Prefetch(p) \/ AfterPrefetch(p)
  \/ \E t \in DOMAIN run[p].thread : Goroutine(p, t)
  \/ Fork(p) \/ Join(p) \/ Finish(p) \/ StepsStoreFails(p)
  \/ /\ \/ DropUnregistered(p) \/ DropHeld(p) \/ Acquire(p)
        \/ RecordCancelled(p) \/ RecordPermanent(p) \/ RecordSuspend(p)
        \/ RecordExhausted(p) \/ RecordRetry(p) \/ RecordCompleted(p)
        \/ Conflict(p) \/ Release(p)
     /\ UNCHANGED stepVars

StepsEngine(e) ==
  \/ PromoteTick(e) \/ TimeOutTick(e) \/ StepsStop(e) \/ StepsCrash(e)
  \/ /\ Poll(e) \/ DrainTimeout(e) \/ StartReturns(e) \/ Restart(e)
     /\ UNCHANGED stepVars

StepsNext ==
  \/ \E w \in Workflows : (Submit(w) \/ RequestCancel(w)) /\ UNCHANGED stepVars
  \/ \E k \in Keys : SendEvent(k)
  \/ PassTime /\ UNCHANGED stepVars
  \/ \E e \in Engines : StepsEngine(e)
  \/ \E p \in Workers : StepsWorker(p)

StepsSpec == StepsInit /\ [][StepsNext]_allVars

StepsFairness ==
  /\ WF_allVars(PassTime /\ UNCHANGED stepVars)
  /\ \A e \in Engines :
       /\ WF_allVars(PromoteTick(e) \/ TimeOutTick(e))
       /\ WF_allVars(Poll(e) /\ UNCHANGED stepVars)
       /\ WF_allVars(StartReturns(e) /\ UNCHANGED stepVars)
       /\ WF_allVars(Restart(e) /\ UNCHANGED stepVars)
  /\ \A p \in Workers : WF_allVars(StepsWorker(p))

StepsFairSpec == StepsSpec /\ StepsFairness
-----------------------------------------------------------------------------
(* Properties                                                              *)

StepResult == {Result("event", 1), Result("timeout", 0)}
                \cup {Result("value", n) : n \in Values}
                \cup {Result("time", n) : n \in 0..Horizon}

Sites(w) ==
  {<<i, 0, 0>> : i \in {j \in DOMAIN Program[w] : Program[w][j].kind # "parallel"}}
    \cup UNION {UNION {{<<i, b, j>> : j \in DOMAIN Program[w][i].branches[b].steps}
                        : b \in DOMAIN Program[w][i].branches}
                : i \in {j \in DOMAIN Program[w] : Program[w][j].kind = "parallel"}}

(* The steps of the scope of a call site up to it.                         *)
UpTo(w, s) ==
  IF s[2] = 0 THEN SubSeq(Program[w], 1, s[1])
              ELSE SubSeq(Program[w][s[1]].branches[s[2]].steps, 1, s[3])

StepAt(w, s) == UpTo(w, s)[Len(UpTo(w, s))]

(* The name a call site should have, whatever runs beside it: a step that  *)
(* is numbered has its place among those of its kind in its scope.         *)
SiteName(w, s) ==
  StepName(IF s[2] = 0 THEN Root ELSE Program[w][s[1]].branches[s[2]].name,
           StepAt(w, s),
           [kind \in Numbered |->
              Cardinality({i \in DOMAIN UpTo(w, s) : UpTo(w, s)[i].kind = kind})])

NameOf == [w \in Workflows |-> [s \in Sites(w) |-> SiteName(w, s)]]
Names  == [w \in Workflows |-> Range(NameOf[w])]

Subscription == [id       : Workflows,
                 name     : UNION {Names[w] : w \in Workflows},
                 deadline : 0..Horizon]

Known(f, keys) == DOMAIN f \subseteq keys /\ Range(f) \subseteq StepResult

Locations == {"enter", "lookup", "fn", "save", "done", "join"}

(* The goroutines of an execution: one for each branch of the Parallel the *)
(* main one waits in, each in its own scope and its own steps.             *)
ScopeOf(p, t) == IF t = 1 THEN Root ELSE Main(p)[Here(p)].branches[t - 1].name

ThreadsOK(p) ==
  /\ Here(p) \in 1..(Len(Main(p)) + 1)
  /\ Len(run[p].thread) =
       IF Forked(p) THEN 1 + Len(Main(p)[Here(p)].branches) ELSE 1
  /\ \A t \in DOMAIN run[p].thread :
       /\ run[p].thread[t] \in
            [scope : {ScopeOf(p, t)}, at : 1..(Len(Code(p, t)) + 1),
             loc : Locations, val : StepResult \cup {NoResult},
             count : [Numbered -> Nat], err : Outcome]
       /\ run[p].thread[t].loc = "join" => t = 1

(* Every variable has its type, only steps of the program are recorded,    *)
(* and only a worker that executes, or is about to, has a context; its     *)
(* goroutines are those of the Parallel it is in.                          *)
StepsTypeOK ==
  /\ \A w \in Workflows : Known(results[w], Names[w])
  /\ \A k \in Keys : subs[k] = NoSub \/ subs[k] \in Subscription
  /\ tick \in [Engines -> {"promote", "timeout"}]
  /\ \A p \in Workers :
       \/ run[p] = NoRun
       \/ /\ pc[p] \in {"signal", "execute"}
          /\ ThreadsOK(p)
          /\ run[p].seen \subseteq Names[task[p].id]
          /\ Known(run[p].cache, Names[task[p].id])
          /\ Known(run[p].view, DOMAIN NameOf[task[p].id])

(* The function of a run, get or sleep step is not called again once its   *)
(* result is recorded, whichever stale copy of the row the execution       *)
(* started from, whatever was interrupted before, and whichever branch the *)
(* step is in.                                                             *)
RecordedOnce ==
  \A p \in Busy : \A t \in DOMAIN run[p].thread :
    InStep(p, t, "fn") \/ InStep(p, t, "save") =>
      Step(p, t).kind = "wait" \/ NameHere(p, t) \notin DOMAIN results[task[p].id]

(* What a call of Run, Get or SleepUntil told one execution is what it     *)
(* tells every later one, however its branches are scheduled: the result   *)
(* is in the store under the name of that call alone, and still the same.  *)
ReplayAgrees ==
  \A p \in Busy : \A s \in DOMAIN run[p].view :
    LET w == task[p].id IN
    StepAt(w, s).kind # "wait" =>
      /\ NameOf[w][s] \in DOMAIN results[w]
      /\ results[w][NameOf[w][s]] = run[p].view[s]

(* A workflow is recorded as completed only with the results of all its    *)
(* steps in the store, those of every branch included.                     *)
CompletedHasResults ==
  \A w \in Workflows : wf[w].status = "completed" =>
    Names[w] \subseteq DOMAIN results[w]

(* A workflow that is suspended is not resumed by the clock before every   *)
(* sleep it has recorded is over, in whatever branches it sleeps and waits. *)
(* While it is suspended that may change: a stale copy of the row, queued  *)
(* before, can come to the next sleep and record it; its own suspension    *)
(* then conflicts, and the workflow only wakes up once more than it need.  *)
SuspendsUntilLatest ==
  [][\A w \in Workflows :
       wf'[w].status = "suspended" /\ wf[w].status # "suspended" =>
         \A r \in Range(results[w]) :
           r.tag = "time" => r.n <= now \/ r.n <= wf'[w].retryAfter]_allVars

(* A branch that failed is not forgotten: its execution ends with the      *)
(* error of that branch or of one before it, whatever the other branches   *)
(* still do, suspend or complete, unless the process dies.                 *)
FailureDecides ==
  [][\A p \in Workers : \A t \in Failed(run[p].thread) :
       \/ t \in Failed(run'[p].thread)
       \/ pc'[p] = "idle"
       \/ \E u \in 1..t : /\ outcome'[p] = run[p].thread[u].err
                          /\ outcome'[p].kind \in Failures]_allVars

(* A workflow none of whose functions returns a CancelledError of its own  *)
(* is recorded as cancelled only if somebody asked for it: a request seen  *)
(* by one branch or one execution is no other workflow's.                  *)
CancelledIfAsked ==
  "cancelled" \notin StepFaults =>
    \A w \in Workflows :
      wf[w].status = "cancelled" => wf[w].signal = "cancel_requested"

(* Every step of this module is one of Dispatch or changes nothing there,  *)
(* so that what is shown of Dispatch holds of durable steps as well.       *)
StepsImplementDispatch == Spec

(* Every submitted workflow reaches a terminal status, whether the events  *)
(* it waits for are sent or not, and wherever they fall.                   *)
StepsEventuallyTerminal ==
  \A w \in Workflows : wf[w].status # "absent" ~> wf[w].status \in Terminal

-----------------------------------------------------------------------------
(* What the documentation says and the code does not do                    *)

(* engine.go on SendEvent: the payload is saved, the subscription deleted  *)
(* and the workflow promoted to pending - a workflow is not suspended with *)
(* the result of every step in the store.                                  *)
EventPromotes ==
  \A w \in Workflows : wf[w].status = "suspended" =>
    ~(Names[w] \subseteq DOMAIN results[w])

(* context.go on WaitForEvent: replay after the event or the timeout gives *)
(* its result - a workflow whose steps do not fail is never retried.       *)
WaitIsNoFailure == \A w \in Workflows : wf[w].attempts = 0

(* context.go on WaitForEvent: replay after event delivery returns the     *)
(* payload of the event - nothing replaces it.                             *)
EventIsKept ==
  [][\A w \in Workflows : \A n \in DOMAIN results[w] :
       results[w][n].tag = "event" =>
         n \in DOMAIN results'[w] /\ results'[w][n] = results[w][n]]_allVars
=============================================================================
