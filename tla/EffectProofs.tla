---------------------------- MODULE EffectProofs ----------------------------
(***************************************************************************)
(* What one step of Steps.tla does, by what it does to the tables and to   *)
(* the context of one worker: the lemmas that the proofs of ReplayProofs   *)
(* and SleepsProofs are made of.                                           *)
(***************************************************************************)
EXTENDS StepsProofs

-----------------------------------------------------------------------------
(* What a goroutine does to the context of its worker                      *)

(* Thread t of worker p becomes th, and nothing else of the engine changes. *)
Alters(p, t, th) ==
  /\ t \in DOMAIN run[p].thread
  /\ Becomes(run[p], run'[p], t, th)
  /\ run' = [run EXCEPT ![p] = run'[p]]
  /\ UNCHANGED vars

(* The execution of worker p ends with o.                                  *)
Quits(p, o) == Return(p, o) /\ run' = [run EXCEPT ![p] = NoRun]

(* Thread t returns the error o, at the step at and told what view says.   *)
Leaves(p, t, o, at, view) ==
  IF t = 1 THEN Quits(p, o)
  ELSE \E th : /\ Alters(p, t, th) /\ run'[p].view = view
               /\ th.at = at /\ th.loc = "done" /\ th.err = o

(* Thread t goes to a place of the step at, or of the one after it.        *)
Goes(p, t, loc, at, view) ==
  \E th : /\ Alters(p, t, th) /\ run'[p].view = view
          /\ th.at = at /\ th.loc = loc /\ th.err = run[p].thread[t].err

Fails(p, t) ==
  \E o : /\ ErrOK(o, SignalOf(p)) /\ o.kind \notin {"none", "suspend"}
         /\ Leaves(p, t, o, run[p].thread[t].at, run[p].view)
         /\ UNCHANGED <<results, subs>>

Enters(p, t) ==
  /\ run[p].thread[t].loc = "enter"
  /\ Goes(p, t, "lookup", run[p].thread[t].at, run[p].view)
  /\ UNCHANGED <<results, subs>>

Misses(p, t) ==
  /\ run[p].thread[t].loc = "lookup"
  /\ NameHere(p, t) \notin DOMAIN results[task[p].id]
  /\ Goes(p, t, "fn", run[p].thread[t].at, run[p].view)
  /\ UNCHANGED <<results, subs>>

Computes(p, t) ==
  /\ run[p].thread[t].loc = "fn" /\ Step(p, t).kind # "wait"
  /\ \E th : /\ Alters(p, t, th) /\ run'[p].view = run[p].view
             /\ th.at = run[p].thread[t].at /\ th.loc = "save"
             /\ th.err = run[p].thread[t].err
             /\ th.val.tag = "time" <=> Step(p, t).kind = "sleep"
  /\ UNCHANGED <<results, subs>>

(* The step has a result, of this execution or of an earlier one.          *)
Finds(p, t, x) ==
  /\ run[p].thread[t].loc = "lookup" /\ UNCHANGED <<results, subs>>
  /\ \/ /\ NameHere(p, t) \in DOMAIN run[p].cache
        /\ x = run[p].cache[NameHere(p, t)]
     \/ /\ NameHere(p, t) \in DOMAIN results[task[p].id]
        /\ x = results[task[p].id][NameHere(p, t)]

Told(p, t, x) ==
  \/ Finds(p, t, x)
  \/ Saves(p, t) /\ x = run[p].thread[t].val

Learns(p, t) ==
  LET next == run[p].thread[t].at + 1 IN
  \E x \in StepResult :
    LET view == Put(run[p].view, Site(p, t), x) IN
    /\ Told(p, t, x)
    /\ IF Step(p, t).kind = "sleep" /\ now < x.n
       THEN Leaves(p, t, [kind |-> "suspend", resumeAt |-> x.n], next, view)
       ELSE Goes(p, t, "enter", next, view)

Waits(p, t) ==
  /\ SubscribesTo(p, t)
  /\ \E n \in 0..Horizon :
       Leaves(p, t, [kind |-> "suspend", resumeAt |-> n],
              run[p].thread[t].at, run[p].view)

(* The function of a step that is no wait returns a SuspendError.          *)
Yields(p, t) ==
  /\ run[p].thread[t].loc = "fn" /\ Step(p, t).kind \in {"run", "get"}
  /\ \E n \in 0..Horizon :
       Leaves(p, t, [kind |-> "suspend", resumeAt |-> n],
              run[p].thread[t].at, run[p].view)
  /\ UNCHANGED <<results, subs>>

Effect(p, t) ==
  \/ Fails(p, t) \/ Enters(p, t) \/ Misses(p, t) \/ Computes(p, t)
  \/ Learns(p, t) \/ Waits(p, t) \/ Yields(p, t)

LEMMA AltersForm ==
  ASSUME RunsOK, NEW p \in Workers, NEW t \in DOMAIN run[p].thread, NEW th, NEW q,
         Becomes(run[p], q, t, th), Continues(p, q)
  PROVE  Alters(p, t, th) /\ run'[p] = q
<1>1. run'[p] = q /\ run' = [run EXCEPT ![p] = q] /\ UNCHANGED vars
  BY DEF RunsOK, Continues
<1> QED
  BY <1>1 DEF Alters

(* An error of the main thread ends the execution, one of a branch does    *)
(* not.                                                                    *)
LEMMA RaiseEffect ==
  ASSUME RunsOK, NEW p \in Workers, NEW t, AtStep(p, t), NEW r, NEW th,
         Becomes(run[p], r, t, th), IsThread(th), NEW o, Raise(p, t, r, o)
  PROVE  Leaves(p, t, o, th.at, r.view)
<1>1. CASE t = 1
  BY <1>1 DEF Raise, Forget, Leaves, Quits
<1>2. CASE t # 1
  <2> DEFINE th2 == Returned(th, o)
             q == [r EXCEPT !.thread[t] = [@ EXCEPT !.loc = "done", !.err = o,
                                                     !.val = NoResult]]
  <2>1. IsRun(run[p]) /\ t \in DOMAIN run[p].thread
    BY AtStepForm DEF AtStep
  <2>2. IsRun(r) /\ Swapped(run[p], r, t, th)
    BY <2>1, BecomesRun
  <2>3. r.thread[t] = th
    BY <2>2 DEF Swapped
  <2>4. q = WithThread(r, t, th2)
    BY <2>3 DEF WithThread, Returned
  <2>5. Continues(p, q)
    BY <1>2 DEF Raise
  <2>6. th2.at = th.at /\ th2.loc = "done" /\ th2.err = o
    BY DEF IsThread, Returned
  <2> HIDE DEF th2, q
  <2>7. Becomes(r, q, t, th2) /\ q.view = r.view
    BY <2>2, <2>4, MoveForm
  <2>8. Becomes(run[p], q, t, th2)
    BY <2>1, <2>7, BecomesAgain
  <2>9. Alters(p, t, th2) /\ run'[p] = q
    BY <2>1, <2>5, <2>8, AltersForm
  <2> QED
    BY <1>2, <2>6, <2>7, <2>9 DEF Leaves
<1> QED
  BY <1>1, <1>2

LEMMA RaiseHereEffect ==
  ASSUME RunsOK, NEW p \in Workers, NEW t, AtStep(p, t), NEW o,
         Raise(p, t, run[p], o)
  PROVE  Leaves(p, t, o, run[p].thread[t].at, run[p].view)
<1>1. IsRun(run[p]) /\ IsThread(run[p].thread[t])
  BY AtStepForm
<1>2. Becomes(run[p], run[p], t, run[p].thread[t])
  BY <1>1 DEF IsRun, Becomes
<1> QED
  BY <1>1, <1>2, RaiseEffect

LEMMA EnterEffect ==
  ASSUME RunsOK, NEW p \in Workers, NEW t, AtStep(p, t), EnterStep(p, t)
  PROVE  Effect(p, t)
<1>0. run[p].thread[t].loc = "enter" /\ UNCHANGED <<results, subs>>
  BY DEF EnterStep, InStep
<1>1. CASE NextName(p, t) \in run[p].seen
  <2>1. Raise(p, t, run[p], OutcomeOf("transient"))
    BY <1>1 DEF EnterStep
  <2>2. Leaves(p, t, OutcomeOf("transient"), run[p].thread[t].at, run[p].view)
    BY <2>1, RaiseHereEffect
  <2>3. /\ ErrOK(OutcomeOf("transient"), SignalOf(p))
        /\ OutcomeOf("transient").kind \notin {"none", "suspend"}
    BY ErrForms DEF OutcomeOf
  <2> QED
    BY <1>0, <2>2, <2>3 DEF Fails, Effect
<1>2. CASE NextName(p, t) \notin run[p].seen /\ SignalOf(p) = "cancel_requested"
  <2> DEFINE th == Counted(run[p].thread[t], Count(p, t), "enter")
  <2>1. Raise(p, t, Tracked(p, t, "enter"), OutcomeOf("cancelled"))
    BY <1>2 DEF EnterStep, SignalOf
  <2>2. /\ Becomes(run[p], Tracked(p, t, "enter"), t, th)
        /\ IsThread(th) /\ th.at = run[p].thread[t].at
    BY <1>0, TrackedMove
  <2>3. Tracked(p, t, "enter").view = run[p].view
    BY AtStepForm DEF Tracked, IsRun
  <2> HIDE DEF th
  <2>4. Leaves(p, t, OutcomeOf("cancelled"), run[p].thread[t].at, run[p].view)
    BY <2>1, <2>2, <2>3, RaiseEffect
  <2>5. /\ ErrOK(OutcomeOf("cancelled"), SignalOf(p))
        /\ OutcomeOf("cancelled").kind \notin {"none", "suspend"}
    BY <1>2, ErrForms DEF OutcomeOf
  <2> QED
    BY <1>0, <2>4, <2>5 DEF Fails, Effect
<1>3. CASE NextName(p, t) \notin run[p].seen /\ SignalOf(p) # "cancel_requested"
  <2> DEFINE th == Counted(run[p].thread[t], Count(p, t), "lookup")
  <2>1. Continues(p, Tracked(p, t, "lookup"))
    BY <1>3 DEF EnterStep, SignalOf
  <2>2. /\ Becomes(run[p], Tracked(p, t, "lookup"), t, th)
        /\ th.at = run[p].thread[t].at /\ th.loc = "lookup"
        /\ th.err = run[p].thread[t].err
    BY <1>0, TrackedMove
  <2>3. Tracked(p, t, "lookup").view = run[p].view
    BY AtStepForm DEF Tracked, IsRun
  <2> HIDE DEF th
  <2>4. Alters(p, t, th) /\ run'[p].view = run[p].view
    BY <2>1, <2>2, <2>3, AltersForm DEF AtStep
  <2> QED
    BY <1>0, <2>2, <2>4 DEF Goes, Enters, Effect
<1> QED
  BY <1>1, <1>2, <1>3

LEMMA ObserveEffect ==
  ASSUME RunsOK, NEW p \in Workers, NEW t, AtStep(p, t),
         run[p].thread[t].loc \in {"lookup", "save"},
         NEW x \in StepResult, Observe(p, t, x), Told(p, t, x)
  PROVE  Effect(p, t)
<1> DEFINE view == Put(run[p].view, Site(p, t), x)
           th == Advanced(run[p].thread[t])
           next == run[p].thread[t].at + 1
           told == [run[p] EXCEPT
                      !.thread[t] = [@ EXCEPT !.at = run[p].thread[t].at + 1,
                                              !.loc = "enter", !.val = NoResult],
                      !.view = Put(@, Site(p, t), x)]
           o == [kind |-> "suspend", resumeAt |-> x.n]
<1>1. IF Step(p, t).kind = "sleep" /\ now < x.n
      THEN Raise(p, t, told, o) ELSE Continues(p, told)
  BY DEF Observe
<1>2. /\ IsRun(run[p]) /\ IsThread(run[p].thread[t]) /\ t \in DOMAIN run[p].thread
      /\ ThreadAt(run[p].thread[t], Code(p, t))
  BY AtStepForm DEF AtStep
<1>3. Len(Code(p, t)) \in Nat /\ DOMAIN Code(p, t) = 1..Len(Code(p, t))
  BY AtStepCode
<1>4. told = WithView(run[p], t, th, view)
  BY <1>2 DEF WithView, Advanced, IsRun
<1> HIDE DEF told, th, view, o
<1>5. /\ IsThread(th) /\ th.loc = "enter" /\ th.err = run[p].thread[t].err
      /\ th.at = next
  BY <1>2, <1>3, ObserveMove DEF th
<1>6. Becomes(run[p], told, t, th) /\ told.view = view
  BY <1>2, <1>4, ViewForm
<1>7. CASE Step(p, t).kind = "sleep" /\ now < x.n
  <2>1. Leaves(p, t, o, next, view)
    BY <1>1, <1>5, <1>6, <1>7, RaiseEffect
  <2> QED
    BY <1>7, <2>1 DEF Learns, Effect, o, view
<1>8. CASE ~(Step(p, t).kind = "sleep" /\ now < x.n)
  <2>1. Alters(p, t, th) /\ run'[p] = told
    BY <1>1, <1>2, <1>6, <1>8, AltersForm
  <2>2. Goes(p, t, "enter", next, view)
    BY <1>5, <1>6, <2>1 DEF Goes
  <2> QED
    BY <1>8, <2>2 DEF Learns, Effect, view
<1> QED
  BY <1>7, <1>8

LEMMA PlaceEffect ==
  ASSUME RunsOK, NEW p \in Workers, NEW t, AtStep(p, t),
         run[p].thread[t].loc \in {"lookup", "fn"},
         NEW loc \in {"fn", "save"}, NEW v \in StepResult \cup {NoResult},
         loc = "save" => v \in StepResult, Continues(p, Moved(p, t, loc, v))
  PROVE  \E th : /\ Alters(p, t, th) /\ run'[p].view = run[p].view
                 /\ th.at = run[p].thread[t].at /\ th.loc = loc
                 /\ th.err = run[p].thread[t].err /\ th.val = v
<1> DEFINE th == Placed(run[p].thread[t], loc, v)
           q == Moved(p, t, loc, v)
<1>1. q = WithThread(run[p], t, th)
  BY DEF Moved, WithThread, Placed
<1>2. /\ ThreadAt(run[p].thread[t], Code(p, t)) /\ t \in DOMAIN run[p].thread
      /\ IsRun(run[p]) /\ IsThread(run[p].thread[t])
  BY AtStepForm DEF AtStep
<1>3. th.val = v
  BY <1>2 DEF IsThread, Placed
<1> HIDE DEF th, q
<1>4. /\ th.loc = loc /\ th.err = run[p].thread[t].err
      /\ th.at = run[p].thread[t].at
  BY <1>2, LocMove DEF th
<1>5. Becomes(run[p], q, t, th) /\ q.view = run[p].view
  BY <1>1, <1>2, MoveForm
<1>6. Alters(p, t, th) /\ run'[p] = q
  BY <1>2, <1>5, AltersForm DEF q
<1> QED
  BY <1>3, <1>4, <1>5, <1>6

LEMMA LookupEffect ==
  ASSUME RunsOK, NEW p \in Workers, NEW t, AtStep(p, t), Lookup(p, t),
         Known(results[task[p].id], Names[task[p].id])
  PROVE  Effect(p, t)
<1> DEFINE found == IF Cached(p, t) THEN run[p].cache ELSE results[task[p].id]
           name == NameHere(p, t)
<1>1. run[p].thread[t].loc = "lookup" /\ UNCHANGED <<results, subs>>
  BY DEF Lookup, InStep
<1>2. IF name \in DOMAIN found THEN Observe(p, t, found[name])
                               ELSE Continues(p, Moved(p, t, "fn", NoResult))
  BY DEF Lookup
<1>3. Known(run[p].cache, Names[task[p].id])
  BY AtStepForm DEF DataAt
<1>4. CASE name \in DOMAIN found
  <2> DEFINE x == found[name]
  <2>1. x \in StepResult
    BY <1>3, <1>4, KnownForm
  <2>2. Finds(p, t, x)
    BY <1>1, <1>4 DEF Finds, Cached
  <2>3. Observe(p, t, x)
    BY <1>2, <1>4
  <2> HIDE DEF x
  <2> QED
    BY <1>1, <2>1, <2>2, <2>3, ObserveEffect DEF Told
<1>5. CASE name \notin DOMAIN found
  <2>1. name \notin DOMAIN results[task[p].id]
    BY <1>5 DEF Cached
  <2>2. Continues(p, Moved(p, t, "fn", NoResult))
    BY <1>2, <1>5
  <2>3. \E th : /\ Alters(p, t, th) /\ run'[p].view = run[p].view
                /\ th.at = run[p].thread[t].at /\ th.loc = "fn"
                /\ th.err = run[p].thread[t].err
    BY <1>1, <2>2, PlaceEffect
  <2> QED
    BY <1>1, <2>1, <2>3 DEF Goes, Misses, Effect
<1> QED
  BY <1>4, <1>5

LEMMA RunFnEffect ==
  ASSUME RunsOK, NEW p \in Workers, NEW t, AtStep(p, t), RunFn(p, t)
  PROVE  Effect(p, t)
<1>1. /\ run[p].thread[t].loc = "fn" /\ UNCHANGED <<results, subs>>
      /\ Step(p, t).kind \in {"run", "get", "sleep", "wait"}
  BY AtStepCode DEF RunFn, InStep
<1>2. PICK x : /\ \/ /\ \E n \in Values : x = Result("value", n)
                     /\ Step(p, t).kind \in {"run", "get"}
                  \/ /\ x = Result("time", At(now + Step(p, t).span))
                     /\ Step(p, t).kind = "sleep"
               /\ Continues(p, Moved(p, t, "save", x))
  <2>1. CASE Step(p, t).kind \in {"run", "get"}
    BY <2>1 DEF RunFn
  <2>2. CASE Step(p, t).kind = "sleep"
    BY <2>2 DEF RunFn
  <2>3. CASE Step(p, t).kind = "wait"
    BY <2>3 DEF RunFn
  <2> QED
    BY <1>1, <2>1, <2>2, <2>3
<1>3. At(now + Step(p, t).span) \in 0..Horizon
  BY AtType DEF At
<1>4. x \in StepResult
  BY <1>2, <1>3, ResultTimes
<1>5. x.tag = "time" <=> Step(p, t).kind = "sleep"
  BY <1>2 DEF Result
<1>6. PICK th : /\ Alters(p, t, th) /\ run'[p].view = run[p].view
                /\ th.at = run[p].thread[t].at /\ th.loc = "save"
                /\ th.err = run[p].thread[t].err /\ th.val = x
  BY <1>1, <1>2, <1>4, PlaceEffect
<1> QED
  BY <1>1, <1>2, <1>5, <1>6 DEF Computes, Effect

LEMMA FnFailsEffect ==
  ASSUME RunsOK, NEW p \in Workers, NEW t, AtStep(p, t), FnFails(p, t)
  PROVE  Effect(p, t)
<1>1. PICK o \in FnErrors(p) : Raise(p, t, run[p], o)
  BY DEF FnFails
<1>2. ErrOK(o, SignalOf(p)) /\ o.kind # "none"
  BY FnErrorsOK
<1>3. Leaves(p, t, o, run[p].thread[t].at, run[p].view)
  BY <1>1, RaiseHereEffect
<1>4. /\ InStep(p, t, "fn") /\ Step(p, t).kind \in {"run", "get"}
      /\ UNCHANGED <<results, subs>>
  BY DEF FnFails
<1>5. CASE o.kind # "suspend"
  BY <1>2, <1>3, <1>4, <1>5 DEF Fails, Effect
<1>6. CASE o.kind = "suspend"
  <2>1. o.resumeAt \in 0..Horizon /\ o = [kind |-> "suspend", resumeAt |-> o.resumeAt]
    BY <1>2, <1>6 DEF ErrOK, Outcome
  <2>2. \E n \in 0..Horizon :
          Leaves(p, t, [kind |-> "suspend", resumeAt |-> n],
                 run[p].thread[t].at, run[p].view)
    BY <1>3, <2>1
  <2> QED
    BY <1>4, <2>2 DEF Yields, Effect, InStep
<1> QED
  BY <1>5, <1>6

LEMMA WaitEffect ==
  ASSUME RunsOK, NEW p \in Workers, NEW t, AtStep(p, t), WaitFn(p, t)
  PROVE  Effect(p, t)
<1> DEFINE at == At(now + Step(p, t).span)
<1>1. at \in 0..Horizon
  BY AtType
<1>2. /\ Subscribes(p, t, at) /\ InStep(p, t, "fn") /\ Step(p, t).kind = "wait"
  BY DEF WaitFn
<1>3. CASE subs[Step(p, t).key] # NoSub
  <2>1. Raise(p, t, run[p], OutcomeOf("transient")) /\ UNCHANGED <<results, subs>>
    BY <1>2, <1>3 DEF Subscribes
  <2>2. /\ ErrOK(OutcomeOf("transient"), SignalOf(p))
        /\ OutcomeOf("transient").kind \notin {"none", "suspend"}
    BY ErrForms DEF OutcomeOf
  <2> QED
    BY <2>1, <2>2, RaiseHereEffect DEF Fails, Effect
<1>4. CASE subs[Step(p, t).key] = NoSub
  <2> DEFINE o == [kind |-> "suspend", resumeAt |-> at]
  <2>1. Raise(p, t, run[p], o) /\ SubscribesTo(p, t)
    BY <1>2, <1>4 DEF Subscribes, SubscribesTo
  <2> HIDE DEF o
  <2>2. Leaves(p, t, o, run[p].thread[t].at, run[p].view)
    BY <2>1, RaiseHereEffect
  <2> QED
    BY <1>1, <2>1, <2>2 DEF Waits, Effect, o
<1> QED
  BY <1>3, <1>4

LEMMA SaveEffect ==
  ASSUME RunsOK, NEW p \in Workers, NEW t, AtStep(p, t), SaveStep(p, t)
  PROVE  Effect(p, t)
<1> DEFINE x == run[p].thread[t].val
<1>1. run[p].thread[t].loc = "save" /\ Observe(p, t, x) /\ Saves(p, t)
  BY DEF SaveStep, InStep, Saves
<1>2. x \in StepResult
  BY <1>1, AtStepForm DEF ThreadAt
<1> QED
  BY <1>1, <1>2, ObserveEffect DEF Told

LEMMA StepStoreFailsEffect ==
  ASSUME RunsOK, NEW p \in Workers, NEW t, AtStep(p, t), StepStoreFails(p, t)
  PROVE  Effect(p, t)
<1> DEFINE o == OutcomeOf("transient")
<1>1. o.kind \notin {"none", "suspend"} /\ ErrOK(o, SignalOf(p))
  BY ErrForms DEF OutcomeOf
<1>2. UNCHANGED <<results, subs>>
  BY DEF StepStoreFails
<1> HIDE DEF o
<1>3. CASE InStep(p, t, "enter") /\ Raise(p, t, Tracked(p, t, "enter"), o)
  <2> DEFINE th == Counted(run[p].thread[t], Count(p, t), "enter")
  <2>1. /\ Becomes(run[p], Tracked(p, t, "enter"), t, th)
        /\ IsThread(th) /\ th.at = run[p].thread[t].at
    BY <1>3, TrackedMove DEF InStep
  <2>2. Tracked(p, t, "enter").view = run[p].view
    BY AtStepForm DEF Tracked, IsRun
  <2> HIDE DEF th
  <2>3. Leaves(p, t, o, run[p].thread[t].at, run[p].view)
    BY <1>3, <2>1, <2>2, RaiseEffect
  <2> QED
    BY <1>1, <1>2, <2>3 DEF Fails, Effect
<1>4. CASE Raise(p, t, run[p], o)
  BY <1>1, <1>2, <1>4, RaiseHereEffect DEF Fails, Effect
<1> QED
  BY <1>3, <1>4 DEF StepStoreFails, o

LEMMA GoroutineEffect ==
  ASSUME TypeOK, StepsInv, NEW p \in Workers, NEW t \in DOMAIN run[p].thread,
         Goroutine(p, t)
  PROVE  AtStep(p, t) /\ pc[p] = "execute" /\ Effect(p, t)
<1>1. AtStep(p, t) /\ pc[p] = "execute"
  BY GoroutineWorks
<1>2. RunsOK /\ Known(results[task[p].id], Names[task[p].id])
  BY <1>1 DEF StepsInv, TablesOK, AtStep
<1>3. CASE EnterStep(p, t)
  BY <1>1, <1>2, <1>3, EnterEffect
<1>4. CASE Lookup(p, t)
  BY <1>1, <1>2, <1>4, LookupEffect
<1>5. CASE RunFn(p, t)
  BY <1>1, <1>2, <1>5, RunFnEffect
<1>6. CASE FnFails(p, t)
  BY <1>1, <1>2, <1>6, FnFailsEffect
<1>7. CASE WaitFn(p, t)
  BY <1>1, <1>2, <1>7, WaitEffect
<1>8. CASE SaveStep(p, t)
  BY <1>1, <1>2, <1>8, SaveEffect
<1>9. CASE StepStoreFails(p, t)
  BY <1>1, <1>2, <1>9, StepStoreFailsEffect
<1> QED
  BY <1>1, <1>3, <1>4, <1>5, <1>6, <1>7, <1>8, <1>9 DEF Goroutine

-----------------------------------------------------------------------------
(* What the other steps of a worker do                                     *)

(* An execution begins: nothing was run yet.                               *)
Starts(p) ==
  /\ run' = [run EXCEPT ![p] = run'[p]]
  /\ DOMAIN run'[p].thread = {1}
  /\ run'[p].thread[1].at = 1 /\ run'[p].thread[1].loc = "enter"
  /\ run'[p].cache = results[task[p].id] /\ run'[p].view = <<>>
  /\ UNCHANGED <<vars, results, subs>>

(* The branches of a Parallel begin.                                       *)
Splits(p) ==
  /\ run' = [run EXCEPT ![p] = run'[p]]
  /\ run[p].thread[1].loc = "enter"
  /\ run'[p].thread[1].at = Here(p) /\ run'[p].thread[1].loc = "join"
  /\ \A t \in DOMAIN run'[p].thread :
       /\ t \in Nat
       /\ t # 1 => /\ run'[p].thread[t].at = 1 /\ run'[p].thread[t].loc = "enter"
                   /\ run'[p].thread[t].err = NoOutcome
  /\ run'[p].cache = run[p].cache /\ run'[p].view = run[p].view
  /\ UNCHANGED <<vars, results, subs>>

(* All branches have returned.                                             *)
Joinable(p) ==
  /\ Forked(p)
  /\ \A t \in DOMAIN run[p].thread \ {1} :
       \/ run[p].thread[t].loc = "done"
       \/ run[p].thread[t].at \notin DOMAIN Code(p, t)

Resumes(p) ==
  /\ Joinable(p) /\ Joined(run[p].thread) = NoOutcome
  /\ run' = [run EXCEPT ![p] = run'[p]]
  /\ DOMAIN run'[p].thread = {1}
  /\ run'[p].thread[1].at = Here(p) + 1 /\ run'[p].thread[1].loc = "enter"
  /\ run'[p].cache = run[p].cache /\ run'[p].view = run[p].view
  /\ UNCHANGED <<vars, results, subs>>

GivesUp(p) ==
  /\ Joinable(p) /\ Joined(run[p].thread) # NoOutcome
  /\ Quits(p, Joined(run[p].thread)) /\ UNCHANGED <<results, subs>>

Completes(p) ==
  /\ Here(p) \notin DOMAIN Main(p)
  /\ Quits(p, OutcomeOf("completed")) /\ UNCHANGED <<results, subs>>

(* The runner before and after the execution.                              *)
Around(p) ==
  /\ \/ run' = [run EXCEPT ![p] = NoRun]
     \/ /\ run' = run /\ run[p] = NoRun
     \/ /\ run' = run /\ task'[p] = task[p] /\ pc'[p] = "execute"
  /\ pc'[p] = "resolve" => outcome'[p].kind = "cancelled"
  /\ UNCHANGED <<results, subs>>

WorkerEffect(p) ==
  \/ Starts(p) /\ task[p].id \in Workflows /\ pc[p] = "signal"
  \/ Around(p)
  \/ /\ pc[p] = "execute" /\ task[p].id \in Workflows
     /\ ContextAt(run[p], task[p].id, SignalOf(p))
     /\ \/ \E t \in DOMAIN run[p].thread : AtStep(p, t) /\ Effect(p, t)
        \/ Splits(p) \/ Resumes(p) \/ GivesUp(p) \/ Completes(p)

LEMMA StartEffect ==
  ASSUME RunsOK, NEW p \in Workers, task[p].id \in Workflows, Prefetch(p)
  PROVE  Starts(p)
<1> DEFINE th == Thread(Root, "enter")
<1>1. run[p] = NoRun /\ p \in DOMAIN run
  BY DEF Prefetch, RunsOK
<1>2. run'[p] = [NoRun EXCEPT !.thread = <<th>>, !.cache = results[task[p].id]]
  BY <1>1 DEF Prefetch
<1>3. /\ run'[p].thread = <<th>> /\ run'[p].cache = results[task[p].id]
      /\ run'[p].view = <<>>
  BY <1>2 DEF NoRun
<1>4. th.at = 1 /\ th.loc = "enter"
  BY DEF Thread
<1> HIDE DEF th
<1>5. DOMAIN run'[p].thread = {1} /\ run'[p].thread[1] = th
  BY <1>3
<1>6. run' = [run EXCEPT ![p] = run'[p]] /\ UNCHANGED <<vars, results, subs>>
  BY <1>1 DEF Prefetch
<1> QED
  BY <1>3, <1>4, <1>5, <1>6 DEF Starts

LEMMA SplitEffect ==
  ASSUME RunsOK, NEW p \in Workers, task[p].id \in Workflows,
         ContextAt(run[p], task[p].id, SignalOf(p)), Fork(p)
  PROVE  Splits(p)
<1> DEFINE r == run[p]
           th == r.thread[1]
           branches == Program[task[p].id][th.at].branches
           main == [th EXCEPT !.loc = "join"]
           forked == [b \in DOMAIN branches |-> Scope(branches[b].name)]
           q == [r EXCEPT !.thread = <<main>> \o forked]
<1>1. /\ th.loc = "enter" /\ th.at \in DOMAIN Program[task[p].id]
      /\ Program[task[p].id][th.at].kind = "parallel"
      /\ Continues(p, q) /\ UNCHANGED <<results, subs>>
  BY DEF Fork, InStep, Step, Code, Main, Here
<1>2. IsRun(r) /\ IsThread(th)
  BY RunDomain DEF ContextAt, PlacedAt
<1>3. Len(branches) \in Nat /\ DOMAIN branches = 1..Len(branches)
  BY <1>1, BranchCode
<1>4. main.at = th.at /\ main.loc = "join"
  BY <1>2 DEF IsThread
<1>5. /\ q.thread = <<main>> \o forked /\ q.cache = r.cache /\ q.view = r.view
  BY <1>2 DEF IsRun
<1>6. \A b \in DOMAIN branches :
        forked[b].at = 1 /\ forked[b].loc = "enter" /\ forked[b].err = NoOutcome
  BY DEF Scope, Thread
<1>7. forked \in Seq(Range(forked) \cup {main}) /\ Len(forked) = Len(branches)
  <2> DEFINE S == Range(forked) \cup {main}
             n == Len(branches)
  <2>1. n \in Nat /\ forked = [b \in 1..n |-> forked[b]]
    BY <1>3
  <2>2. \A b \in 1..n : forked[b] \in S
    BY <2>1 DEF Range
  <2> HIDE DEF S, n, forked
  <2>3. forked \in [1..n -> S]
    BY <2>1, <2>2
  <2>4. forked \in Seq(S) /\ Len(forked) = n
    BY <2>1, <2>3, SeqOfFunction
  <2> QED
    BY <2>4 DEF S, n
<1> HIDE DEF forked, main, q, branches
<1>8. InFront(q.thread, main, forked)
  <2> DEFINE S == Range(forked) \cup {main}
  <2>1. main \in S /\ forked \in Seq(S)
    BY <1>7
  <2> HIDE DEF S
  <2> QED
    BY <1>5, <2>1, ConsForm
<1>9. q.thread[1] = main
  BY <1>8 DEF InFront
<1>0. \A t \in DOMAIN q.thread : t \in Nat
  BY <1>3, <1>7, <1>8 DEF InFront
<1>10. \A t \in DOMAIN q.thread : t # 1 =>
         /\ q.thread[t].at = 1 /\ q.thread[t].loc = "enter"
         /\ q.thread[t].err = NoOutcome
  <2> SUFFICES ASSUME NEW t \in DOMAIN q.thread, t # 1
               PROVE  /\ q.thread[t].at = 1 /\ q.thread[t].loc = "enter"
                      /\ q.thread[t].err = NoOutcome
    OBVIOUS
  <2>1. t \in 1..(Len(branches) + 1)
    BY <1>7, <1>8 DEF InFront
  <2>2. t - 1 \in 1..Len(branches) /\ (t - 1) + 1 = t
    BY <1>3, <2>1
  <2>3. q.thread[(t - 1) + 1] = forked[t - 1]
    BY <1>7, <1>8, <2>2 DEF InFront
  <2> QED
    BY <1>3, <1>6, <2>2, <2>3
<1>11. run' = [run EXCEPT ![p] = q] /\ run'[p] = q /\ UNCHANGED vars
  BY <1>1 DEF Continues, RunsOK
<1> QED
  BY <1>0, <1>1, <1>4, <1>5, <1>9, <1>10, <1>11 DEF Splits, Here

LEMMA JoinEffect ==
  ASSUME RunsOK, NEW p \in Workers, task[p].id \in Workflows,
         ContextAt(run[p], task[p].id, SignalOf(p)), Join(p)
  PROVE  Resumes(p) \/ GivesUp(p)
<1> DEFINE r == run[p]
           th == r.thread[1]
           main == [th EXCEPT !.loc = "enter", !.at = Here(p) + 1]
           q == [r EXCEPT !.thread = <<main>>]
<1>1. IsRun(r) /\ IsThread(th)
  BY RunDomain DEF ContextAt, PlacedAt
<1>2. PICK n \in Nat \ {0} : r.thread = [i \in 1..n |-> r.thread[i]]
  BY <1>1 DEF IsRun
<1>3. DOMAIN r.thread = 1..n /\ Len(r.thread) = n
  BY <1>2
<1>4. DOMAIN r.thread \ {1} = 2..Len(r.thread)
  BY <1>3
<1>5. Joinable(p) /\ UNCHANGED <<results, subs>>
  BY <1>4 DEF Join, Joinable
<1>6. CASE Joined(r.thread) # NoOutcome
  BY <1>5, <1>6 DEF Join, Forget, GivesUp, Quits
<1>7. CASE Joined(r.thread) = NoOutcome
  <2>1. Continues(p, q)
    BY <1>7 DEF Join
  <2>2. main.at = Here(p) + 1 /\ main.loc = "enter"
    BY <1>1 DEF IsThread
  <2>3. q.thread = <<main>> /\ q.cache = r.cache /\ q.view = r.view
    BY <1>1 DEF IsRun
  <2> HIDE DEF main, q
  <2>4. DOMAIN q.thread = {1} /\ q.thread[1] = main
    BY <2>3
  <2>5. run' = [run EXCEPT ![p] = q] /\ run'[p] = q /\ UNCHANGED vars
    BY <2>1 DEF Continues, RunsOK
  <2> QED
    BY <1>5, <1>7, <2>2, <2>3, <2>4, <2>5 DEF Resumes
<1> QED
  BY <1>6, <1>7

LEMMA RoutineEffect ==
  ASSUME TypeOK, RunsOK, NEW p \in Workers, Routine(p), UNCHANGED stepVars
  PROVE  Around(p)
<1>1. pc[p] \notin {"signal", "execute"} /\ pc'[p] # "resolve"
  BY DEF Routine, DropUnregistered, DropHeld, Acquire, Take,
     RecordCancelled, RecordPermanent, RecordSuspend, RecordExhausted,
     RecordRetry, RecordCompleted, Conflict, Resolving, Release, TypeOK
<1>2. run[p] = NoRun
  BY <1>1 DEF RunsOK, RunOK
<1> QED
  BY <1>1, <1>2 DEF Around, stepVars

LEMMA WorkerEffects ==
  ASSUME TypeOK, StepsInv, NEW p \in Workers, StepsWorker(p)
  PROVE  WorkerEffect(p)
<1>0. RunsOK
  BY DEF StepsInv
<1>1. CASE Prefetch(p)
  <2>1. pc[p] = "signal"
    BY <1>1 DEF Prefetch
  <2>2. task[p].id \in Workflows
    BY <2>1 DEF TypeOK, Copy
  <2> QED
    BY <1>0, <1>1, <2>1, <2>2, StartEffect DEF WorkerEffect
<1>2. CASE AfterPrefetch(p)
  <2>1. CASE ObserveCancel(p) /\ Forget(p)
    <3>1. outcome'[p] = OutcomeOf("cancelled")
      BY <2>1 DEF ObserveCancel, Return, TypeOK
    <3>2. outcome'[p].kind = "cancelled"
      BY <3>1 DEF OutcomeOf
    <3> QED
      BY <1>2, <2>1, <3>2 DEF AfterPrefetch, Forget, Around, WorkerEffect
  <2>2. CASE BeginExecute(p) /\ UNCHANGED run
    <3>1. pc'[p] = "execute" /\ task'[p] = task[p]
      BY <2>2 DEF BeginExecute, TypeOK
    <3> QED
      BY <1>2, <2>2, <3>1 DEF AfterPrefetch, Around, WorkerEffect
  <2> QED
    BY <1>2, <2>1, <2>2 DEF AfterPrefetch
<1>3. ASSUME NEW t \in DOMAIN run[p].thread, Goroutine(p, t)
      PROVE  WorkerEffect(p)
  <2>1. AtStep(p, t) /\ pc[p] = "execute" /\ Effect(p, t)
    BY <1>3, GoroutineEffect
  <2> QED
    BY <2>1 DEF WorkerEffect, AtStep
<1>4. CASE Fork(p)
  <2>1. pc[p] = "execute"
    BY <1>4 DEF Fork, InStep
  <2> QED
    BY <1>0, <1>4, <2>1, ContextOf, SplitEffect DEF WorkerEffect
<1>5. CASE Join(p)
  <2>1. pc[p] = "execute"
    BY <1>5 DEF Join
  <2> QED
    BY <1>0, <1>5, <2>1, ContextOf, JoinEffect DEF WorkerEffect
<1>6. CASE Finish(p)
  <2>1. pc[p] = "execute" /\ Completes(p)
    BY <1>6 DEF Finish, Forget, Completes, Quits
  <2> QED
    BY <1>0, <2>1, ContextOf DEF WorkerEffect
<1>7. CASE StepsStoreFails(p)
  <2>1. pc'[p] = "release" /\ run' = [run EXCEPT ![p] = NoRun]
    BY <1>7 DEF StepsStoreFails, Forget, StoreFails, TypeOK
  <2> QED
    BY <1>7, <2>1 DEF StepsStoreFails, Around, WorkerEffect
<1>8. CASE Routine(p) /\ UNCHANGED stepVars
  BY <1>0, <1>8, RoutineEffect DEF WorkerEffect
<1> QED
  BY <1>1, <1>2, <1>3, <1>4, <1>5, <1>6, <1>7, <1>8 DEF StepsWorker, Routine

-----------------------------------------------------------------------------
(* What one step of the engine does to the results                         *)

(* The subscriptions of some keys get an event, or time out.               *)
Delivers ==
  \E K \in SUBSET Keys : \E x \in {Result("event", 1), Result("timeout", 0)} :
    (\A k \in K : subs[k] # NoSub) /\ Deliver(K, x)

(* No worker moves, and the clock goes on.                                 *)
Besides ==
  /\ UNCHANGED <<pc, task, outcome, run>> /\ now' >= now
  /\ Delivers \/ UNCHANGED <<results, subs>>

(* The workers of an engine are gone.                                      *)
Dies(e) ==
  /\ UNCHANGED <<results, subs, now>>
  /\ \A p \in Workers :
       \/ run'[p] = NoRun /\ pc'[p] = "idle"
       \/ /\ run'[p] = run[p] /\ pc'[p] = pc[p] /\ task'[p] = task[p]
          /\ outcome'[p] = outcome[p]

LEMMA StepKinds ==
  ASSUME TypeOK, StepsInv, [StepsNext]_allVars
  PROVE  \/ \E p \in Workers : StepsWorker(p)
         \/ \E e \in Engines : Dies(e)
         \/ Besides
<1>1. now \in Nat
  BY HorizonAssumption DEF TypeOK
<1>2. \A K : WakeSubscribers(K) => UNCHANGED <<pc, task, outcome>> /\ now' = now
  BY DEF WakeSubscribers, Wake, vars, memoryVars
<1>3. ASSUME NEW k \in Keys, SendEvent(k)
      PROVE  Besides
  <2>1. {k} \in SUBSET Keys /\ (\A h \in {k} : subs[h] # NoSub)
        /\ Deliver({k}, Result("event", 1))
    BY <1>3 DEF SendEvent
  <2>2. Delivers
    BY <2>1 DEF Delivers
  <2> QED
    BY <1>1, <1>2, <1>3, <2>2 DEF SendEvent, Besides
<1>4. ASSUME NEW e \in Engines, TimeOutTick(e)
      PROVE  Besides
  <2>0. run' = run
    BY <1>4 DEF TimeOutTick
  <2>1. CASE PromoterFails
    BY <1>1, <2>0, <2>1 DEF PromoterFails, vars, memoryVars, Besides
  <2>2. CASE Deliver(Expired, Result("timeout", 0)) /\ WakeSubscribers(Expired)
    <3>1. Expired \in SUBSET Keys /\ (\A h \in Expired : subs[h] # NoSub)
      BY DEF Expired
    <3>2. Delivers
      BY <2>2, <3>1 DEF Delivers
    <3> QED
      BY <1>1, <1>2, <2>0, <2>2, <3>2 DEF Besides
  <2> QED
    BY <1>4, <2>1, <2>2 DEF TimeOutTick
<1>5. ASSUME NEW e \in Engines, PromoteTick(e)
      PROVE  Besides
  <2>1. UNCHANGED <<pc, task, outcome>> /\ now' = now
    BY <1>5 DEF PromoteTick, PromoterFails, Promote, memoryVars, vars
  <2> QED
    BY <1>1, <1>5, <2>1 DEF PromoteTick, Besides
<1>6. ASSUME NEW e \in Engines, StepsCrash(e)
      PROVE  Dies(e)
  <2> SUFFICES ASSUME NEW p \in Workers
               PROVE  \/ run'[p] = NoRun /\ pc'[p] = "idle"
                      \/ /\ run'[p] = run[p] /\ pc'[p] = pc[p] /\ task'[p] = task[p]
                         /\ outcome'[p] = outcome[p]
    BY <1>6 DEF Dies, StepsCrash, Crash
  <2> QED
    BY <1>6 DEF StepsCrash, Crash
<1>7. ASSUME NEW e \in Engines,
             StepsStop(e) \/ /\ Poll(e) \/ DrainTimeout(e) \/ StartReturns(e) \/ Restart(e)
                             /\ UNCHANGED stepVars
      PROVE  Besides
  BY <1>1, <1>7 DEF StepsStop, Stop, Poll, DrainTimeout, StartReturns, Restart,
     stepVars, Besides
<1>8. CASE \/ \E w \in Workflows : (Submit(w) \/ RequestCancel(w)) /\ UNCHANGED stepVars
           \/ UNCHANGED allVars
  BY <1>1, <1>8 DEF Submit, RequestCancel, memoryVars, stepVars, allVars, vars, Besides
<1>9. CASE PassTime /\ UNCHANGED stepVars
  <2>1. now' = now + 1
    BY <1>9 DEF PassTime, Tick
  <2> QED
    BY <1>1, <1>9, <2>1 DEF PassTime, memoryVars, stepVars, Besides
<1>10. ASSUME NEW e \in Engines, StepsEngine(e)
       PROVE  Besides \/ Dies(e)
  BY <1>4, <1>5, <1>6, <1>7, <1>10 DEF StepsEngine
<1> QED
  BY <1>3, <1>8, <1>9, <1>10 DEF StepsNext

(* The waiting steps that a delivery gives a result.                       *)
Awaited(w, n) == \E k \in Keys : subs[k] # NoSub /\ subs[k].id = w /\ subs[k].name = n

LEMMA DeliveredResults ==
  ASSUME StepsInv, Delivers, NEW w \in Workflows
  PROVE  /\ DOMAIN results[w] \subseteq DOMAIN results'[w]
         /\ \A n \in DOMAIN results'[w] :
              \/ Awaited(w, n) /\ results'[w][n].tag # "time"
              \/ n \in DOMAIN results[w] /\ results'[w][n] = results[w][n]
<1>1. PICK K \in SUBSET Keys, x \in {Result("event", 1), Result("timeout", 0)} :
        (\A k \in K : subs[k] # NoSub) /\ Deliver(K, x)
  BY DEF Delivers
<1> DEFINE names == {subs[k].name : k \in {h \in K : subs[h].id = w}}
           got == [n \in names |-> x]
<1>2. results'[w] = Merge(results[w], got)
  BY <1>1 DEF Deliver
<1>3. \A n \in names : Awaited(w, n)
  BY <1>1 DEF Awaited
<1>4. x.tag # "time"
  BY DEF Result
<1>5. DOMAIN got = names /\ \A n \in names : got[n] = x
  OBVIOUS
<1> HIDE DEF names, got
<1>6. /\ DOMAIN results'[w] = DOMAIN results[w] \cup DOMAIN got
      /\ \A n \in DOMAIN got : results'[w][n] = got[n]
      /\ \A n \in DOMAIN results[w] \ DOMAIN got : results'[w][n] = results[w][n]
  BY <1>2 DEF Merge
<1> QED
  BY <1>3, <1>4, <1>5, <1>6

(* What a step of a goroutine does to the results of its workflow.         *)
LEMMA SavedResults ==
  ASSUME TablesOK, NEW p, NEW t, AtStep(p, t), Saves(p, t)
  PROVE  /\ \A w \in Workflows \ {task[p].id} : results'[w] = results[w]
         /\ results'[task[p].id]
              = Put(results[task[p].id], NameOf[task[p].id][Site(p, t)],
                    run[p].thread[t].val)
<1>1. NameHere(p, t) = NameOf[task[p].id][Site(p, t)]
  BY NameHereForm DEF Saves, InStep
<1> QED
  BY <1>1 DEF TablesOK, Saves, AtStep

LEMMA EffectResults ==
  ASSUME NEW p, NEW t, Effect(p, t)
  PROVE  /\ \/ UNCHANGED <<results, subs>>
            \/ Saves(p, t) /\ UNCHANGED subs
            \/ SubscribesTo(p, t) /\ UNCHANGED results
BY DEF Effect, Fails, Enters, Misses, Computes, Learns, Told, Finds, Saves,
       Waits, SubscribesTo, Yields

LEMMA ResultsGrow ==
  ASSUME TypeOK, StepsInv, [StepsNext]_allVars, NEW w \in Workflows
  PROVE  DOMAIN results[w] \subseteq DOMAIN results'[w]
<1>1. ASSUME NEW p \in Workers, StepsWorker(p)
      PROVE  DOMAIN results[w] \subseteq DOMAIN results'[w]
  <2>1. ASSUME NEW t \in DOMAIN run[p].thread, AtStep(p, t), Effect(p, t)
        PROVE  DOMAIN results[w] \subseteq DOMAIN results'[w]
    <3>1. CASE Saves(p, t)
      <4> DEFINE v == task[p].id
      <4>1. /\ \A u \in Workflows \ {v} : results'[u] = results[u]
            /\ results'[v] = Put(results[v], NameOf[v][Site(p, t)], run[p].thread[t].val)
        BY <2>1, <3>1, SavedResults DEF StepsInv
      <4> HIDE DEF v
      <4>2. DOMAIN results[v] \subseteq DOMAIN results'[v]
        BY <4>1 DEF Put, Merge
      <4> QED
        BY <4>1, <4>2
    <3> QED
      BY <2>1, <3>1, EffectResults
  <2> QED
    BY <1>1, <2>1, WorkerEffects DEF WorkerEffect, Starts, Around, Splits,
       Resumes, GivesUp, Completes
<1>2. CASE Besides
  BY <1>2, DeliveredResults DEF Besides
<1>3. CASE \E e \in Engines : Dies(e)
  BY <1>3 DEF Dies
<1> QED
  BY <1>1, <1>2, <1>3, StepKinds

-----------------------------------------------------------------------------
(* Call sites                                                              *)

MainSite(w, s, i) ==
  s = <<i, 0, 0>> /\ i \in DOMAIN Program[w] /\ Program[w][i].kind # "parallel"

BranchSite(w, s, i, b, j) ==
  /\ s = <<i, b, j>>
  /\ i \in DOMAIN Program[w] /\ Program[w][i].kind = "parallel"
  /\ b \in DOMAIN Program[w][i].branches
  /\ j \in DOMAIN Program[w][i].branches[b].steps

LEMMA SiteForm ==
  ASSUME NEW w, NEW s \in Sites(w)
  PROVE  \/ \E i : MainSite(w, s, i)
         \/ \E i, b, j : BranchSite(w, s, i, b, j)
<1>1. CASE s \in {<<i, 0, 0>> :
             i \in {j \in DOMAIN Program[w] : Program[w][j].kind # "parallel"}}
  BY <1>1 DEF MainSite
<1>2. CASE s \notin {<<i, 0, 0>> :
             i \in {j \in DOMAIN Program[w] : Program[w][j].kind # "parallel"}}
  <2> DEFINE P == {j \in DOMAIN Program[w] : Program[w][j].kind = "parallel"}
  <2>1. s \in UNION {UNION {{<<i, b, j>> : j \in DOMAIN Program[w][i].branches[b].steps}
                        : b \in DOMAIN Program[w][i].branches} : i \in P}
    BY <1>2 DEF Sites
  <2>2. PICK i \in P :
          s \in UNION {{<<i, b, j>> : j \in DOMAIN Program[w][i].branches[b].steps}
                        : b \in DOMAIN Program[w][i].branches}
    BY <2>1
  <2>3. PICK b \in DOMAIN Program[w][i].branches :
          s \in {<<i, b, j>> : j \in DOMAIN Program[w][i].branches[b].steps}
    BY <2>2
  <2>4. PICK j \in DOMAIN Program[w][i].branches[b].steps : s = <<i, b, j>>
    BY <2>3
  <2> QED
    BY <2>2, <2>3, <2>4 DEF BranchSite
<1> QED
  BY <1>1, <1>2

(* A call site has its place in the main code, and in that of its branch.  *)
LEMMA SiteParts ==
  ASSUME NEW w \in Workflows, NEW s \in Sites(w)
  PROVE  /\ s = <<s[1], s[2], s[3]>>
         /\ s[1] \in DOMAIN Program[w] /\ s[1] \in Nat \ {0}
         /\ s[2] \in Nat /\ s[3] \in Nat
         /\ Program[w][s[1]].kind # "parallel" <=> s[2] = 0
         /\ s[2] = 0 => s[3] = 0
         /\ s[2] # 0 => /\ s[2] \in DOMAIN Program[w][s[1]].branches
                        /\ s[3] \in DOMAIN Program[w][s[1]].branches[s[2]].steps
                        /\ s[3] \in Nat \ {0}
<1>1. Len(Program[w]) \in Nat /\ DOMAIN Program[w] = 1..Len(Program[w])
  BY MainCode
<1>2. ASSUME NEW i, MainSite(w, s, i)
      PROVE  s[1] = i /\ s[2] = 0 /\ s[3] = 0 /\ s = <<i, 0, 0>>
             /\ i \in DOMAIN Program[w] /\ Program[w][i].kind # "parallel"
  BY <1>2 DEF MainSite
<1>3. ASSUME NEW i, NEW b, NEW j, BranchSite(w, s, i, b, j)
      PROVE  /\ s[1] = i /\ s[2] = b /\ s[3] = j /\ s = <<i, b, j>>
             /\ i \in DOMAIN Program[w] /\ Program[w][i].kind = "parallel"
             /\ b \in DOMAIN Program[w][i].branches
             /\ j \in DOMAIN Program[w][i].branches[b].steps
             /\ b \in Nat \ {0} /\ j \in Nat \ {0}
  <2>1. /\ s = <<i, b, j>>
        /\ i \in DOMAIN Program[w] /\ Program[w][i].kind = "parallel"
        /\ b \in DOMAIN Program[w][i].branches
        /\ j \in DOMAIN Program[w][i].branches[b].steps
    BY <1>3 DEF BranchSite
  <2> DEFINE branches == Program[w][i].branches
             code == branches[b].steps
  <2>2. /\ Len(branches) \in Nat /\ DOMAIN branches = 1..Len(branches)
        /\ Len(code) \in Nat /\ DOMAIN code = 1..Len(code)
    BY <2>1, BranchCode
  <2>3. b \in DOMAIN branches /\ j \in DOMAIN code
    BY <2>1
  <2> HIDE DEF code, branches
  <2>4. b \in Nat \ {0} /\ j \in Nat \ {0}
    BY <2>2, <2>3
  <2> QED
    BY <2>1, <2>4
<1>4. CASE \E i : MainSite(w, s, i)
  BY <1>1, <1>2, <1>4
<1>5. CASE \E i, b, j : BranchSite(w, s, i, b, j)
  BY <1>1, <1>3, <1>5
<1> QED
  BY <1>4, <1>5, SiteForm

(* The thread t of a context r has got beyond the call site s.             *)
BeyondIn(r, t, s) ==
  /\ t # 1 /\ s[1] = r.thread[1].at /\ s[2] = t - 1 /\ s[3] < r.thread[t].at

(* The execution with the context r has got beyond the call site s.        *)
PassedBy(r, s) ==
  \/ s[1] < r.thread[1].at
  \/ \E t \in DOMAIN r.thread : BeyondIn(r, t, s)

LEMMA AloneWhenMain ==
  ASSUME NEW p, AtStep(p, 1)
  PROVE  DOMAIN run[p].thread = {1}
<1>1. Forks(run[p], task[p].id) /\ run[p].thread[1].loc # "join"
  BY DEF AtStep, ContextAt, PlacedAt
<1> QED
  BY <1>1 DEF Forks

LEMMA AltersSwaps ==
  ASSUME NEW p, NEW t, AtStep(p, t), NEW th, Alters(p, t, th)
  PROVE  Swapped(run[p], run'[p], t, th) /\ run'[p].cache = run[p].cache
<1>1. IsRun(run[p])
  BY AtStepForm
<1>2. PICK n \in Nat \ {0} : run[p].thread = [i \in 1..n |-> run[p].thread[i]]
  BY <1>1 DEF IsRun
<1> QED
  BY <1>2 DEF Alters, Becomes, Swapped

(* A goroutine that goes on by one step has got beyond the site it was at. *)
LEMMA PassedMore ==
  ASSUME NEW p \in Workers, NEW t, AtStep(p, t), NEW th, Alters(p, t, th),
         th.at \in {run[p].thread[t].at, run[p].thread[t].at + 1},
         NEW s \in Sites(task[p].id), PassedBy(run'[p], s)
  PROVE  \/ PassedBy(run[p], s)
         \/ th.at = run[p].thread[t].at + 1 /\ s = Site(p, t)
<1> DEFINE w == task[p].id
           r == run[p]
           q == run'[p]
           at == r.thread[t].at
<1>1. Swapped(r, q, t, th) /\ IsRun(r)
  BY AtStepForm, AltersSwaps
<1>2. /\ s = <<s[1], s[2], s[3]>> /\ s[1] \in Nat /\ s[2] \in Nat /\ s[3] \in Nat
      /\ Program[w][s[1]].kind # "parallel" <=> s[2] = 0
      /\ s[2] = 0 => s[3] = 0
  BY SiteParts DEF AtStep
<1>3. at \in Nat
  BY AtStepCode
<1>4. 1 \in DOMAIN r.thread /\ t \in DOMAIN r.thread
      /\ (\A u \in DOMAIN r.thread : u \in Nat)
  BY <1>1, RunDomain DEF AtStep
<1>5. CASE t = 1
  <2>1. DOMAIN r.thread = {1}
    BY <1>5, AloneWhenMain
  <2>2. s[1] < th.at
    BY <1>1, <1>5, <2>1 DEF PassedBy, BeyondIn, Swapped
  <2>3. CASE s[1] < at
    BY <1>5, <2>3 DEF PassedBy
  <2>4. CASE ~(s[1] < at)
    <3>1. th.at = at + 1 /\ s[1] = at
      BY <1>2, <1>3, <2>2, <2>4
    <3>2. Program[w][at].kind # "parallel"
      BY <1>5 DEF AtStep, Step, Code, Main
    <3>3. s = <<at, 0, 0>>
      BY <1>2, <3>1, <3>2
    <3> QED
      BY <1>5, <3>1, <3>3 DEF Site, Here
  <2> QED
    BY <2>3, <2>4
<1>6. CASE t # 1
  <2>1. q.thread[1] = r.thread[1] /\ DOMAIN q.thread = DOMAIN r.thread
    BY <1>1, <1>4, <1>6 DEF Swapped
  <2>2. CASE s[1] < q.thread[1].at
    BY <2>1, <2>2 DEF PassedBy
  <2>3. ASSUME NEW u \in DOMAIN q.thread, BeyondIn(q, u, s), u # t
        PROVE  PassedBy(r, s)
    BY <1>1, <2>1, <2>3 DEF PassedBy, BeyondIn, Swapped
  <2>4. CASE BeyondIn(q, t, s)
    <3>1. s[1] = Here(p) /\ s[2] = t - 1 /\ s[3] < th.at
      BY <1>1, <2>1, <2>4 DEF BeyondIn, Here, Swapped
    <3>2. CASE s[3] < at
      BY <1>4, <1>6, <3>1, <3>2 DEF PassedBy, BeyondIn, Here
    <3>3. CASE ~(s[3] < at)
      <4>1. th.at = at + 1 /\ s[3] = at
        BY <1>2, <1>3, <3>1, <3>3
      <4> QED
        BY <1>2, <1>6, <3>1, <4>1 DEF Site
    <3> QED
      BY <3>2, <3>3
  <2> QED
    BY <2>2, <2>3, <2>4 DEF PassedBy
<1> QED
  BY <1>5, <1>6
=============================================================================
